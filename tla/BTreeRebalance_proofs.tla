------------------------- MODULE BTreeRebalance_proofs -------------------------
(***************************************************************************)
(* Proofs about BTree, for any order above two, any number of pages and    *)
(* any entries.  The invariant speaks of a node and its neighbours only:   *)
(* its parent, its children, and the next node of its level.  What the     *)
(* properties say of the whole tree is derived from that, by induction     *)
(* over the levels.                                                        *)
(***************************************************************************)
EXTENDS BTree, FiniteSetTheorems, SequenceTheorems, WellFoundedInduction, TLAPS

-----------------------------------------------------------------------------
(* The invariant, of the pages N, the header h and the work w.  T are the  *)
(* pages of the tree, lev their levels, 0 that of the leaves, nxt the next *)
(* node of the same level, and fl the free pages in the order of the list. *)

Header == [btree_order : Orders, first_free : PageOrNone,
           num_pages : NDX_INIT_NUM_PAGES .. MaxPage + 1, root_page : Pages, last_leaf : Pages]

Works == [todo : {"nothing", "overflow", "underflow"}, page : PageOrNone]

Nodes == [next_free : PageOrNone, parent : PageOrNone, is_leaf : BOOLEAN,
          prev_leaf : PageOrNone, next_leaf : PageOrNone,
          keys : Seq(Keys), rids : Seq(Rids) \cup Seq(Pages)]

Typed(N) ==
  /\ N \in [Pages -> Nodes]
  /\ \A p \in Pages :
       /\ Len(N[p].keys) = Len(N[p].rids)
       /\ N[p].rids \in IF N[p].is_leaf THEN Seq(Rids) ELSE Seq(Pages)

\* The free pages.
FreeList(N, h, T, fl) ==
  /\ fl \in Seq(Pages) /\ IsInjective(fl)
  /\ T \cup ToSet(fl) = NDX_INIT_ROOT_PAGE .. h.num_pages - 1 /\ T \cap ToSet(fl) = {}
  /\ h.first_free = IF fl = << >> THEN NDX_NO_PAGE ELSE fl[1]
  /\ \A i \in DOMAIN fl : N[fl[i]].next_free = IF i < Len(fl) THEN fl[i + 1] ELSE NDX_NO_PAGE
  /\ \A p \in Pages \ ToSet(fl) : N[p].next_free = NDX_NO_PAGE

\* The pages that are no nodes, the free ones and those past the end of the file.
Blank(N, T) ==
  \A p \in Pages \ (T \cup {NDX_LEAF_HEADER_PAGE}) :
    /\ ~N[p].is_leaf /\ N[p].parent = NDX_NO_PAGE /\ N[p].next_leaf = NDX_NO_PAGE
    /\ N[p].keys = << >> /\ N[p].rids = << >>

Shape(T, lev, nxt) ==
  /\ T \subseteq Pages \ {NDX_LEAF_HEADER_PAGE}
  /\ lev \in [Pages -> Nat] /\ nxt \in [Pages -> T \cup {NDX_NO_PAGE}]
  /\ \A p \in Pages \ T : lev[p] = 0 /\ nxt[p] = NDX_NO_PAGE
  /\ \A p \in T : nxt[p] # NDX_NO_PAGE => lev[nxt[p]] = lev[p]
  /\ \A p, q \in T : nxt[p] = nxt[q] /\ nxt[p] # NDX_NO_PAGE => p = q

\* A node and its parent.
ParentOK(N, root, T, lev, p) ==
  /\ N[p].is_leaf <=> lev[p] = 0
  /\ lev[p] <= lev[root]
  /\ p = root <=> N[p].parent = NDX_NO_PAGE
  /\ p # root => /\ N[p].parent \in T /\ ~N[N[p].parent].is_leaf
                 /\ lev[N[p].parent] = lev[p] + 1
                 /\ p \in ToSet(N[N[p].parent].rids)

\* The first child of the next node.
FirstOfNext(N, nxt, p) == IF nxt[p] = NDX_NO_PAGE THEN NDX_NO_PAGE ELSE N[nxt[p]].rids[1]

\* An inner node and its children.
ChildrenOK(N, T, nxt, p) ==
  /\ N[p].rids # << >> /\ IsInjective(N[p].rids)
  /\ \A i \in DOMAIN N[p].rids :
       LET c == N[p].rids[i] IN
       /\ c \in T /\ N[c].parent = p
       /\ nxt[c] = IF i < Len(N[p].rids) THEN N[p].rids[i + 1] ELSE FirstOfNext(N, nxt, p)

Links(N, root, T, lev, nxt) ==
  /\ root \in T /\ nxt[root] = NDX_NO_PAGE
  /\ \A p \in T : ParentOK(N, root, T, lev, p)
  /\ \A p \in T : ~N[p].is_leaf => ChildrenOK(N, T, nxt, p)

\* A leaf and its neighbours in the ring.
LeafOK(N, last_leaf, T, nxt, p) ==
  /\ N[p].next_leaf = IF nxt[p] = NDX_NO_PAGE THEN NDX_LEAF_HEADER_PAGE ELSE nxt[p]
  /\ nxt[p] = NDX_NO_PAGE => p = last_leaf
  /\ nxt[p] # NDX_NO_PAGE => N[nxt[p]].prev_leaf = p
  /\ nxt[p] # first_leaf
  /\ p # first_leaf => N[p].prev_leaf \in T /\ nxt[N[p].prev_leaf] = p

RingOK(N, last_leaf, T, nxt) ==
  /\ first_leaf \in T /\ N[first_leaf].is_leaf
  /\ N[first_leaf].prev_leaf = NDX_LEAF_HEADER_PAGE
  /\ last_leaf \in T /\ N[last_leaf].is_leaf /\ nxt[last_leaf] = NDX_NO_PAGE
  /\ \A p \in T : N[p].is_leaf => LeafOK(N, last_leaf, T, nxt, p)
  /\ N[NDX_LEAF_HEADER_PAGE] =
       IndexPageHeader(NDX_NO_PAGE, TRUE, last_leaf, first_leaf)

\* The keys of the inner nodes, but for the child x.
KeysOK(N, T, x) ==
  \A p \in T : ~N[p].is_leaf =>
    \A i \in DOMAIN N[p].rids : N[p].rids[i] # x => N[p].keys[i] = Last(N[N[p].rids[i]].keys)

\* The least number of children, as it is in MinFill.
MinOf(h) == (h.btree_order + 1) \div 2

Extra(w, todo, p) == IF w = [todo |-> todo, page |-> p] THEN 1 ELSE 0

Filled(N, h, T, w) ==
  /\ \A p \in T : Len(N[p].rids) <= h.btree_order + Extra(w, "overflow", p)
  /\ \A p \in T \ {h.root_page} : Len(N[p].rids) >= MinOf(h) - Extra(w, "underflow", p)
  /\ w.todo # "nothing" => w.page \in T
  /\ w.todo = "nothing" => w = Idle
  /\ w.todo = "overflow" => Len(N[w.page].rids) = h.btree_order + 1
  /\ w.todo = "underflow" => Len(N[w.page].rids) < MinOf(h)
  /\ ~N[h.root_page].is_leaf /\ Len(N[h.root_page].rids) < 2 =>
       \/ w.todo = "overflow" /\ N[w.page].parent = h.root_page
       \/ w.todo = "underflow" /\ w.page = h.root_page

\* The keys of the leaves ascend.
Ascending(N, T, nxt) ==
  \A p \in T : N[p].is_leaf =>
    /\ \A i, j \in DOMAIN N[p].keys : i < j => N[p].keys[i] <= N[p].keys[j]
    /\ nxt[p] # NDX_NO_PAGE => Last(N[p].keys) <= N[nxt[p]].keys[1]

\* What the leaves hold are entries, and no record has two.
EntriesOK(N, T) ==
  /\ \A p \in T : N[p].is_leaf =>
       \A i \in DOMAIN N[p].rids : <<N[p].keys[i], N[p].rids[i]>> \in Entry
  /\ \A p, q \in T : N[p].is_leaf /\ N[q].is_leaf =>
       \A i \in DOMAIN N[p].rids, j \in DOMAIN N[q].rids :
         N[p].rids[i] = N[q].rids[j] => p = q /\ i = j

Index(N, h, w, T, lev, nxt, fl) ==
  /\ Typed(N) /\ h \in Header /\ w \in Works
  /\ FreeList(N, h, T, fl) /\ Blank(N, T)
  /\ Shape(T, lev, nxt)
  /\ Links(N, h.root_page, T, lev, nxt)
  /\ RingOK(N, h.last_leaf, T, nxt)
  /\ KeysOK(N, T, NDX_NO_PAGE)
  /\ Filled(N, h, T, w)
  /\ Ascending(N, T, nxt)
  /\ EntriesOK(N, T)

IInv == \E T, lev, nxt, fl : Index(node, hdr, work, T, lev, nxt, fl)

\* A leaf among the pages N has the entry of key k and record r.
Has(N, k, r) ==
  \E p \in Pages :
    N[p].is_leaf /\ \E j \in DOMAIN N[p].rids : N[p].keys[j] = k /\ N[p].rids[j] = r

\* The pages N have the same entries as those before the step.
SameEntries(N) == \A k, r : Has(N, k, r) <=> Has(node, k, r)
-----------------------------------------------------------------------------
(* Numbers, recursion and sequences.                                       *)

\* A set of naturals that is not empty has a least element.
LEMMA Least ==
  ASSUME NEW U, U \subseteq Nat, U # {}
  PROVE  \E m \in U : \A n \in U : m <= n
<1> DEFINE R == {ss \in Nat \X Nat : ss[1] < ss[2]}
<1>1. IsWellFoundedOn(R, Nat)
  BY NatLessThanWellFounded DEF OpToRel
<1>2. \E x \in U : \A y \in U : ~ (<<y, x>> \in R)
  <2> HIDE DEF R
  <2> QED BY <1>1, WFMin
<1>3. PICK x \in U : \A y \in U : ~ (<<y, x>> \in R)
  BY <1>2
<1>4. ASSUME NEW y \in U PROVE x <= y
  <2>1. x \in Nat /\ y \in Nat /\ <<y, x>> \in Nat \X Nat
    OBVIOUS
  <2>2. ~(y < x)
    BY <2>1, <1>3
  <2> QED BY <2>1, <2>2
<1> QED
  BY <1>4

\* Of the members of a set, one has the least rank.
LEMMA LeastRank ==
  ASSUME NEW U, NEW rank, \A x \in U : rank[x] \in Nat, U # {}
  PROVE  \E x \in U : \A y \in U : rank[x] <= rank[y]
<1> DEFINE K == {rank[x] : x \in U}
<1>1. K \subseteq Nat /\ K # {}
  OBVIOUS
<1>2. PICK m \in K : \A n \in K : m <= n
  <2> HIDE DEF K
  <2> QED BY <1>1, Least
<1> QED
  BY <1>2

\* G depends on its second argument below the rank of its first only.
Below(S, V, rank, G) ==
  \A x \in S : \A f, g \in [S -> V] :
    (\A y \in S : rank[y] < rank[x] => f[y] = g[y]) => G[<<x, f>>] = G[<<x, g>>]

\* f is right for everything of a rank less than k.
RightTo(S, rank, G, f, k) == \A x \in S : rank[x] < k => f[x] = G[<<x, f>>]

\* What a recursion on smaller ranks needs.
Recurs(S, V, rank, G) ==
  /\ V # {} /\ rank \in [S -> Nat] /\ G \in [S \X [S -> V] -> V]
  /\ Below(S, V, rank, G)

\* A function defined by recursion on smaller ranks exists.
LEMMA Recursion ==
  ASSUME NEW S, NEW V, NEW rank, NEW G, Recurs(S, V, rank, G)
  PROVE  \E f \in [S -> V] : f = [x \in S |-> G[<<x, f>>]]
<1>0. rank \in [S -> Nat] /\ G \in [S \X [S -> V] -> V] /\ Below(S, V, rank, G)
  BY DEF Recurs
<1> PICK v \in V : TRUE
  BY DEF Recurs
<1> USE <1>0
<1> DEFINE Bad == {k \in Nat : ~ \E f \in [S -> V] : RightTo(S, rank, G, f, k)}
<1>1. ASSUME NEW k \in Nat, k > 0, k - 1 \notin Bad PROVE k \notin Bad
  <2>1. PICK f \in [S -> V] : RightTo(S, rank, G, f, k - 1)
    BY <1>1
  <2> DEFINE g == [x \in S |-> IF rank[x] < k - 1 THEN f[x] ELSE G[<<x, f>>]]
  <2>2. g \in [S -> V]
    OBVIOUS
  <2>3. ASSUME NEW x \in S, rank[x] < k PROVE g[x] = G[<<x, g>>]
    <3>1. rank[x] <= k - 1 /\ rank[x] \in Nat
      BY <2>3
    <3>2. \A y \in S : rank[y] < rank[x] => f[y] = g[y]
      BY <3>1
    <3>3. G[<<x, f>>] = G[<<x, g>>]
      BY <2>2, <3>2 DEF Below
    <3> QED BY <2>1, <3>3 DEF RightTo
  <2> HIDE DEF g
  <2> QED BY <2>2, <2>3 DEF RightTo
<1>2. 0 \notin Bad
  <2>1. [x \in S |-> v] \in [S -> V]
    OBVIOUS
  <2>2. RightTo(S, rank, G, [x \in S |-> v], 0)
    BY DEF RightTo
  <2> QED BY <2>1, <2>2
<1>3. Bad = {}
  <2> SUFFICES ASSUME Bad # {} PROVE FALSE
    OBVIOUS
  <2>1. Bad \subseteq Nat
    OBVIOUS
  <2> HIDE DEF Bad
  <2>2. PICK k \in Bad : \A l \in Bad : k <= l
    BY <2>1, Least
  <2>3. k > 0 /\ k \in Nat
    BY <2>1, <1>2
  <2>4. k - 1 \notin Bad
    BY <2>2, <2>3
  <2> QED BY <1>1, <2>2, <2>3, <2>4
\* Two of them agree as far as both are right.
<1>4. ASSUME NEW f \in [S -> V], NEW g \in [S -> V], NEW k \in Nat, NEW l \in Nat,
             RightTo(S, rank, G, f, k), RightTo(S, rank, G, g, l)
      PROVE  \A x \in S : rank[x] < k /\ rank[x] < l => f[x] = g[x]
  <2> DEFINE Differ == {x \in S : rank[x] < k /\ rank[x] < l /\ f[x] # g[x]}
  <2> SUFFICES ASSUME Differ # {} PROVE FALSE
    OBVIOUS
  <2>1. \A x \in Differ : rank[x] \in Nat
    OBVIOUS
  <2>2. \E x \in Differ : \A y \in Differ : rank[x] <= rank[y]
    <3> HIDE DEF Differ
    <3> QED BY <2>1, LeastRank
  <2>3. PICK x \in Differ : \A y \in Differ : rank[x] <= rank[y]
    BY <2>2
  <2>4. \A y \in S : rank[y] < rank[x] => f[y] = g[y]
    <3> SUFFICES ASSUME NEW y \in S, rank[y] < rank[x], f[y] # g[y] PROVE FALSE
      OBVIOUS
    <3>1. y \in Differ
      OBVIOUS
    <3> QED BY <2>3, <3>1
  <2>5. G[<<x, f>>] = G[<<x, g>>]
    BY <2>4 DEF Below
  <2> QED BY <2>5, <1>4 DEF RightTo
<1> DEFINE F == [k \in Nat |-> CHOOSE f \in [S -> V] : RightTo(S, rank, G, f, k)]
           h == [x \in S |-> F[rank[x] + 1][x]]
<1>5. \A k \in Nat : F[k] \in [S -> V] /\ RightTo(S, rank, G, F[k], k)
  BY <1>3
<1> HIDE DEF F
<1>6. h \in [S -> V]
  BY <1>5
<1>7. ASSUME NEW x \in S PROVE h[x] = G[<<x, h>>]
  <2> DEFINE k == rank[x] + 1
  <2>1. k \in Nat /\ rank[x] < k
    OBVIOUS
  <2>2. \A y \in S : rank[y] < rank[x] => F[k][y] = h[y]
    <3> SUFFICES ASSUME NEW y \in S, rank[y] < rank[x] PROVE F[k][y] = h[y]
      OBVIOUS
    <3>1. rank[y] + 1 \in Nat /\ rank[y] < k /\ rank[y] < rank[y] + 1
      OBVIOUS
    <3>2. F[k][y] = F[rank[y] + 1][y]
      <4> HIDE DEF k
      <4> QED BY <1>4, <1>5, <2>1, <3>1
    <3> QED BY <3>2
  <2>3. G[<<x, F[k]>>] = G[<<x, h>>]
    <3> HIDE DEF h, k
    <3> QED BY <1>5, <1>6, <2>1, <2>2 DEF Below
  <2>4. F[k][x] = G[<<x, F[k]>>]
    <3> HIDE DEF k
    <3> QED BY <1>5, <2>1 DEF RightTo
  <2> QED BY <2>3, <2>4
<1> HIDE DEF h
<1>8. h = [x \in S |-> h[x]]
  BY <1>6
<1>9. h = [x \in S |-> G[<<x, h>>]]
  BY <1>7, <1>8
<1> QED
  BY <1>6, <1>9

LEMMA InsertAtIs ==
  ASSUME NEW S, NEW s \in Seq(S), NEW i \in 1 .. Len(s) + 1, NEW e \in S
  PROVE  /\ InsertAt(s, i, e) \in Seq(S) /\ Len(InsertAt(s, i, e)) = Len(s) + 1
         /\ \A j \in 1 .. Len(s) + 1 :
              InsertAt(s, i, e)[j] = IF j < i THEN s[j] ELSE IF j = i THEN e ELSE s[j - 1]
<1> DEFINE a == SubSeq(s, 1, i - 1)
           b == <<e>>
           c == SubSeq(s, i, Len(s))
<1>1. Len(s) \in Nat /\ i \in Nat /\ i - 1 \in Nat
  OBVIOUS
<1>2. a \in Seq(S) /\ Len(a) = i - 1 /\ \A j \in 1 .. i - 1 : a[j] = s[j]
  BY <1>1
<1>3. c \in Seq(S) /\ Len(c) = Len(s) + 1 - i /\ \A j \in 1 .. Len(s) + 1 - i : c[j] = s[i + j - 1]
  BY <1>1
<1>4. b \in Seq(S) /\ Len(b) = 1 /\ b[1] = e
  OBVIOUS
<1>5. InsertAt(s, i, e) = (a \o b) \o c
  BY DEF InsertAt
<1> HIDE DEF a, b, c
<1>6. /\ a \o b \in Seq(S) /\ Len(a \o b) = i
      /\ \A j \in 1 .. i : (a \o b)[j] = IF j < i THEN s[j] ELSE e
  <2>1. /\ a \o b \in Seq(S) /\ Len(a \o b) = Len(a) + Len(b)
        /\ \A j \in 1 .. Len(a) + Len(b) :
             (a \o b)[j] = IF j <= Len(a) THEN a[j] ELSE b[j - Len(a)]
    BY <1>2, <1>4, ConcatProperties
  <2> DEFINE d == a \o b
  <2> HIDE DEF d
  <2>2. /\ d \in Seq(S) /\ Len(d) = i
        /\ \A j \in 1 .. i : d[j] = IF j <= i - 1 THEN a[j] ELSE b[j - (i - 1)]
    BY <1>1, <1>2, <1>4, <2>1 DEF d
  <2>3. \A j \in 1 .. i : d[j] = IF j < i THEN s[j] ELSE e
    <3> SUFFICES ASSUME NEW j \in 1 .. i PROVE d[j] = IF j < i THEN s[j] ELSE e
      OBVIOUS
    <3>1. CASE j < i
      BY <3>1, <1>1, <1>2, <2>2
    <3>2. CASE j = i
      <4>1. j - (i - 1) = 1
        BY <3>2, <1>1
      <4> QED BY <3>2, <4>1, <1>1, <1>4, <2>2
    <3> QED BY <3>1, <3>2
  <2> QED BY <2>2, <2>3 DEF d
<1> DEFINE d == a \o b
<1> HIDE DEF d
<1>7. d \in Seq(S) /\ Len(d) = i /\ \A j \in 1 .. i : d[j] = IF j < i THEN s[j] ELSE e
  BY <1>6 DEF d
<1>8. d \o c \in Seq(S) /\ Len(d \o c) = Len(s) + 1
  BY <1>1, <1>3, <1>7
<1>9. ASSUME NEW j \in 1 .. Len(s) + 1
      PROVE  (d \o c)[j] = IF j < i THEN s[j] ELSE IF j = i THEN e ELSE s[j - 1]
  BY <1>1, <1>3, <1>7
<1> QED
  BY <1>5, <1>8, <1>9 DEF d

LEMMA InsertAlone ==
  ASSUME NEW S, NEW e \in S
  PROVE  /\ InsertAt(<< >>, 1, e) \in Seq(S) /\ Len(InsertAt(<< >>, 1, e)) = 1
         /\ InsertAt(<< >>, 1, e)[1] = e
<1> DEFINE s == << >>
           i == 1
           t == InsertAt(s, i, e)
<1>1. s \in Seq(S)
  OBVIOUS
<1>2. Len(s) = 0 /\ i = 1
  OBVIOUS
<1> HIDE DEF s, i
<1>3. i \in 1 .. Len(s) + 1
  BY <1>2
<1>4. /\ t \in Seq(S) /\ Len(t) = Len(s) + 1
      /\ \A j \in 1 .. Len(s) + 1 : t[j] = IF j < i THEN s[j] ELSE IF j = i THEN e ELSE s[j - 1]
  BY <1>1, <1>3, InsertAtIs
<1> HIDE DEF t
<1>5. t[1] = e /\ Len(t) = 1
  BY <1>2, <1>3, <1>4
<1> QED
  BY <1>4, <1>5 DEF s, i, t

LEMMA RemoveAtIs ==
  ASSUME NEW S, NEW s \in Seq(S), NEW i \in 1 .. Len(s)
  PROVE  /\ RemoveAt(s, i) \in Seq(S) /\ Len(RemoveAt(s, i)) = Len(s) - 1
         /\ \A j \in 1 .. Len(s) - 1 : RemoveAt(s, i)[j] = IF j < i THEN s[j] ELSE s[j + 1]
<1> DEFINE a == SubSeq(s, 1, i - 1)
           c == SubSeq(s, i + 1, Len(s))
<1>1. Len(s) \in Nat /\ i \in Nat /\ i - 1 \in Nat
  OBVIOUS
<1>2. a \in Seq(S) /\ Len(a) = i - 1 /\ \A j \in 1 .. i - 1 : a[j] = s[j]
  BY <1>1
<1>3. c \in Seq(S) /\ Len(c) = Len(s) - i /\ \A j \in 1 .. Len(s) - i : c[j] = s[i + j]
  BY <1>1
<1>4. RemoveAt(s, i) = a \o c
  BY DEF RemoveAt
<1> HIDE DEF a, c
<1>5. /\ a \o c \in Seq(S) /\ Len(a \o c) = Len(a) + Len(c)
      /\ \A j \in 1 .. Len(a) + Len(c) :
           (a \o c)[j] = IF j <= Len(a) THEN a[j] ELSE c[j - Len(a)]
  BY <1>2, <1>3, ConcatProperties
<1> DEFINE d == a \o c
<1> HIDE DEF d
<1>6. /\ d \in Seq(S) /\ Len(d) = Len(s) - 1
      /\ \A j \in 1 .. Len(s) - 1 : d[j] = IF j <= i - 1 THEN a[j] ELSE c[j - (i - 1)]
  BY <1>1, <1>2, <1>3, <1>5 DEF d
<1>7. ASSUME NEW j \in 1 .. Len(s) - 1
      PROVE  d[j] = IF j < i THEN s[j] ELSE s[j + 1]
  <2>1. CASE j < i
    BY <2>1, <1>1, <1>2, <1>6
  <2>2. CASE ~(j < i)
    <3>1. j - (i - 1) \in 1 .. Len(s) - i /\ i + (j - (i - 1)) = j + 1
      BY <2>2, <1>1
    <3> QED BY <2>2, <3>1, <1>1, <1>3, <1>6
  <2> QED BY <2>1, <2>2
<1> QED
  BY <1>4, <1>6, <1>7 DEF d

LEMMA SubSeqIs ==
  ASSUME NEW S, NEW s \in Seq(S), NEW m \in Nat, NEW n \in Nat, 1 <= m, n <= Len(s), m <= n + 1
  PROVE  /\ SubSeq(s, m, n) \in Seq(S) /\ Len(SubSeq(s, m, n)) = n + 1 - m
         /\ \A j \in 1 .. n + 1 - m : SubSeq(s, m, n)[j] = s[m + j - 1]
OBVIOUS

LEMMA ConcatIs ==
  ASSUME NEW S, NEW s \in Seq(S), NEW t \in Seq(S)
  PROVE  /\ s \o t \in Seq(S) /\ Len(s \o t) = Len(s) + Len(t)
         /\ \A j \in 1 .. Len(s) + Len(t) : (s \o t)[j] = IF j <= Len(s) THEN s[j] ELSE t[j - Len(s)]
OBVIOUS

LEMMA ReplaceAtIs ==
  ASSUME NEW S, NEW s \in Seq(S), NEW i \in 1 .. Len(s), NEW e \in S
  PROVE  /\ ReplaceAt(s, i, e) \in Seq(S) /\ Len(ReplaceAt(s, i, e)) = Len(s)
         /\ \A j \in 1 .. Len(s) : ReplaceAt(s, i, e)[j] = IF j = i THEN e ELSE s[j]
BY DEF ReplaceAt

-----------------------------------------------------------------------------
(* Positions and pages.                                                    *)

LEMMA Constants ==
  /\ NDX_NO_PAGE \notin Pages /\ NDX_NO_PAGE = -1
  /\ NDX_LEAF_HEADER_PAGE \in Pages /\ NDX_INIT_ROOT_PAGE \in Pages
  /\ Pages \subseteq Nat /\ MaxPage \in Nat /\ MaxPage >= 3
  /\ NDX_LEAF_HEADER_PAGE = 1 /\ NDX_INIT_ROOT_PAGE = 2 /\ NDX_INIT_NUM_PAGES = 3
BY MaxPageAssumption DEF NDX_NO_PAGE, Pages, NDX_LEAF_HEADER_PAGE, NDX_INIT_ROOT_PAGE, NDX_INIT_NUM_PAGES

LEMMA InToSet ==
  ASSUME NEW S, NEW s \in Seq(S), NEW e
  PROVE  e \in ToSet(s) <=> \E i \in 1 .. Len(s) : s[i] = e
BY DEF ToSet

\* FindChild finds a child.
LEMMA FindChildIs ==
  ASSUME NEW S, NEW n, n.rids \in Seq(S), NEW c \in ToSet(n.rids)
  PROVE  /\ FindChild(n, c) \in 1 .. Len(n.rids) /\ n.rids[FindChild(n, c)] = c
         /\ IsInjective(n.rids) => \A i \in 1 .. Len(n.rids) : n.rids[i] = c => i = FindChild(n, c)
<1> DEFINE U == {i \in 1 .. Len(n.rids) : n.rids[i] = c}
<1>1. DOMAIN n.rids = 1 .. Len(n.rids) /\ Len(n.rids) \in Nat
  OBVIOUS
<1>2. U # {} /\ U \subseteq Nat
  BY <1>1 DEF ToSet
<1>3. \E i \in U : \A j \in U : i <= j
  <2> HIDE DEF U
  <2> QED BY <1>2, Least
<1>4. PICK i \in U : \A j \in U : i <= j
  BY <1>3
<1>5. i \in DOMAIN n.rids /\ n.rids[i] = c /\ \A j \in 1 .. i - 1 : n.rids[j] # c
  <2> SUFFICES ASSUME NEW j \in 1 .. i - 1, n.rids[j] = c PROVE FALSE
    BY <1>1
  <2>1. j \in U /\ j < i
    OBVIOUS
  <2> QED BY <2>1, <1>4
<1>6. FindChild(n, c) \in DOMAIN n.rids /\ n.rids[FindChild(n, c)] = c
  BY <1>5 DEF FindChild
<1> QED
  BY <1>1, <1>6 DEF IsInjective
-----------------------------------------------------------------------------
(* maintain_parent.                                                        *)

\* What the way up from node n needs, the pages being A.  The nodes below the
\* level of n need not know their parent yet, and the key of n is not told yet.
Climbs(A, T, lev, K, n) ==
  /\ Typed(A) /\ n \in T /\ T \subseteq Pages
  /\ lev \in [Pages -> Nat] /\ K \in Nat /\ \A p \in Pages : lev[p] <= K
  /\ \A p \in Pages : A[p].parent # NDX_NO_PAGE =>
       A[p].parent \in T /\ ~A[A[p].parent].is_leaf /\ lev[A[p].parent] = lev[p] + 1
  /\ \A p \in T : A[p].parent # NDX_NO_PAGE /\ lev[p] >= lev[n] =>
       p \in ToSet(A[A[p].parent].rids) /\ A[p].keys # << >>
  /\ \A p \in T : ~A[p].is_leaf =>
       /\ IsInjective(A[p].rids)
       /\ \A i \in 1 .. Len(A[p].rids) :
            LET c == A[p].rids[i] IN
            c \in T /\ lev[c] + 1 = lev[p] /\ (lev[p] > lev[n] => A[c].parent = p)

UpOf(A, up) == [p \in Pages |-> IF A[p].parent = NDX_NO_PAGE THEN {p} ELSE {p} \cup up[A[p].parent]]

LEMMA UpExists ==
  ASSUME NEW A, NEW T, NEW lev, NEW K, NEW n, Climbs(A, T, lev, K, n)
  PROVE  \E up \in [Pages -> SUBSET Pages] : up = UpOf(A, up)
<1> DEFINE S == Pages
           V == SUBSET Pages
           rank == [p \in Pages |-> K - lev[p]]
           G == [a \in S \X [S -> V] |->
                   IF A[a[1]].parent = NDX_NO_PAGE THEN {a[1]}
                   ELSE {a[1]} \cup a[2][A[a[1]].parent]]
<1>1. rank \in [S -> Nat]
  BY DEF Climbs
<1>2. {} \in V
  OBVIOUS
<1>3. ASSUME NEW p \in S, NEW f \in [S -> V]
      PROVE  G[<<p, f>>] = IF A[p].parent = NDX_NO_PAGE THEN {p} ELSE {p} \cup f[A[p].parent]
  OBVIOUS
<1>4. \A p \in Pages : A[p].parent # NDX_NO_PAGE => A[p].parent \in Pages
  BY DEF Climbs
<1>5. G \in [S \X [S -> V] -> V]
  <2> SUFFICES ASSUME NEW a \in S \X [S -> V]
               PROVE  (IF A[a[1]].parent = NDX_NO_PAGE THEN {a[1]}
                       ELSE {a[1]} \cup a[2][A[a[1]].parent]) \in V
    OBVIOUS
  <2>1. a[1] \in Pages /\ a[2] \in [Pages -> SUBSET Pages]
    OBVIOUS
  <2>2. A[a[1]].parent # NDX_NO_PAGE => a[2][A[a[1]].parent] \in SUBSET Pages
    BY <2>1, <1>4
  <2> QED BY <2>1, <2>2
<1>6. Below(S, V, rank, G)
  <2> SUFFICES ASSUME NEW x \in S, NEW f \in [S -> V], NEW g \in [S -> V],
                      \A y \in S : rank[y] < rank[x] => f[y] = g[y]
               PROVE  G[<<x, f>>] = G[<<x, g>>]
    BY DEF Below
  <2>1. A[x].parent # NDX_NO_PAGE => f[A[x].parent] = g[A[x].parent]
    <3> SUFFICES ASSUME A[x].parent # NDX_NO_PAGE PROVE rank[A[x].parent] < rank[x]
      BY <1>4
    <3> QED BY <1>4 DEF Climbs
  <2>2. G[<<x, f>>] = IF A[x].parent = NDX_NO_PAGE THEN {x} ELSE {x} \cup f[A[x].parent]
    BY <1>3
  <2>3. G[<<x, g>>] = IF A[x].parent = NDX_NO_PAGE THEN {x} ELSE {x} \cup g[A[x].parent]
    BY <1>3
  <2> HIDE DEF G
  <2> QED BY <2>1, <2>2, <2>3
<1> HIDE DEF G, rank, S, V
<1>00. Recurs(S, V, rank, G)
  BY <1>1, <1>2, <1>5, <1>6 DEF Recurs
<1>0. \E up \in [S -> V] : up = [x \in S |-> G[<<x, up>>]]
  BY <1>00, Recursion
<1> USE DEF S, V
<1>7. PICK up \in [S -> V] : up = [x \in S |-> G[<<x, up>>]]
  BY <1>0
<1>8. \A p \in Pages : up[p] = G[<<p, up>>]
  BY <1>7
<1>9. \A p \in Pages : up[p] = IF A[p].parent = NDX_NO_PAGE THEN {p} ELSE {p} \cup up[A[p].parent]
  BY <1>3, <1>8
<1>10. up = [p \in Pages |-> up[p]]
  BY <1>7
<1>11. up = UpOf(A, up)
  BY <1>9, <1>10 DEF UpOf
<1> QED
  BY <1>7, <1>11

\* PathUp is a chain of nodes of the tree, each the parent of the one before it.
Chain(A, T, lev, n, path) ==
  /\ n \in path /\ path \subseteq T
  /\ \A q \in path : A[q].parent # NDX_NO_PAGE => A[q].parent \in path
  /\ \A q \in path : lev[q] >= lev[n]
  /\ \A q \in path \ {n} : \E c \in path : A[c].parent = q
  /\ \A q, r \in path : lev[q] = lev[r] => q = r

LEMMA PathUpIs ==
  ASSUME NEW A, NEW T, NEW lev, NEW K, NEW n, Climbs(A, T, lev, K, n)
  PROVE  Chain(A, T, lev, n, PathUp(A, n))
<1> DEFINE up == CHOOSE up : up = UpOf(A, up)
<1>1. PathUp(A, n) = up[n]
  BY DEF PathUp, UpOf
<1>2. up = UpOf(A, up)
  <2>1. \E f : f = UpOf(A, f)
    BY UpExists
  <2> QED BY <2>1
<1> HIDE DEF up
<1>3. \A p \in Pages : up[p] = IF A[p].parent = NDX_NO_PAGE THEN {p} ELSE {p} \cup up[A[p].parent]
  BY <1>2 DEF UpOf
<1> DEFINE Bad == {p \in T : ~Chain(A, T, lev, p, up[p])}
           rank == [p \in Pages |-> K - lev[p]]
<1>4. Bad = {}
  <2> SUFFICES ASSUME Bad # {} PROVE FALSE
    OBVIOUS
  <2>1. \A x \in Bad : rank[x] \in Nat
    BY DEF Climbs
  <2>2. \E x \in Bad : \A y \in Bad : rank[x] <= rank[y]
    <3> HIDE DEF Bad, rank
    <3> QED BY <2>1, LeastRank
  <2>3. PICK p \in Bad : \A y \in Bad : rank[p] <= rank[y]
    BY <2>2
  <2>4. p \in T /\ p \in Pages /\ T \subseteq Pages
    BY DEF Climbs
  <2>5. CASE A[p].parent = NDX_NO_PAGE
    <3>1. up[p] = {p}
      BY <2>4, <2>5, <1>3
    <3>2. Chain(A, T, lev, p, up[p])
      BY <2>4, <2>5, <3>1 DEF Chain, Climbs
    <3> QED BY <3>2
  <2>6. CASE A[p].parent # NDX_NO_PAGE
    <3> DEFINE q == A[p].parent
    <3>1. q \in T /\ lev[q] = lev[p] + 1 /\ q \in Pages /\ lev[p] \in Nat /\ lev[q] \in Nat
      BY <2>4, <2>6 DEF Climbs
    <3>2. rank[q] < rank[p]
      BY <3>1, <2>4 DEF Climbs
    <3>3. q \notin Bad
      <4>1. rank[q] \in Int /\ rank[p] \in Int
        BY <3>1, <2>4 DEF Climbs
      <4> HIDE DEF rank, Bad
      <4> QED BY <3>2, <4>1, <2>3
    <3>4. Chain(A, T, lev, q, up[q])
      BY <3>1, <3>3
    <3>5. up[p] = {p} \cup up[q]
      BY <2>4, <2>6, <1>3
    <3> HIDE DEF q
    <3>6. A[p].parent = q
      BY DEF q
    <3>7. \A x \in up[q] : lev[x] >= lev[p] + 1 /\ lev[x] \in Nat
      BY <3>1, <3>4, <2>4 DEF Chain, Climbs
    <3>8. Chain(A, T, lev, p, up[p])
      BY <2>4, <3>1, <3>4, <3>5, <3>6, <3>7 DEF Chain
    <3> QED BY <3>8
  <2> QED BY <2>5, <2>6
<1>5. n \in T
  BY DEF Climbs
<1> QED
  BY <1>1, <1>4, <1>5

\* One round of maintain_parent at page p, the greatest keys below it being told.
TellOf(A, path, n, p, told) ==
  IF p = n \/ p \notin path THEN A[p].keys
  ELSE LET c == CHOOSE c \in ToSet(A[p].rids) : c \in path
           i == FindChild(A[p], c)
       IN IF told[c] = << >> THEN A[p].keys
          ELSE IF i > Len(A[p].keys) THEN Append(A[p].keys, Last(told[c]))
          ELSE ReplaceAt(A[p].keys, i, Last(told[c]))

\* The child of p on the path.
OnPath(A, path, p) == CHOOSE c \in ToSet(A[p].rids) : c \in path

LEMMA OnPathIs ==
  ASSUME NEW A, NEW T, NEW lev, NEW K, NEW n, Climbs(A, T, lev, K, n),
         NEW path, Chain(A, T, lev, n, path), NEW p \in path, p # n
  PROVE  LET c == OnPath(A, path, p) IN
         /\ p \in Pages /\ ~A[p].is_leaf /\ A[p].rids \in Seq(Pages) /\ A[p].keys \in Seq(Keys)
         /\ Len(A[p].keys) = Len(A[p].rids) /\ IsInjective(A[p].rids)
         /\ c \in path /\ c \in Pages /\ c \in ToSet(A[p].rids) /\ lev[c] + 1 = lev[p]
         /\ A[c].keys # << >>
         /\ \A d \in ToSet(A[p].rids) : d \in path => d = c
<1> DEFINE c == OnPath(A, path, p)
<1>1. PICK d \in path : A[d].parent = p
  BY DEF Chain
<1>2. p \in T /\ p \in Pages /\ d \in T /\ d \in Pages /\ T \subseteq Pages
  BY DEF Climbs, Chain
<1>3. p # NDX_NO_PAGE
  BY <1>2, Constants
<1>4. /\ ~A[p].is_leaf /\ d \in ToSet(A[p].rids) /\ A[d].keys # << >> /\ lev[p] = lev[d] + 1
  BY <1>1, <1>2, <1>3 DEF Climbs, Chain
<1>5. A[p].rids \in Seq(Pages) /\ A[p].keys \in Seq(Keys) /\ Len(A[p].keys) = Len(A[p].rids)
  BY <1>2, <1>4 DEF Climbs, Typed, Nodes
<1>6. IsInjective(A[p].rids)
  BY <1>2, <1>4 DEF Climbs
<1>7. ASSUME NEW e \in ToSet(A[p].rids), e \in path PROVE e = d
  <2>1. PICK i \in 1 .. Len(A[p].rids) : A[p].rids[i] = e
    BY <1>5, InToSet
  <2>2. lev[e] + 1 = lev[p]
    BY <1>2, <1>4, <2>1 DEF Climbs
  <2>3. lev[e] \in Nat /\ lev[d] \in Nat /\ lev[p] \in Nat
    BY <1>2, <1>7 DEF Climbs, Chain
  <2>4. lev[e] = lev[d]
    BY <1>4, <2>2, <2>3
  <2> QED BY <1>7, <2>4 DEF Chain
<1>8. c = d
  BY <1>4, <1>7 DEF OnPath
<1> QED
  BY <1>2, <1>4, <1>5, <1>6, <1>7, <1>8

LEMMA TellIs ==
  ASSUME NEW A, NEW T, NEW lev, NEW K, NEW n, Climbs(A, T, lev, K, n),
         NEW path, Chain(A, T, lev, n, path), NEW p \in path, p # n,
         NEW told \in [Pages -> Seq(Keys)]
  PROVE  LET c == OnPath(A, path, p) IN
         TellOf(A, path, n, p, told) =
           IF told[c] = << >> THEN A[p].keys
           ELSE ReplaceAt(A[p].keys, FindChild(A[p], c), Last(told[c]))
<1> DEFINE c == OnPath(A, path, p)
           i == FindChild(A[p], c)
<1>1. TellOf(A, path, n, p, told) =
        IF told[c] = << >> THEN A[p].keys
        ELSE IF i > Len(A[p].keys) THEN Append(A[p].keys, Last(told[c]))
        ELSE ReplaceAt(A[p].keys, i, Last(told[c]))
  BY DEF TellOf, OnPath
<1>2. i \in 1 .. Len(A[p].rids)
  <2>1. c \in ToSet(A[p].rids) /\ A[p].rids \in Seq(Pages)
    BY OnPathIs
  <2> HIDE DEF c
  <2> QED BY <2>1, FindChildIs
<1>3. ~(i > Len(A[p].keys))
  <2>1. Len(A[p].keys) = Len(A[p].rids) /\ Len(A[p].rids) \in Nat
    BY OnPathIs
  <2> QED BY <1>2, <2>1
<1> QED
  BY <1>1, <1>3

LEMMA LastIs ==
  ASSUME NEW S, NEW s \in Seq(S), s # << >>
  PROVE  Last(s) = s[Len(s)] /\ Last(s) \in S /\ Len(s) \in Nat /\ Len(s) >= 1 /\ Len(s) \in DOMAIN s
BY DEF Last

LEMMA TellTyped ==
  ASSUME NEW A, NEW T, NEW lev, NEW K, NEW n, Climbs(A, T, lev, K, n),
         NEW path, Chain(A, T, lev, n, path), NEW p \in Pages,
         NEW told \in [Pages -> Seq(Keys)]
  PROVE  TellOf(A, path, n, p, told) \in Seq(Keys)
<1>1. A[p].keys \in Seq(Keys)
  BY DEF Climbs, Typed, Nodes
<1>2. CASE p = n \/ p \notin path
  BY <1>1, <1>2 DEF TellOf
<1>3. CASE p # n /\ p \in path
  <2> DEFINE c == OnPath(A, path, p)
             i == FindChild(A[p], c)
  <2>1. c \in Pages /\ i \in 1 .. Len(A[p].keys)
    <3>1. /\ c \in Pages /\ c \in ToSet(A[p].rids) /\ A[p].rids \in Seq(Pages)
          /\ Len(A[p].keys) = Len(A[p].rids)
      BY <1>3, OnPathIs
    <3> HIDE DEF c
    <3> QED BY <3>1, FindChildIs
  <2>2. TellOf(A, path, n, p, told) =
          IF told[c] = << >> THEN A[p].keys ELSE ReplaceAt(A[p].keys, i, Last(told[c]))
    BY <1>3, TellIs
  <2> HIDE DEF c, i
  <2>3. told[c] # << >> => Last(told[c]) \in Keys
    BY <2>1, LastIs
  <2>4. told[c] # << >> => ReplaceAt(A[p].keys, i, Last(told[c])) \in Seq(Keys)
    BY <1>1, <2>1, <2>3, ReplaceAtIs
  <2> QED BY <1>1, <2>2, <2>4
<1> QED
  BY <1>2, <1>3

LEMMA ToldExists ==
  ASSUME NEW A, NEW T, NEW lev, NEW K, NEW n, Climbs(A, T, lev, K, n),
         NEW path, Chain(A, T, lev, n, path)
  PROVE  \E told \in [Pages -> Seq(Keys)] : told = [p \in Pages |-> TellOf(A, path, n, p, told)]
<1> DEFINE S == Pages
           V == Seq(Keys)
           G == [a \in S \X [S -> V] |-> TellOf(A, path, n, a[1], a[2])]
<1>1. lev \in [S -> Nat] /\ V # {}
  <2>1. << >> \in V
    OBVIOUS
  <2> QED BY <2>1 DEF Climbs
<1>2. \A p \in S, f \in [S -> V] : G[<<p, f>>] = TellOf(A, path, n, p, f)
  OBVIOUS
<1>3. G \in [S \X [S -> V] -> V]
  <2> SUFFICES ASSUME NEW a \in S \X [S -> V] PROVE TellOf(A, path, n, a[1], a[2]) \in V
    OBVIOUS
  <2>1. a[1] \in Pages /\ a[2] \in [Pages -> Seq(Keys)]
    OBVIOUS
  <2> QED BY <2>1, TellTyped
<1>4. Below(S, V, lev, G)
  <2> SUFFICES ASSUME NEW x \in S, NEW f \in [S -> V], NEW g \in [S -> V],
                      \A y \in S : lev[y] < lev[x] => f[y] = g[y]
               PROVE  G[<<x, f>>] = G[<<x, g>>]
    BY DEF Below
  <2>1. TellOf(A, path, n, x, f) = TellOf(A, path, n, x, g)
    <3>1. CASE x = n \/ x \notin path
      BY <3>1 DEF TellOf
    <3>2. CASE x # n /\ x \in path
      <4> DEFINE c == OnPath(A, path, x)
      <4>1. c \in Pages /\ lev[c] + 1 = lev[x]
        BY <3>2, OnPathIs
      <4>2. f[c] = g[c]
        <5> HIDE DEF c
        <5>1. lev[c] \in Nat /\ lev[x] \in Nat
          BY <1>1, <4>1
        <5> QED BY <4>1, <5>1
      <4>3. /\ TellOf(A, path, n, x, f) =
                 IF f[c] = << >> THEN A[x].keys
                 ELSE ReplaceAt(A[x].keys, FindChild(A[x], c), Last(f[c]))
            /\ TellOf(A, path, n, x, g) =
                 IF g[c] = << >> THEN A[x].keys
                 ELSE ReplaceAt(A[x].keys, FindChild(A[x], c), Last(g[c]))
        BY SMTT(30), <3>2, TellIs
      <4> HIDE DEF c
      <4> QED BY <4>2, <4>3
    <3> QED BY <3>1, <3>2
  <2> QED BY <1>2, <2>1
<1> HIDE DEF G, S, V
<1>5. Recurs(S, V, lev, G)
  BY <1>1, <1>3, <1>4 DEF Recurs
<1>6. \E told \in [S -> V] : told = [x \in S |-> G[<<x, told>>]]
  BY <1>5, Recursion
<1> USE DEF S, V
<1>7. PICK told \in [S -> V] : told = [x \in S |-> G[<<x, told>>]]
  BY <1>6
<1>8. \A p \in Pages : told[p] = G[<<p, told>>]
  BY <1>7
<1>9. \A p \in Pages : told[p] = TellOf(A, path, n, p, told)
  BY <1>2, <1>8
<1>10. told = [p \in Pages |-> told[p]]
  BY <1>7
<1>11. told = [p \in Pages |-> TellOf(A, path, n, p, told)]
  BY <1>9, <1>10
<1> QED
  BY <1>7, <1>11

\* Page q is as it was, but for the values of its keys.
SameLinks(A, R, q) ==
  /\ R[q].next_free = A[q].next_free /\ R[q].parent = A[q].parent /\ R[q].is_leaf = A[q].is_leaf
  /\ R[q].prev_leaf = A[q].prev_leaf /\ R[q].next_leaf = A[q].next_leaf
  /\ R[q].rids = A[q].rids /\ Len(R[q].keys) = Len(A[q].keys)

\* R are the pages A after the keys on the way up from n are told.
Told(A, R, T, lev, n) ==
  /\ Typed(R)
  /\ \A q \in Pages : SameLinks(A, R, q)
  /\ \A q \in Pages : A[q].is_leaf \/ q \notin T \/ lev[q] <= lev[n] => R[q] = A[q]
  /\ KeysOK(R, T, NDX_NO_PAGE)

\* The keys of the inner nodes, but for n and its parent.
KeysBelow(A, T, n) ==
  \A p \in T : ~A[p].is_leaf =>
    \A i \in DOMAIN A[p].rids :
      A[p].rids[i] # n /\ A[p].rids[i] # A[n].parent => A[p].keys[i] = Last(A[A[p].rids[i]].keys)

LEMMA MaintainParentIs ==
  ASSUME NEW A, NEW T, NEW lev, NEW K, NEW n, Climbs(A, T, lev, K, n), KeysBelow(A, T, n)
  PROVE  Told(A, MaintainParent(A, n), T, lev, n)
<1> DEFINE path == PathUp(A, n)
           told == CHOOSE told : told = [p \in Pages |-> TellOf(A, path, n, p, told)]
           R == MaintainParent(A, n)
<1>1. R = [p \in Pages |-> [A[p] EXCEPT !.keys = told[p]]]
  BY DEF MaintainParent, TellOf
<1>2. Chain(A, T, lev, n, path)
  BY PathUpIs
<1> HIDE DEF path
<1>3. told \in [Pages -> Seq(Keys)] /\ told = [p \in Pages |-> TellOf(A, path, n, p, told)]
  <2>1. PICK f \in [Pages -> Seq(Keys)] : f = [p \in Pages |-> TellOf(A, path, n, p, f)]
    BY <1>2, ToldExists
  <2>2. told = [p \in Pages |-> TellOf(A, path, n, p, told)]
    BY <2>1
  <2> HIDE DEF told
  <2>3. DOMAIN told = Pages
    BY <2>2
  \* Two of them would differ first at some page.
  <2>4. told = f
    <3> DEFINE D == {p \in Pages : told[p] # f[p]}
    <3>1. D = {}
      <4> SUFFICES ASSUME D # {} PROVE FALSE
        OBVIOUS
      <4>1. \A x \in D : lev[x] \in Nat
        BY DEF Climbs
      <4>2. \E x \in D : \A y \in D : lev[x] <= lev[y]
        <5> HIDE DEF D
        <5> QED BY <4>1, LeastRank
      <4>3. PICK x \in D : \A y \in D : lev[x] <= lev[y]
        BY <4>2
      <4>4. told[x] = TellOf(A, path, n, x, told)
        BY <2>2
      <4>5. f[x] = TellOf(A, path, n, x, f)
        BY <2>1
      <4>6. x # n /\ x \in path
        <5> SUFFICES ASSUME x = n \/ x \notin path PROVE FALSE
          OBVIOUS
        <5>1. TellOf(A, path, n, x, f) = A[x].keys /\ TellOf(A, path, n, x, told) = A[x].keys
          BY DEF TellOf
        <5> QED BY <4>3, <4>4, <4>5, <5>1
      <4> DEFINE c == OnPath(A, path, x)
      <4>7. c \in Pages /\ lev[c] + 1 = lev[x]
        BY <1>2, <4>6, OnPathIs
      <4>8. c \notin D
        <5> HIDE DEF c
        <5>1. lev[c] \in Nat /\ lev[x] \in Nat
          BY <4>7 DEF Climbs
        <5> HIDE DEF D
        <5> QED BY <4>3, <4>7, <5>1
      <4>9. told[c] = f[c]
        BY <4>7, <4>8
      <4>10. TellOf(A, path, n, x, told) = TellOf(A, path, n, x, f)
        BY <4>6, <4>9 DEF TellOf, OnPath
      <4> QED BY <4>3, <4>4, <4>5, <4>10
    <3>2. \A p \in Pages : told[p] = f[p]
      BY <3>1
    <3>3. told = [p \in Pages |-> told[p]] /\ f = [p \in Pages |-> f[p]]
      BY <2>1, <2>2
    <3> QED BY <3>2, <3>3
  <2> QED BY <2>1, <2>4
<1> HIDE DEF told
<1>4. \A p \in Pages : told[p] = TellOf(A, path, n, p, told)
  BY <1>3
<1>5. \A p \in Pages : p = n \/ p \notin path => told[p] = A[p].keys
  BY <1>4 DEF TellOf
<1>6. ASSUME NEW p \in path, p # n
      PROVE  LET c == OnPath(A, path, p)
                 i == FindChild(A[p], c)
             IN /\ told[p] = IF told[c] = << >> THEN A[p].keys ELSE ReplaceAt(A[p].keys, i, Last(told[c]))
                /\ i \in 1 .. Len(A[p].keys) /\ A[p].rids[i] = c
                /\ \A j \in 1 .. Len(A[p].keys) : A[p].rids[j] = c => j = i
  <2> DEFINE c == OnPath(A, path, p)
             i == FindChild(A[p], c)
  <2>1. /\ c \in Pages /\ c \in ToSet(A[p].rids) /\ A[p].rids \in Seq(Pages) /\ p \in Pages
        /\ Len(A[p].keys) = Len(A[p].rids) /\ IsInjective(A[p].rids)
    BY <1>2, <1>6, OnPathIs
  <2>2. told[p] = TellOf(A, path, n, p, told)
    BY <1>4, <2>1
  <2>3. TellOf(A, path, n, p, told) =
          IF told[c] = << >> THEN A[p].keys ELSE ReplaceAt(A[p].keys, i, Last(told[c]))
    BY <1>2, <1>3, <1>6, TellIs
  <2> HIDE DEF c
  <2>4. /\ i \in 1 .. Len(A[p].rids) /\ A[p].rids[i] = c
        /\ \A j \in 1 .. Len(A[p].rids) : A[p].rids[j] = c => j = i
    BY <2>1, FindChildIs
  <2> QED BY <2>1, <2>2, <2>3, <2>4 DEF c
<1>7. ASSUME NEW p \in Pages PROVE Len(told[p]) = Len(A[p].keys)
  <2>1. CASE p = n \/ p \notin path
    BY <1>5, <2>1
  <2>2. CASE p # n /\ p \in path
    <3> DEFINE c == OnPath(A, path, p)
               i == FindChild(A[p], c)
    <3>1. /\ told[p] = IF told[c] = << >> THEN A[p].keys ELSE ReplaceAt(A[p].keys, i, Last(told[c]))
          /\ i \in 1 .. Len(A[p].keys)
      BY <1>6, <2>2
    <3>2. c \in Pages /\ A[p].keys \in Seq(Keys)
      BY <1>2, <2>2, OnPathIs
    <3> HIDE DEF c, i
    <3>3. told[c] # << >> => Last(told[c]) \in Keys
      BY <1>3, <3>2, LastIs
    <3>4. told[c] # << >> => Len(ReplaceAt(A[p].keys, i, Last(told[c]))) = Len(A[p].keys)
      BY <3>1, <3>2, <3>3, ReplaceAtIs
    <3> QED BY <3>1, <3>4
  <2> QED BY <2>1, <2>2
<1>8. ASSUME NEW p \in path, p # n
      PROVE  LET c == OnPath(A, path, p)
                 i == FindChild(A[p], c)
             IN \A j \in 1 .. Len(A[p].keys) :
                  told[p][j] = IF j = i THEN Last(told[c]) ELSE A[p].keys[j]
  <2> DEFINE c == OnPath(A, path, p)
             i == FindChild(A[p], c)
  <2>1. /\ told[p] = IF told[c] = << >> THEN A[p].keys ELSE ReplaceAt(A[p].keys, i, Last(told[c]))
        /\ i \in 1 .. Len(A[p].keys)
    BY <1>6, <1>8
  <2>2. c \in Pages /\ A[p].keys \in Seq(Keys) /\ A[c].keys # << >>
    BY <1>2, <1>8, OnPathIs
  <2> HIDE DEF c, i
  <2>3. told[c] # << >>
    <3>1. A[c].keys \in Seq(Keys)
      BY <2>2 DEF Climbs, Typed, Nodes
    <3>2. Len(told[c]) = Len(A[c].keys)
      BY <1>7, <2>2
    <3> QED BY <2>2, <3>1, <3>2
  <2>4. Last(told[c]) \in Keys
    BY <1>3, <2>2, <2>3, LastIs
  <2>5. \A j \in 1 .. Len(A[p].keys) :
          told[p][j] = IF j = i THEN Last(told[c]) ELSE A[p].keys[j]
    <3> DEFINE e == Last(told[c])
               s == A[p].keys
    <3>1. told[p] = ReplaceAt(s, i, e) /\ s \in Seq(Keys) /\ i \in 1 .. Len(s) /\ e \in Keys
      BY <2>1, <2>2, <2>3, <2>4
    <3> HIDE DEF e, s
    <3>2. \A j \in 1 .. Len(s) : told[p][j] = IF j = i THEN e ELSE s[j]
      BY <3>1, ReplaceAtIs
    <3> QED BY <3>2 DEF e, s
  <2> QED BY <2>5 DEF c, i
<1> HIDE DEF R
<1>9. \A q \in Pages : R[q] = [A[q] EXCEPT !.keys = told[q]]
  BY <1>1
<1>10. \A q \in Pages : A[q] \in Nodes
  BY DEF Climbs, Typed
<1>11. \A q \in Pages : SameLinks(A, R, q) /\ R[q].keys = told[q] /\ R[q] \in Nodes
  <2> SUFFICES ASSUME NEW q \in Pages
               PROVE  SameLinks(A, R, q) /\ R[q].keys = told[q] /\ R[q] \in Nodes
    OBVIOUS
  <2>1. /\ R[q] = [A[q] EXCEPT !.keys = told[q]] /\ A[q] \in Nodes
        /\ told[q] \in Seq(Keys) /\ Len(told[q]) = Len(A[q].keys)
    BY <1>3, <1>7, <1>9, <1>10
  <2>2. /\ R[q].keys = told[q] /\ R[q].rids = A[q].rids /\ R[q].is_leaf = A[q].is_leaf
        /\ R[q].parent = A[q].parent /\ R[q].next_free = A[q].next_free
        /\ R[q].next_leaf = A[q].next_leaf /\ R[q].prev_leaf = A[q].prev_leaf
    BY <2>1 DEF Nodes
  <2>3. R[q] \in Nodes
    BY <2>1 DEF Nodes
  <2> QED BY <2>1, <2>2, <2>3 DEF SameLinks
<1>12. Typed(R)
  <2>1. R \in [Pages -> Nodes]
    BY <1>1, <1>11
  <2>2. \A p \in Pages : /\ Len(A[p].keys) = Len(A[p].rids)
                         /\ A[p].rids \in IF A[p].is_leaf THEN Seq(Rids) ELSE Seq(Pages)
    BY DEF Climbs, Typed
  <2> QED BY <2>1, <2>2, <1>11 DEF Typed, SameLinks
<1>13. ASSUME NEW q \in Pages, A[q].is_leaf \/ q \notin T \/ lev[q] <= lev[n]
       PROVE  R[q] = A[q]
  <2>1. q = n \/ q \notin path
    <3> SUFFICES ASSUME q # n, q \in path PROVE FALSE
      OBVIOUS
    <3>1. ~A[q].is_leaf /\ q \in T
      BY <1>2, OnPathIs DEF Chain
    <3>2. lev[q] >= lev[n] /\ lev[q] \in Nat /\ lev[n] \in Nat /\ n \in path
      BY <1>2 DEF Chain, Climbs
    <3>3. lev[q] = lev[n]
      BY <1>13, <3>1, <3>2
    <3> QED BY <1>2, <3>2, <3>3 DEF Chain
  <2>2. told[q] = A[q].keys
    BY <1>5, <2>1
  <2>3. \A r \in Nodes : [r EXCEPT !.keys = r.keys] = r
    BY DEF Nodes
  <2>4. R[q] = [A[q] EXCEPT !.keys = A[q].keys]
    BY <1>9, <2>2
  <2> QED BY <1>10, <2>3, <2>4
<1>14. ASSUME NEW p \in T, ~R[p].is_leaf, NEW j \in DOMAIN R[p].rids
       PROVE  R[p].keys[j] = Last(R[R[p].rids[j]].keys)
  <2> DEFINE d == A[p].rids[j]
  <2>1. p \in Pages /\ ~A[p].is_leaf /\ R[p].rids = A[p].rids /\ j \in 1 .. Len(A[p].rids)
    BY <1>11, <1>14 DEF SameLinks, Climbs, Nodes, Typed
  <2>2. /\ d \in T /\ d \in Pages /\ lev[d] + 1 = lev[p] /\ lev[d] \in Nat /\ lev[p] \in Nat
        /\ lev[p] > lev[n] => A[d].parent = p
    BY <2>1 DEF Climbs
  <2>3. R[p].keys[j] = told[p][j] /\ Last(R[R[p].rids[j]].keys) = Last(told[d])
    BY <1>11, <2>1, <2>2
  <2>4. d # n /\ d # A[n].parent => A[p].keys[j] = Last(A[d].keys)
    BY <2>1 DEF KeysBelow, Climbs, Typed, Nodes
  <2>5. lev[n] \in Nat /\ n \in path /\ \A q \in path : lev[q] >= lev[n]
    BY <1>2 DEF Climbs, Chain
  <2>9. d \notin path => d # n /\ d # A[n].parent
    <3>1. d # NDX_NO_PAGE
      BY <2>2, Constants
    <3> HIDE DEF d
    <3> QED BY <1>2, <2>5, <3>1 DEF Chain
  <2>6. Len(A[p].keys) = Len(A[p].rids)
    BY <2>1 DEF Climbs, Typed
  <2>7. CASE p \in path /\ p # n
    <3> DEFINE c == OnPath(A, path, p)
               i == FindChild(A[p], c)
    <3>1. told[p][j] = IF j = i THEN Last(told[c]) ELSE A[p].keys[j]
      BY <1>8, <2>1, <2>6, <2>7
    <3>2. A[p].rids[i] = c /\ (A[p].rids[j] = c => j = i)
      BY <1>6, <2>1, <2>6, <2>7
    <3>3. d \in ToSet(A[p].rids)
      BY <2>1 DEF ToSet
    <3>4. d \in path => d = c
      BY <1>2, <2>7, <3>3, OnPathIs
    <3> HIDE DEF c, i
    <3>5. CASE j = i
      BY <3>1, <3>2, <3>5, <2>3
    <3>6. CASE j # i
      <4>1. d \notin path
        BY <3>2, <3>4, <3>6
      <4>2. told[d] = A[d].keys
        BY <1>5, <2>2, <4>1
      <4>3. A[p].keys[j] = Last(A[d].keys)
        BY <2>4, <2>9, <4>1
      <4> HIDE DEF d
      <4> QED BY <2>3, <3>1, <3>6, <4>2, <4>3
    <3> QED BY <3>5, <3>6
  <2>8. CASE p \notin path \/ p = n
    <3>1. told[p] = A[p].keys
      BY <1>5, <2>1, <2>8
    <3>2. d \notin path
      <4> SUFFICES ASSUME d \in path PROVE FALSE
        OBVIOUS
      <4>1. lev[p] > lev[n]
        BY <2>2, <2>5
      <4>2. A[d].parent = p /\ p # n
        BY <2>2, <2>5, <4>1
      <4>3. p \in path
        <5>1. p # NDX_NO_PAGE
          BY <2>1, Constants
        <5> HIDE DEF d
        <5> QED BY <1>2, <4>2, <5>1 DEF Chain
      <4> QED BY <2>8, <4>2, <4>3
    <3>3. told[d] = A[d].keys /\ A[p].keys[j] = Last(A[d].keys)
      BY <1>5, <2>2, <2>4, <2>9, <3>2
    <3> QED BY <2>3, <3>1, <3>3
  <2> QED BY <2>7, <2>8
<1>15. KeysOK(R, T, NDX_NO_PAGE)
  BY <1>14 DEF KeysOK
<1> QED
  BY <1>11, <1>12, <1>13, <1>15 DEF Told, R
-----------------------------------------------------------------------------
(* Pages taken from the free list and given back to it.                    *)

LEMMA NewPageIs ==
  ASSUME NEW T, NEW fl, FreeList(node, hdr, T, fl), hdr \in Header, NewPage \in Pages,
         T \subseteq Pages \ {NDX_LEAF_HEADER_PAGE}
  PROVE  /\ NewPage \notin T /\ NewPage # NDX_LEAF_HEADER_PAGE
         /\ HeaderAfterNew \in Header /\ HeaderAfterNew.btree_order = hdr.btree_order
         /\ HeaderAfterNew.root_page = hdr.root_page /\ HeaderAfterNew.last_leaf = hdr.last_leaf
         /\ IF fl = << >> THEN NewPage = hdr.num_pages ELSE NewPage = fl[1]
         /\ IF fl = << >>
            THEN HeaderAfterNew.first_free = NDX_NO_PAGE /\ HeaderAfterNew.num_pages = hdr.num_pages + 1
            ELSE /\ HeaderAfterNew.first_free = IF Len(fl) > 1 THEN fl[2] ELSE NDX_NO_PAGE
                 /\ HeaderAfterNew.num_pages = hdr.num_pages
<1>1. hdr.num_pages \in 3 .. MaxPage + 1 /\ hdr.first_free \in PageOrNone
  BY Constants DEF Header
<1>2. CASE fl = << >>
  <2>1. hdr.first_free = NDX_NO_PAGE
    BY <1>2 DEF FreeList
  <2>2. NewPage = hdr.num_pages /\ HeaderAfterNew = [hdr EXCEPT !.num_pages = @ + 1]
    BY <2>1 DEF NewPage, HeaderAfterNew
  <2>3. hdr.num_pages <= MaxPage
    BY <2>2 DEF Pages
  <2>4. hdr.num_pages + 1 \in NDX_INIT_NUM_PAGES .. MaxPage + 1
    BY <1>1, <2>3, Constants
  <2>5. T \subseteq 2 .. hdr.num_pages - 1
    BY <1>1, Constants DEF FreeList
  <2>6. NewPage \notin T /\ NewPage # 1
    BY <1>1, <2>2, <2>5, Constants
  <2> QED BY <1>2, <2>1, <2>2, <2>4, <2>6, Constants DEF Header
<1>3. CASE fl # << >>
  <2>1. /\ fl \in Seq(Pages) /\ Len(fl) \in Nat /\ Len(fl) >= 1 /\ 1 \in DOMAIN fl /\ fl[1] \in Pages
        /\ (Len(fl) > 1 => 2 \in DOMAIN fl /\ fl[2] \in Pages)
        /\ fl[1] \in ToSet(fl)
    BY <1>3 DEF FreeList, ToSet
  <2>2. hdr.first_free = fl[1] /\ hdr.first_free # NDX_NO_PAGE
    BY <1>3, <2>1, Constants DEF FreeList
  <2>3. NewPage = fl[1] /\ HeaderAfterNew = [hdr EXCEPT !.first_free = node[fl[1]].next_free]
    BY <2>2 DEF NewPage, HeaderAfterNew
  <2>4. node[fl[1]].next_free = IF Len(fl) > 1 THEN fl[2] ELSE NDX_NO_PAGE
    <3>1. node[fl[1]].next_free = IF 1 < Len(fl) THEN fl[1 + 1] ELSE NDX_NO_PAGE
      BY <2>1 DEF FreeList
    <3> QED BY <3>1, <2>1
  <2>5. node[fl[1]].next_free \in PageOrNone
    BY <2>1, <2>4 DEF PageOrNone
  <2>6. fl[1] \notin T /\ fl[1] # NDX_LEAF_HEADER_PAGE
    BY <2>1, <1>1, Constants DEF FreeList
  <2> QED BY <1>3, <2>3, <2>4, <2>5, <2>6 DEF Header
<1> QED
  BY <1>2, <1>3

\* The free list after create_node.
LEMMA TakePage ==
  ASSUME NEW T, NEW fl, FreeList(node, hdr, T, fl), hdr \in Header, NewPage \in Pages,
         T \subseteq Pages \ {NDX_LEAF_HEADER_PAGE},
         NEW N, \A q \in Pages : N[q].next_free = IF q = NewPage THEN NDX_NO_PAGE ELSE node[q].next_free,
         NEW h, h.first_free = HeaderAfterNew.first_free, h.num_pages = HeaderAfterNew.num_pages
  PROVE  \E fl2 : FreeList(N, h, T \cup {NewPage}, fl2)
<1> DEFINE r == NewPage
<1>1. hdr.num_pages \in 3 .. MaxPage + 1 /\ hdr.first_free \in PageOrNone
  BY Constants DEF Header
<1>2. CASE fl = << >>
  <2>1. r = hdr.num_pages /\ h.first_free = NDX_NO_PAGE /\ h.num_pages = hdr.num_pages + 1
    BY <1>2, NewPageIs
  <2>0. ToSet(fl) = {}
    BY <1>2 DEF ToSet
  <2>2. T = 2 .. hdr.num_pages - 1
    BY <2>0, Constants DEF FreeList
  <2>3. T \cup {r} = 2 .. h.num_pages - 1
    BY <1>1, <2>1, <2>2
  <2>4. \A p \in Pages : N[p].next_free = NDX_NO_PAGE
    BY <1>2 DEF FreeList, ToSet
  <2>5. ToSet(<< >>) = {} /\ << >> \in Seq(Pages) /\ IsInjective(<< >>) /\ DOMAIN << >> = {}
    BY DEF ToSet, IsInjective
  <2> HIDE DEF r
  <2>6. FreeList(N, h, T \cup {r}, << >>)
    BY <2>1, <2>3, <2>4, <2>5, Constants DEF FreeList
  <2> QED BY <2>6 DEF r
<1>3. CASE fl # << >>
  <2> DEFINE t == Tail(fl)
             m == Len(fl)
  <2>1. fl \in Seq(Pages) /\ m \in Nat /\ m >= 1 /\ 1 \in DOMAIN fl /\ DOMAIN fl = 1 .. m
    BY <1>3 DEF FreeList
  <2>2. /\ t \in Seq(Pages) /\ Len(t) = m - 1 /\ DOMAIN t = 1 .. m - 1
        /\ \A i \in 1 .. m - 1 : t[i] = fl[i + 1]
    BY <2>1
  <2>3. /\ r = fl[1] /\ h.num_pages = hdr.num_pages
        /\ h.first_free = IF m > 1 THEN fl[2] ELSE NDX_NO_PAGE
    BY <1>3, NewPageIs
  <2> HIDE DEF r, t, m
  <2>4. t = << >> <=> m = 1
    BY <2>1, <2>2
  <2>5. IsInjective(t)
    <3> SUFFICES ASSUME NEW i \in 1 .. m - 1, NEW j \in 1 .. m - 1, t[i] = t[j] PROVE i = j
      BY <2>2 DEF IsInjective
    <3>1. i + 1 \in DOMAIN fl /\ j + 1 \in DOMAIN fl /\ fl[i + 1] = fl[j + 1]
      BY <2>1, <2>2
    <3>2. i + 1 = j + 1
      BY <3>1 DEF FreeList, IsInjective
    <3> QED BY <3>2, <2>1
  <2>6. ToSet(t) = ToSet(fl) \ {r}
    <3>1. ASSUME NEW e \in ToSet(t) PROVE e \in ToSet(fl) \ {r}
      <4>1. PICK i \in 1 .. m - 1 : t[i] = e
        BY <2>2, InToSet
      <4>2. i + 1 \in DOMAIN fl /\ fl[i + 1] = e /\ i + 1 # 1
        BY <2>1, <2>2, <4>1
      <4>3. e # fl[1]
        BY <2>1, <4>2 DEF FreeList, IsInjective
      <4> QED BY <2>3, <4>2, <4>3 DEF ToSet
    <3>2. ASSUME NEW e \in ToSet(fl) \ {r} PROVE e \in ToSet(t)
      <4>1. PICK i \in 1 .. m : fl[i] = e
        BY <2>1, InToSet DEF m
      <4>2. i # 1
        BY <2>3, <3>2, <4>1
      <4>3. i - 1 \in 1 .. m - 1 /\ t[i - 1] = e
        BY <2>1, <2>2, <4>1, <4>2
      <4> QED BY <2>2, <4>3, InToSet
    <3> QED BY <3>1, <3>2
  <2>7. r \in ToSet(fl)
    BY <2>1, <2>3 DEF ToSet
  <2>8. /\ T \cup {r} \cup ToSet(t) = NDX_INIT_ROOT_PAGE .. h.num_pages - 1
        /\ (T \cup {r}) \cap ToSet(t) = {}
    BY <2>3, <2>6, <2>7 DEF FreeList
  <2>9. h.first_free = IF t = << >> THEN NDX_NO_PAGE ELSE t[1]
    BY <2>1, <2>2, <2>3, <2>4
  <2>10. ASSUME NEW i \in DOMAIN t
         PROVE  N[t[i]].next_free = IF i < Len(t) THEN t[i + 1] ELSE NDX_NO_PAGE
    <3>1. i + 1 \in DOMAIN fl /\ t[i] = fl[i + 1] /\ t[i] \in ToSet(t) /\ t[i] \in Pages
      BY <2>1, <2>2 DEF ToSet
    <3>2. node[fl[i + 1]].next_free = IF i + 1 < m THEN fl[i + 1 + 1] ELSE NDX_NO_PAGE
      BY <3>1 DEF FreeList, m
    <3>3. t[i] # r
      BY <2>6, <3>1
    <3>4. N[t[i]].next_free = node[t[i]].next_free
      BY <3>1, <3>3 DEF r
    <3>5. i \in 1 .. m - 1
      BY <2>2
    <3>6. i + 1 < m => t[i + 1] = fl[i + 1 + 1]
      BY <2>1, <2>2, <3>5
    <3> QED BY <2>1, <2>2, <3>1, <3>2, <3>4, <3>5, <3>6
  <2>11. ASSUME NEW p \in Pages \ ToSet(t) PROVE N[p].next_free = NDX_NO_PAGE
    BY <2>6 DEF r, FreeList
  <2>12. FreeList(N, h, T \cup {r}, t)
    BY <2>2, <2>5, <2>8, <2>9, <2>10, <2>11 DEF FreeList
  <2> QED BY <2>12 DEF r
<1> QED
  BY <1>2, <1>3

\* The free list after release_node.
LEMMA GivePage ==
  ASSUME NEW N, NEW h, NEW T, NEW fl, FreeList(N, h, T, fl), NEW r \in T, T \subseteq Pages,
         NEW N2, \A q \in Pages : N2[q].next_free = IF q = r THEN h.first_free ELSE N[q].next_free,
         NEW h2, h2.first_free = r, h2.num_pages = h.num_pages
  PROVE  FreeList(N2, h2, T \ {r}, <<r>> \o fl)
<1> DEFINE g == <<r>> \o fl
           m == Len(fl)
<1>1. fl \in Seq(Pages) /\ m \in Nat /\ DOMAIN fl = 1 .. m /\ r \in Pages /\ r \notin ToSet(fl)
  BY DEF FreeList
<1>2. /\ g \in Seq(Pages) /\ Len(g) = m + 1 /\ DOMAIN g = 1 .. m + 1 /\ g[1] = r /\ g # << >>
      /\ \A i \in 1 .. m : g[i + 1] = fl[i]
  BY <1>1
<1> HIDE DEF g, m
<1>3. ToSet(g) = ToSet(fl) \cup {r}
  <2>1. ASSUME NEW e \in ToSet(g) PROVE e \in ToSet(fl) \cup {r}
    <3>1. PICK i \in 1 .. m + 1 : g[i] = e
      BY <1>2, InToSet
    <3>2. i # 1 => i - 1 \in 1 .. m /\ fl[i - 1] = e
      BY <1>1, <1>2, <3>1
    <3> QED BY <1>1, <1>2, <3>1, <3>2 DEF ToSet
  <2>2. ASSUME NEW e \in ToSet(fl) PROVE e \in ToSet(g)
    <3>1. PICK i \in 1 .. m : fl[i] = e
      BY <1>1, InToSet DEF m
    <3>2. i + 1 \in 1 .. m + 1 /\ g[i + 1] = e
      BY <1>1, <1>2, <3>1
    <3> QED BY <1>2, <3>2 DEF ToSet
  <2>3. r \in ToSet(g)
    BY <1>1, <1>2 DEF ToSet
  <2> QED BY <2>1, <2>2, <2>3
<1>4. IsInjective(g)
  <2> SUFFICES ASSUME NEW i \in 1 .. m + 1, NEW j \in 1 .. m + 1, g[i] = g[j] PROVE i = j
    BY <1>2 DEF IsInjective
  <2>1. \A k \in 1 .. m + 1 : k # 1 => k - 1 \in 1 .. m /\ g[k] = fl[k - 1] /\ g[k] # r
    <3> SUFFICES ASSUME NEW k \in 1 .. m + 1, k # 1
                 PROVE  k - 1 \in 1 .. m /\ g[k] = fl[k - 1] /\ g[k] # r
      OBVIOUS
    <3>1. k - 1 \in 1 .. m /\ g[k] = fl[k - 1]
      BY <1>1, <1>2
    <3> QED BY <3>1, <1>1 DEF ToSet
  <2>2. CASE i = 1 \/ j = 1
    BY <1>2, <2>1, <2>2
  <2>3. CASE i # 1 /\ j # 1
    <3>1. i - 1 \in DOMAIN fl /\ j - 1 \in DOMAIN fl /\ fl[i - 1] = fl[j - 1]
      BY <1>1, <2>1, <2>3
    <3>2. i - 1 = j - 1
      BY <3>1 DEF FreeList, IsInjective
    <3> QED BY <3>2, <1>1
  <2> QED BY <2>2, <2>3
<1>5. /\ (T \ {r}) \cup ToSet(g) = NDX_INIT_ROOT_PAGE .. h2.num_pages - 1
      /\ (T \ {r}) \cap ToSet(g) = {}
  BY <1>3 DEF FreeList
<1>6. ASSUME NEW i \in DOMAIN g
      PROVE  N2[g[i]].next_free = IF i < Len(g) THEN g[i + 1] ELSE NDX_NO_PAGE
  <2>1. CASE i = 1
    <3>1. N2[g[i]].next_free = IF fl = << >> THEN NDX_NO_PAGE ELSE fl[1]
      BY <1>1, <1>2, <2>1 DEF FreeList
    <3>2. fl = << >> <=> m = 0
      BY <1>1 DEF m
    <3>3. m # 0 => g[1 + 1] = fl[1]
      BY <1>1, <1>2
    <3> QED BY <1>1, <1>2, <2>1, <3>1, <3>2, <3>3
  <2>2. CASE i # 1
    <3> DEFINE j == i - 1
    <3>1. j \in 1 .. m /\ g[i] = fl[j] /\ i = j + 1
      BY <1>1, <1>2, <2>2
    <3> HIDE DEF j
    <3>2. N[fl[j]].next_free = IF j < m THEN fl[j + 1] ELSE NDX_NO_PAGE
      BY <1>1, <3>1 DEF FreeList, m
    <3>3. fl[j] \in Pages /\ fl[j] # r
      BY <1>1, <3>1 DEF ToSet
    <3>4. N2[g[i]].next_free = N[fl[j]].next_free
      BY <3>1, <3>3
    <3>5. j < m => g[i + 1] = fl[j + 1]
      BY <1>1, <1>2, <3>1
    <3> QED BY <1>1, <1>2, <3>1, <3>2, <3>4, <3>5
  <2> QED BY <2>1, <2>2
<1>7. ASSUME NEW p \in Pages \ ToSet(g) PROVE N2[p].next_free = NDX_NO_PAGE
  BY <1>3 DEF FreeList
<1>8. FreeList(N2, h2, T \ {r}, g)
  BY <1>2, <1>4, <1>5, <1>6, <1>7 DEF FreeList
<1> QED
  BY <1>8 DEF g
-----------------------------------------------------------------------------
(* The steps keep the invariant.                                           *)

\* The orders, and the least fill that follows from one.
LEMMA Fill ==
  ASSUME NEW h \in Header
  PROVE  /\ h.btree_order \in Nat /\ h.btree_order >= 3 /\ h.root_page \in Pages
         /\ MinOf(h) \in Nat /\ MinOf(h) >= 2 /\ MinOf(h) < h.btree_order
         /\ 2 * MinOf(h) <= h.btree_order + 1 /\ h.btree_order <= 2 * MinOf(h)
         /\ (h = hdr => MinFill = MinOf(h))
<1>1. h.btree_order \in Orders /\ h.root_page \in Pages
  BY DEF Header
<1>2. h.btree_order \in Nat /\ h.btree_order > 2
  BY <1>1, OrdersAssumption
<1> QED
  BY <1>1, <1>2 DEF MinOf, MinFill

\* What the parts of the invariant say of a page, taken together.
LEMMA PageIs ==
  ASSUME NEW N, Typed(N), NEW p \in Pages
  PROVE  /\ N[p] \in Nodes /\ N[p].keys \in Seq(Keys) /\ Len(N[p].keys) = Len(N[p].rids)
         /\ Len(N[p].rids) \in Nat /\ DOMAIN N[p].rids = 1 .. Len(N[p].rids)
         /\ DOMAIN N[p].keys = 1 .. Len(N[p].rids)
         /\ N[p].rids \in Seq(Rids) \/ N[p].rids \in Seq(Pages)
         /\ N[p].is_leaf \in BOOLEAN
         /\ N[p].is_leaf => N[p].rids \in Seq(Rids)
         /\ ~N[p].is_leaf => N[p].rids \in Seq(Pages)
         /\ N[p].parent \in PageOrNone /\ N[p].next_free \in PageOrNone
         /\ N[p].prev_leaf \in PageOrNone /\ N[p].next_leaf \in PageOrNone
<1>1. N[p] \in Nodes /\ Len(N[p].keys) = Len(N[p].rids)
      /\ N[p].rids \in IF N[p].is_leaf THEN Seq(Rids) ELSE Seq(Pages)
  BY DEF Typed
<1>2. /\ N[p].keys \in Seq(Keys) /\ N[p].is_leaf \in BOOLEAN
      /\ N[p].parent \in PageOrNone /\ N[p].next_free \in PageOrNone
      /\ N[p].prev_leaf \in PageOrNone /\ N[p].next_leaf \in PageOrNone
  BY <1>1 DEF Nodes
<1>3. /\ N[p].rids \in Seq(Rids) \/ N[p].rids \in Seq(Pages)
      /\ N[p].is_leaf => N[p].rids \in Seq(Rids)
      /\ ~N[p].is_leaf => N[p].rids \in Seq(Pages)
  BY <1>1, <1>2
<1>4. Len(N[p].rids) \in Nat /\ DOMAIN N[p].rids = 1 .. Len(N[p].rids)
  BY <1>3
<1>5. DOMAIN N[p].keys = 1 .. Len(N[p].keys)
  BY <1>2
<1> QED
  BY <1>1, <1>2, <1>3, <1>4, <1>5

\* A step that leaves the leaves alone changes no entry.
LEMMA SameLeaves ==
  ASSUME NEW N,
         \A q \in Pages : N[q].is_leaf <=> node[q].is_leaf,
         \A q \in Pages : node[q].is_leaf => N[q].keys = node[q].keys /\ N[q].rids = node[q].rids
  PROVE  SameEntries(N)
<1>1. ASSUME NEW k, NEW r, Has(N, k, r) PROVE Has(node, k, r)
  BY <1>1 DEF Has
<1>2. ASSUME NEW k, NEW r, Has(node, k, r) PROVE Has(N, k, r)
  BY <1>2 DEF Has
<1> QED
  BY <1>1, <1>2 DEF SameEntries

LEMMA GrowRootStep ==
  ASSUME NEW T, NEW lev, NEW nxt, NEW fl, Index(node, hdr, work, T, lev, nxt, fl), GrowRoot
  PROVE  IInv' /\ SameEntries(node')
<1> DEFINE n == work.page
           r == NewPage
           N == node'
           h == hdr'
           k == Last(node[n].keys)
<1>1. /\ Typed(node) /\ hdr \in Header /\ work \in Works /\ FreeList(node, hdr, T, fl)
      /\ Blank(node, T) /\ Shape(T, lev, nxt) /\ Links(node, hdr.root_page, T, lev, nxt)
      /\ RingOK(node, hdr.last_leaf, T, nxt) /\ KeysOK(node, T, NDX_NO_PAGE)
      /\ Filled(node, hdr, T, work) /\ Ascending(node, T, nxt) /\ EntriesOK(node, T)
  BY DEF Index
<1>2. /\ n \in T /\ n \in Pages /\ n = hdr.root_page /\ work.todo = "overflow"
      /\ Len(node[n].rids) = hdr.btree_order + 1
  BY <1>1 DEF GrowRoot, Filled, Shape, Links, ParentOK
<1>3. /\ T \subseteq Pages \ {NDX_LEAF_HEADER_PAGE}
      /\ r \in Pages /\ r \notin T /\ r # NDX_LEAF_HEADER_PAGE
      /\ HeaderAfterNew \in Header /\ HeaderAfterNew.btree_order = hdr.btree_order
      /\ HeaderAfterNew.last_leaf = hdr.last_leaf
  <2>1. T \subseteq Pages \ {NDX_LEAF_HEADER_PAGE} /\ r \in Pages
    BY <1>1 DEF Shape, GrowRoot
  <2> QED BY <1>1, <2>1, NewPageIs
<1>4. /\ h = [HeaderAfterNew EXCEPT !.root_page = r] /\ work' = work
      /\ h \in Header /\ h.btree_order = hdr.btree_order /\ h.last_leaf = hdr.last_leaf
      /\ h.root_page = r /\ h.first_free = HeaderAfterNew.first_free
      /\ h.num_pages = HeaderAfterNew.num_pages
  <2>1. h = [HeaderAfterNew EXCEPT !.root_page = r] /\ work' = work
    BY DEF GrowRoot
  <2> QED BY <1>3, <2>1 DEF Header
<1>5. k \in Keys
  <2>1. node[n].keys \in Seq(Keys) /\ Len(node[n].keys) = hdr.btree_order + 1 /\ hdr.btree_order \in Nat
    BY <1>1, <1>2, PageIs, Fill
  <2>2. node[n].keys # << >>
    BY <2>1
  <2> QED BY <2>1, <2>2, LastIs
<1> DEFINE blank == IndexPageHeader(NDX_NO_PAGE, FALSE, NDX_NO_PAGE, NDX_NO_PAGE)
           root == InsertPair(blank, 1, k, n)
<1>6. N = [node EXCEPT ![r] = root, ![n].parent = r]
  BY DEF GrowRoot
<1>7. /\ root \in Nodes /\ root.next_free = NDX_NO_PAGE /\ root.parent = NDX_NO_PAGE /\ ~root.is_leaf
      /\ root.keys \in Seq(Keys) /\ Len(root.keys) = 1 /\ root.keys[1] = k
      /\ root.rids \in Seq(Pages) /\ Len(root.rids) = 1 /\ root.rids[1] = n
  <2>1. root = [blank EXCEPT !.keys = InsertAt(blank.keys, 1, k), !.rids = InsertAt(blank.rids, 1, n)]
    BY DEF InsertPair
  <2>2. blank.keys = << >> /\ blank.rids = << >>
    BY DEF IndexPageHeader
  <2>3. /\ InsertAt(<< >>, 1, k) \in Seq(Keys) /\ Len(InsertAt(<< >>, 1, k)) = 1
        /\ InsertAt(<< >>, 1, k)[1] = k
    BY <1>5, InsertAlone
  <2>4. /\ InsertAt(<< >>, 1, n) \in Seq(Pages) /\ Len(InsertAt(<< >>, 1, n)) = 1
        /\ InsertAt(<< >>, 1, n)[1] = n
    BY <1>2, InsertAlone
  <2> DEFINE ks == InsertAt(<< >>, 1, k)
             rs == InsertAt(<< >>, 1, n)
  <2>5. root = [blank EXCEPT !.keys = ks, !.rids = rs]
    BY <2>1, <2>2
  <2> HIDE DEF ks, rs, root, k, n
  <2>6. root = [next_free |-> NDX_NO_PAGE, parent |-> NDX_NO_PAGE, is_leaf |-> FALSE,
                prev_leaf |-> NDX_NO_PAGE, next_leaf |-> NDX_NO_PAGE, keys |-> ks, rids |-> rs]
    BY <2>5 DEF IndexPageHeader
  <2> QED BY <2>3, <2>4, <2>6 DEF ks, rs, Nodes, PageOrNone
<1> HIDE DEF root, N, h, n, r, k
<1>8. /\ N \in [Pages -> Nodes] /\ N[r] = root
      /\ \A q \in Pages \ {r} : N[q] = IF q = n THEN [node[q] EXCEPT !.parent = r] ELSE node[q]
  <2>1. node \in [Pages -> Nodes]
    BY <1>1 DEF Typed
  <2>2. r # n
    BY <1>2, <1>3
  <2>3. [node[n] EXCEPT !.parent = r] \in Nodes
    BY <1>2, <1>3, <2>1 DEF Nodes, PageOrNone
  <2> QED BY <1>2, <1>3, <1>6, <1>7, <2>1, <2>2, <2>3
<1>9. ASSUME NEW q \in Pages, q # r
      PROVE  /\ N[q].next_free = node[q].next_free /\ N[q].is_leaf = node[q].is_leaf
             /\ N[q].prev_leaf = node[q].prev_leaf /\ N[q].next_leaf = node[q].next_leaf
             /\ N[q].keys = node[q].keys /\ N[q].rids = node[q].rids
             /\ N[q].parent = IF q = n THEN r ELSE node[q].parent
             /\ q # n => N[q] = node[q]
  <2>1. node[q] \in Nodes
    BY <1>1 DEF Typed
  <2> QED BY <1>8, <1>9, <2>1 DEF Nodes
<1>10. Typed(N)
  BY <1>1, <1>7, <1>8, <1>9 DEF Typed
<1>11. PICK fl2 : FreeList(N, h, T \cup {r}, fl2)
  <2>1. \A q \in Pages : N[q].next_free = IF q = NewPage THEN NDX_NO_PAGE ELSE node[q].next_free
    BY <1>7, <1>8, <1>9 DEF r
  <2> QED BY <1>1, <1>3, <1>4, <2>1, TakePage DEF r
<1> DEFINE T2 == T \cup {r}
           lev2 == [lev EXCEPT ![r] = lev[n] + 1]
<1>12. /\ lev2 \in [Pages -> Nat] /\ lev2[r] = lev[n] + 1 /\ lev[n] \in Nat /\ nxt[r] = NDX_NO_PAGE
       /\ \A q \in T : lev2[q] = lev[q] /\ lev[q] \in Nat
       /\ \A q \in Pages \ T2 : lev2[q] = 0
  BY <1>1, <1>2, <1>3 DEF Shape
<1>13. T2 = T \cup {r} /\ T \subseteq Pages /\ T2 \subseteq Pages
  BY <1>3
<1> HIDE DEF lev2, T2
<1>14. Blank(N, T2)
  BY <1>1, <1>2, <1>9, <1>13 DEF Blank
<1>15. Shape(T2, lev2, nxt)
  BY <1>1, <1>3, <1>12, <1>13, Constants DEF Shape
<1>16. Links(N, r, T2, lev2, nxt)
  <2>1. r \in T2 /\ nxt[r] = NDX_NO_PAGE
    BY <1>12, <1>13
  <2>2. ASSUME NEW q \in T2 PROVE ParentOK(N, r, T2, lev2, q)
    <3>1. CASE q = r
      BY <1>7, <1>8, <1>12, <3>1 DEF ParentOK
    <3>2. CASE q = n
      <4>1. n \in ToSet(N[r].rids)
        BY <1>7, <1>8 DEF ToSet
      <4>2. N[q].parent = r /\ r # NDX_NO_PAGE /\ q # r /\ N[q].is_leaf = node[q].is_leaf
        BY <1>2, <1>3, <1>9, <3>2, Constants
      <4>3. node[q].is_leaf <=> lev[q] = 0
        BY <1>1, <1>2, <3>2 DEF Links, ParentOK
      <4> QED BY <1>2, <1>7, <1>8, <1>12, <1>13, <3>2, <4>1, <4>2, <4>3 DEF ParentOK
    <3>3. CASE q # r /\ q # n
      <4>1. q \in T /\ q \in Pages
        BY <1>13, <3>3
      <4>2. ParentOK(node, n, T, lev, q)
        BY <1>1, <1>2, <4>1 DEF Links
      <4>3. N[q] = node[q] /\ node[q].parent \in T /\ node[q].parent # r /\ node[q].parent \in Pages
        BY <1>3, <1>9, <1>13, <3>3, <4>1, <4>2 DEF ParentOK
      <4>4. N[node[q].parent].rids = node[node[q].parent].rids
            /\ N[node[q].parent].is_leaf = node[node[q].parent].is_leaf
        BY <1>9, <4>3
      <4>5. node[q].parent # NDX_NO_PAGE
        BY <4>3, Constants
      <4> QED BY <1>12, <1>13, <3>3, <4>1, <4>2, <4>3, <4>4, <4>5 DEF ParentOK
    <3> QED BY <3>1, <3>2, <3>3
  <2>3. ASSUME NEW p \in T2, ~N[p].is_leaf PROVE ChildrenOK(N, T2, nxt, p)
    <3>1. CASE p = r
      <4>1. nxt[n] = NDX_NO_PAGE /\ N[n].parent = r
        BY <1>1, <1>2, <1>3, <1>9 DEF Links
      <4>2. N[r].rids = root.rids /\ DOMAIN N[r].rids = {1}
        BY <1>7, <1>8
      <4> QED BY <1>2, <1>7, <1>12, <1>13, <3>1, <4>1, <4>2 DEF ChildrenOK, FirstOfNext, IsInjective
    <3>2. CASE p # r
      <4>1. p \in T /\ p \in Pages /\ N[p].rids = node[p].rids /\ ~node[p].is_leaf
        BY <1>9, <1>13, <2>3, <3>2
      <4>2. ChildrenOK(node, T, nxt, p)
        BY <1>1, <4>1 DEF Links
      <4>3. FirstOfNext(N, nxt, p) = FirstOfNext(node, nxt, p)
        <5>1. nxt[p] # NDX_NO_PAGE => nxt[p] \in T
          BY <1>1, <4>1 DEF Shape
        <5> QED BY <1>3, <1>9, <1>13, <5>1 DEF FirstOfNext
      <4>4. ASSUME NEW i \in DOMAIN node[p].rids
            PROVE  LET c == node[p].rids[i] IN c \in T2 /\ N[c].parent = p
        <5> DEFINE c == node[p].rids[i]
        <5>1. c \in T /\ node[c].parent = p
          BY <4>2 DEF ChildrenOK
        <5>2. c # n
          BY <5>1, <1>1, <1>2, <4>1, Constants DEF Links, ParentOK
        <5> HIDE DEF c
        <5>3. N[c] = node[c]
          BY <1>3, <1>9, <5>1, <5>2
        <5> QED BY <1>13, <5>1, <5>3 DEF c
      <4> QED BY <4>1, <4>2, <4>3, <4>4 DEF ChildrenOK
    <3> QED BY <3>1, <3>2
  <2> QED BY <2>1, <2>2, <2>3 DEF Links
<1>17. RingOK(N, h.last_leaf, T2, nxt)
  <2>1. \A q \in T : q \in Pages /\ q # r
    BY <1>3
  <2>2. NDX_LEAF_HEADER_PAGE \in Pages \ {r, n} /\ first_leaf \in T /\ hdr.last_leaf \in T
    BY <1>1, <1>2, <1>3, Constants DEF RingOK
  <2>3. N[NDX_LEAF_HEADER_PAGE] = node[NDX_LEAF_HEADER_PAGE]
    BY <1>9, <2>2
  <2>4. ASSUME NEW p \in T2, N[p].is_leaf PROVE LeafOK(N, hdr.last_leaf, T2, nxt, p)
    <3>1. p \in T /\ node[p].is_leaf /\ p \in Pages /\ p # r
      BY <1>7, <1>8, <1>9, <1>13, <2>1, <2>4
    <3>2. LeafOK(node, hdr.last_leaf, T, nxt, p)
      BY <1>1, <3>1 DEF RingOK
    <3>3. nxt[p] # NDX_NO_PAGE => nxt[p] \in T
      BY <1>1, <3>1 DEF Shape
    <3> QED BY <1>9, <1>13, <2>1, <3>1, <3>2, <3>3 DEF LeafOK
  <2>5. /\ N[first_leaf].is_leaf /\ N[hdr.last_leaf].is_leaf /\ nxt[hdr.last_leaf] = NDX_NO_PAGE
        /\ N[first_leaf].prev_leaf = NDX_LEAF_HEADER_PAGE
    BY <1>1, <1>9, <2>1, <2>2 DEF RingOK
  <2>6. N[NDX_LEAF_HEADER_PAGE] = IndexPageHeader(NDX_NO_PAGE, TRUE, hdr.last_leaf, first_leaf)
    BY <1>1, <2>3 DEF RingOK
  <2>7. h.last_leaf = hdr.last_leaf /\ first_leaf \in T2 /\ hdr.last_leaf \in T2
    BY <1>4, <1>13, <2>2
  <2>8. RingOK(N, hdr.last_leaf, T2, nxt)
    BY <2>4, <2>5, <2>6, <2>7 DEF RingOK
  <2> QED BY <2>7, <2>8
<1>18. KeysOK(N, T2, NDX_NO_PAGE)
  <2> SUFFICES ASSUME NEW p \in T2, ~N[p].is_leaf, NEW i \in DOMAIN N[p].rids
               PROVE  N[p].keys[i] = Last(N[N[p].rids[i]].keys)
    BY DEF KeysOK
  <2>1. CASE p = r
    <3>1. i = 1
      BY <1>7, <1>8, <2>1
    <3>2. N[n].keys = node[n].keys
      BY <1>2, <1>3, <1>9
    <3> QED BY <1>7, <1>8, <2>1, <3>1, <3>2 DEF k
  <2>2. CASE p # r
    <3>1. p \in T /\ p \in Pages /\ ~node[p].is_leaf /\ N[p].rids = node[p].rids /\ N[p].keys = node[p].keys
      BY <1>9, <1>13, <2>2
    <3>2. node[p].rids[i] \in T
      BY <1>1, <3>1 DEF Links, ChildrenOK
    <3>3. node[p].keys[i] = Last(node[node[p].rids[i]].keys)
      BY <1>1, <3>1, <3>2, <1>13, Constants DEF KeysOK
    <3>4. N[node[p].rids[i]].keys = node[node[p].rids[i]].keys
      BY <1>3, <1>9, <3>2
    <3> QED BY <3>1, <3>3, <3>4
  <2> QED BY <2>1, <2>2
<1>19. Filled(N, h, T2, work)
  <2>1. MinOf(h) = MinOf(hdr) /\ MinOf(hdr) \in Nat /\ hdr.btree_order \in Nat /\ MinOf(hdr) < hdr.btree_order
    BY <1>1, <1>4, Fill DEF MinOf
  <2>2. \A q \in T : N[q].rids = node[q].rids
    BY <1>3, <1>9
  <2>3. Len(N[r].rids) = 1 /\ n # r
    BY <1>2, <1>3, <1>7, <1>8
  <2>4. work = [todo |-> "overflow", page |-> n]
    BY <1>1, <1>2 DEF Works, n
  <2>5. N[n].parent = r
    BY <1>2, <1>3, <1>9
  <2>6. hdr.btree_order >= 3
    BY <1>1, Fill
  <2>7. ASSUME NEW q \in T2 PROVE Len(N[q].rids) <= h.btree_order + Extra(work, "overflow", q)
    <3>1. CASE q = r
      <4> DEFINE x == Extra(work, "overflow", q)
      <4>1. x \in {0, 1}
        BY DEF Extra
      <4> HIDE DEF x
      <4>2. Len(N[r].rids) <= h.btree_order + x
        BY <1>4, <2>1, <2>3, <2>6, <4>1
      <4> QED BY <3>1, <4>2 DEF x
    <3>2. CASE q # r
      BY <1>1, <1>4, <1>13, <2>2, <3>2 DEF Filled
    <3> QED BY <3>1, <3>2
  <2>8. ASSUME NEW q \in T2 \ {r} PROVE Len(N[q].rids) >= MinOf(h) - Extra(work, "underflow", q)
    <3>1. CASE q = n
      BY <1>2, <2>1, <2>2, <2>4, <3>1 DEF Extra
    <3>2. CASE q # n
      BY <1>1, <1>2, <1>13, <2>1, <2>2, <3>2 DEF Filled
    <3> QED BY <3>1, <3>2
  <2> QED BY <1>2, <1>4, <1>13, <2>2, <2>4, <2>5, <2>7, <2>8 DEF Filled
<1>20. Ascending(N, T2, nxt)
  <2> SUFFICES ASSUME NEW p \in T2, N[p].is_leaf
               PROVE  /\ \A i, j \in DOMAIN N[p].keys : i < j => N[p].keys[i] <= N[p].keys[j]
                      /\ nxt[p] # NDX_NO_PAGE => Last(N[p].keys) <= N[nxt[p]].keys[1]
    BY DEF Ascending
  <2>1. p \in T /\ node[p].is_leaf /\ N[p].keys = node[p].keys
    BY <1>3, <1>7, <1>8, <1>9, <1>13
  <2>2. nxt[p] # NDX_NO_PAGE => nxt[p] \in T
    BY <1>1, <1>13, <2>1 DEF Shape
  <2>3. nxt[p] # NDX_NO_PAGE => N[nxt[p]].keys = node[nxt[p]].keys
    BY <1>3, <1>9, <2>2
  <2> QED BY <1>1, <2>1, <2>3 DEF Ascending
<1>21. EntriesOK(N, T2)
  <2>1. \A p \in T2 : N[p].is_leaf => p \in T /\ node[p].is_leaf /\ N[p].rids = node[p].rids /\ N[p].keys = node[p].keys
    BY <1>3, <1>7, <1>8, <1>9, <1>13
  <2> QED BY <1>1, <2>1 DEF EntriesOK
<1>22. Index(N, h, work', T2, lev2, nxt, fl2)
  BY <1>1, <1>4, <1>10, <1>11, <1>13, <1>14, <1>15, <1>16, <1>17, <1>18, <1>19, <1>20, <1>21 DEF Index
<1>23. SameEntries(N)
  <2>1. ~N[r].is_leaf
    BY <1>7, <1>8
  <2>2. ~node[r].is_leaf
    BY <1>1, <1>3 DEF Blank
  <2>3. \A q \in Pages : N[q].is_leaf <=> node[q].is_leaf
    BY <1>9, <2>1, <2>2
  <2>4. \A q \in Pages : node[q].is_leaf => N[q].keys = node[q].keys /\ N[q].rids = node[q].rids
    BY <1>9, <2>2
  <2> QED BY <2>3, <2>4, SameLeaves
<1> QED
  BY <1>22, <1>23 DEF IInv, N, h

LEMMA ReleasedIs ==
  ASSUME NEW f \in PageOrNone
  PROVE  /\ Released(f) \in Nodes /\ Released(f).next_free = f /\ Released(f).parent = NDX_NO_PAGE
         /\ ~Released(f).is_leaf /\ Released(f).next_leaf = NDX_NO_PAGE
         /\ Released(f).keys = << >> /\ Released(f).rids = << >>
<1>1. << >> \in Seq(Keys) /\ << >> \in Seq(Pages) /\ NDX_NO_PAGE \in PageOrNone
  BY DEF PageOrNone
<1>2. /\ Released(f).next_free = f /\ Released(f).parent = NDX_NO_PAGE
      /\ ~Released(f).is_leaf /\ Released(f).next_leaf = NDX_NO_PAGE
      /\ Released(f).keys = << >> /\ Released(f).rids = << >>
  BY DEF Released, IndexPageHeader
<1> DEFINE b == IndexPageHeader(NDX_NO_PAGE, FALSE, NDX_NO_PAGE, NDX_NO_PAGE)
<1>3. b \in Nodes
  BY <1>1 DEF IndexPageHeader, Nodes
<1>4. Released(f) = [b EXCEPT !.next_free = f]
  BY DEF Released
<1> HIDE DEF b
<1>5. Released(f) \in Nodes
  BY <1>3, <1>4 DEF Nodes
<1> QED
  BY <1>2, <1>5

LEMMA IdleIs ==
  /\ Idle \in Works /\ Idle.todo = "nothing"
  /\ \A p : Extra(Idle, "overflow", p) = 0
  /\ \A p : Extra(Idle, "underflow", p) = 0
BY DEF Idle, Works, PageOrNone, Extra

LEMMA ShrinkRootStep ==
  ASSUME NEW T, NEW lev, NEW nxt, NEW fl, Index(node, hdr, work, T, lev, nxt, fl), ShrinkRoot
  PROVE  IInv' /\ SameEntries(node')
<1> DEFINE n == work.page
           c == node[n].rids[1]
           N == node'
           h == hdr'
<1>1. /\ Typed(node) /\ hdr \in Header /\ work \in Works /\ FreeList(node, hdr, T, fl)
      /\ Blank(node, T) /\ Shape(T, lev, nxt) /\ Links(node, hdr.root_page, T, lev, nxt)
      /\ RingOK(node, hdr.last_leaf, T, nxt) /\ KeysOK(node, T, NDX_NO_PAGE)
      /\ Filled(node, hdr, T, work) /\ Ascending(node, T, nxt) /\ EntriesOK(node, T)
  BY DEF Index
<1>2. n \in T /\ n \in Pages /\ n = hdr.root_page /\ work.todo = "underflow" /\ work' = Idle
  BY <1>1 DEF ShrinkRoot, Filled, Shape, Links, ParentOK
<1>3. work = [todo |-> "underflow", page |-> n]
  BY <1>1, <1>2 DEF Works
<1>4. CASE node[n].is_leaf \/ Len(node[n].keys) > 1
  <2>1. node' = node /\ hdr' = hdr
    <3>1. Len(node[n].keys) \in Nat
      BY <1>1, <1>2, PageIs
    <3>2. ~(~node[n].is_leaf /\ Len(node[n].keys) <= 1)
      BY <1>4, <3>1
    <3> QED BY <3>2 DEF ShrinkRoot
  <2>2. Filled(node, hdr, T, Idle)
    <3>1. \A p \in T : Len(node[p].rids) <= hdr.btree_order + Extra(Idle, "overflow", p)
      <4>1. \A p : Extra(work, "overflow", p) = 0
        BY <1>3 DEF Extra
      <4> QED BY <1>1, <4>1, IdleIs DEF Filled
    <3>2. \A p \in T \ {hdr.root_page} :
            Len(node[p].rids) >= MinOf(hdr) - Extra(Idle, "underflow", p)
      <4>1. \A p \in T \ {hdr.root_page} : Extra(work, "underflow", p) = 0
        BY <1>2, <1>3 DEF Extra
      <4> QED BY <1>1, <4>1, IdleIs DEF Filled
    <3>3. ~(~node[hdr.root_page].is_leaf /\ Len(node[hdr.root_page].rids) < 2)
      BY <1>1, <1>2, <1>4, PageIs
    <3> QED BY <3>1, <3>2, <3>3, IdleIs DEF Filled
  <2>3. Index(node, hdr, Idle, T, lev, nxt, fl)
    BY <1>1, <2>2, IdleIs DEF Index
  <2>4. Index(node', hdr', work', T, lev, nxt, fl)
    BY <1>2, <2>1, <2>3
  <2>5. SameEntries(node')
    BY <2>1 DEF SameEntries
  <2> QED BY <2>4, <2>5 DEF IInv
<1>5. CASE ~node[n].is_leaf /\ Len(node[n].keys) <= 1
  <2>1. /\ N = [node EXCEPT ![c].parent = NDX_NO_PAGE, ![n] = Released(hdr.first_free)]
        /\ h = [hdr EXCEPT !.root_page = c, !.first_free = n]
    BY <1>5 DEF ShrinkRoot
  \* The root and its only child.
  <2>2. /\ T \subseteq Pages /\ \A q \in T : lev[q] \in Nat
        /\ Len(node[n].rids) = 1 /\ DOMAIN node[n].rids = {1}
        /\ c \in T /\ c \in Pages /\ node[c].parent = n /\ nxt[c] = NDX_NO_PAGE
        /\ nxt[n] = NDX_NO_PAGE /\ node[n].parent = NDX_NO_PAGE
    <3>1. T \subseteq Pages /\ \A q \in T : lev[q] \in Nat
      BY <1>1 DEF Shape
    <3>2. nxt[n] = NDX_NO_PAGE /\ node[n].parent = NDX_NO_PAGE /\ ChildrenOK(node, T, nxt, n)
      BY <1>1, <1>2, <1>5 DEF Links, ParentOK
    <3>3. Len(node[n].rids) = 1 /\ DOMAIN node[n].rids = {1}
      <4>1. /\ Len(node[n].rids) \in Nat /\ DOMAIN node[n].rids = 1 .. Len(node[n].rids)
            /\ node[n].rids \in Seq(Pages) /\ Len(node[n].keys) = Len(node[n].rids)
        BY <1>1, <1>2, <1>5, PageIs
      <4>2. Len(node[n].rids) # 0
        BY <3>2, <4>1 DEF ChildrenOK
      <4>3. Len(node[n].rids) = 1
        <5> DEFINE m == Len(node[n].rids)
        <5>1. m \in Nat /\ m # 0 /\ m <= 1
          BY <4>1, <4>2, <1>5
        <5> HIDE DEF m
        <5>2. m = 1
          BY <5>1
        <5> QED BY <5>2 DEF m
      <4> QED BY <4>1, <4>3
    <3>4. c \in T /\ node[c].parent = n /\ nxt[c] = FirstOfNext(node, nxt, n)
      BY <3>2, <3>3 DEF ChildrenOK
    <3> QED BY <3>1, <3>2, <3>3, <3>4 DEF FirstOfNext
  <2>3. c # n /\ n # NDX_NO_PAGE /\ c # NDX_NO_PAGE
    BY <1>2, <2>2, Constants
  <2> DEFINE T2 == T \ {n}
             lev2 == [lev EXCEPT ![n] = 0]
  <2>4. \A q \in T2 : q # c => node[q].parent \in T2
    <3> SUFFICES ASSUME NEW q \in T2, q # c PROVE node[q].parent \in T2
      OBVIOUS
    <3>1. q \in T /\ q # hdr.root_page
      BY <1>2
    <3>2. node[q].parent \in T /\ q \in ToSet(node[node[q].parent].rids)
      BY <1>1, <3>1 DEF Links, ParentOK
    <3>3. ToSet(node[n].rids) = {c}
      BY <2>2 DEF ToSet
    <3> QED BY <3>2, <3>3
  <2>5. /\ h \in Header /\ h.root_page = c /\ h.first_free = n /\ h.btree_order = hdr.btree_order
        /\ h.num_pages = hdr.num_pages /\ h.last_leaf = hdr.last_leaf
    BY <1>1, <1>2, <2>1, <2>2 DEF Header, PageOrNone
  <2>6. Released(hdr.first_free) \in Nodes /\ node \in [Pages -> Nodes] /\ hdr.first_free \in PageOrNone
    BY <1>1, ReleasedIs DEF Typed, Header
  <2> HIDE DEF c, n, N, h
  <2>7. /\ N \in [Pages -> Nodes] /\ N[n] = Released(hdr.first_free)
        /\ \A q \in Pages \ {n} : N[q] = IF q = c THEN [node[q] EXCEPT !.parent = NDX_NO_PAGE] ELSE node[q]
    <3>1. [node[c] EXCEPT !.parent = NDX_NO_PAGE] \in Nodes
      BY <2>2, <2>6 DEF Nodes, PageOrNone
    <3> QED BY <1>2, <2>1, <2>2, <2>3, <2>6, <3>1
  <2>8. ASSUME NEW q \in Pages, q # n
        PROVE  /\ N[q].next_free = node[q].next_free /\ N[q].is_leaf = node[q].is_leaf
               /\ N[q].prev_leaf = node[q].prev_leaf /\ N[q].next_leaf = node[q].next_leaf
               /\ N[q].keys = node[q].keys /\ N[q].rids = node[q].rids
               /\ N[q].parent = IF q = c THEN NDX_NO_PAGE ELSE node[q].parent
               /\ q # c => N[q] = node[q]
    <3>1. node[q] \in Nodes
      BY <2>6
    <3> QED BY <2>7, <2>8, <3>1 DEF Nodes
  <2>9. /\ N[n].next_free = hdr.first_free /\ N[n].parent = NDX_NO_PAGE /\ ~N[n].is_leaf
        /\ N[n].next_leaf = NDX_NO_PAGE /\ N[n].keys = << >> /\ N[n].rids = << >>
    BY <2>6, <2>7, ReleasedIs
  <2>10. Typed(N)
    <3>1. ASSUME NEW q \in Pages
          PROVE  /\ Len(N[q].keys) = Len(N[q].rids)
                 /\ N[q].rids \in IF N[q].is_leaf THEN Seq(Rids) ELSE Seq(Pages)
      <4>1. CASE q = n
        <5>1. << >> \in Seq(Pages)
          OBVIOUS
        <5> QED BY <2>9, <4>1, <5>1
      <4>2. CASE q # n
        BY <1>1, <2>8, <4>2 DEF Typed
      <4> QED BY <4>1, <4>2
    <3> QED BY <2>7, <3>1 DEF Typed
  <2>11. FreeList(N, h, T2, <<n>> \o fl)
    <3>1. \A q \in Pages : N[q].next_free = IF q = n THEN hdr.first_free ELSE node[q].next_free
      BY <2>8, <2>9
    <3> QED BY <1>1, <1>2, <2>2, <2>5, <3>1, GivePage
  <2>12. /\ lev2 \in [Pages -> Nat] /\ \A q \in T2 : lev2[q] = lev[q] /\ lev[q] \in Nat
         /\ \A q \in Pages \ T2 : lev2[q] = 0
    BY <1>1, <1>2, <2>2 DEF Shape
  <2>13. T2 \subseteq T /\ T2 \subseteq Pages \ {n} /\ c \in T2 /\ \A q \in T : q \in T2 <=> q # n
    BY <2>2, <2>3
  <2> HIDE DEF T2, lev2
  <2>14. Blank(N, T2)
    <3> SUFFICES ASSUME NEW p \in Pages \ (T2 \cup {NDX_LEAF_HEADER_PAGE})
                 PROVE  /\ ~N[p].is_leaf /\ N[p].parent = NDX_NO_PAGE /\ N[p].next_leaf = NDX_NO_PAGE
                        /\ N[p].keys = << >> /\ N[p].rids = << >>
      BY DEF Blank
    <3>1. CASE p = n
      BY <2>9, <3>1
    <3>2. CASE p # n
      <4>1. p \in Pages \ (T \cup {NDX_LEAF_HEADER_PAGE})
        BY <2>13, <3>2
      <4> QED BY <1>1, <2>2, <2>8, <3>2, <4>1 DEF Blank
    <3> QED BY <3>1, <3>2
  \* Below the root are the others.
  <2>15. \A q \in T2 : lev[q] <= lev[c] /\ lev[q] < lev[n] /\ lev[n] = lev[c] + 1
    <3> SUFFICES ASSUME NEW q \in T2 PROVE lev[q] <= lev[c] /\ lev[q] < lev[n] /\ lev[n] = lev[c] + 1
      OBVIOUS
    <3>1. q \in T /\ q # hdr.root_page /\ c \in T /\ c # hdr.root_page
      BY <1>2, <2>3, <2>13
    <3>2. lev[node[q].parent] = lev[q] + 1 /\ node[q].parent \in T /\ lev[node[c].parent] = lev[c] + 1
      BY <1>1, <3>1 DEF Links, ParentOK
    <3>3. lev[node[q].parent] <= lev[n]
      BY <1>1, <1>2, <3>2 DEF Links, ParentOK
    <3>4. lev[q] \in Nat /\ lev[c] \in Nat /\ lev[n] \in Nat /\ lev[node[q].parent] \in Nat
      BY <1>2, <2>2, <3>1, <3>2
    <3> QED BY <2>2, <3>2, <3>3, <3>4
  <2>16. \A p \in T : nxt[p] # n
    <3> SUFFICES ASSUME NEW p \in T, nxt[p] = n PROVE FALSE
      OBVIOUS
    <3>1. lev[n] = lev[p]
      BY <1>1, <2>3 DEF Shape
    <3>2. p # n
      BY <2>2, <2>3
    <3> QED BY <2>2, <2>13, <2>15, <3>1, <3>2, <1>2
  <2>17. nxt \in [Pages -> T2 \cup {NDX_NO_PAGE}]
    <3>1. nxt \in [Pages -> T \cup {NDX_NO_PAGE}] /\ \A p \in Pages \ T : nxt[p] = NDX_NO_PAGE
      BY <1>1 DEF Shape
    <3>2. \A p \in Pages : nxt[p] \in T2 \cup {NDX_NO_PAGE}
      BY <2>3, <2>13, <2>16, <3>1
    <3> QED BY <3>1, <3>2
  <2>18. Shape(T2, lev2, nxt)
    <3>1. T2 \subseteq Pages \ {NDX_LEAF_HEADER_PAGE}
      BY <1>1, <2>13 DEF Shape
    <3>2. \A p \in Pages \ T2 : nxt[p] = NDX_NO_PAGE
      BY <1>1, <2>2, <2>13 DEF Shape
    <3>3. \A p \in T2 : nxt[p] # NDX_NO_PAGE => lev2[nxt[p]] = lev2[p]
      BY <1>1, <2>12, <2>13, <2>17 DEF Shape
    <3>4. \A p, q \in T2 : nxt[p] = nxt[q] /\ nxt[p] # NDX_NO_PAGE => p = q
      BY <1>1, <2>13 DEF Shape
    <3> QED BY <2>12, <2>17, <3>1, <3>2, <3>3, <3>4 DEF Shape
  <2>19. Links(N, c, T2, lev2, nxt)
    <3>1. ASSUME NEW q \in T2 PROVE ParentOK(N, c, T2, lev2, q)
      <4>1. q \in T /\ q # hdr.root_page /\ q \in Pages /\ q # n
        BY <1>2, <2>2, <2>13
      <4>2. ParentOK(node, n, T, lev, q)
        BY <1>1, <1>2, <4>1 DEF Links
      <4>3. lev2[q] = lev[q] /\ lev2[c] = lev[c] /\ lev[q] <= lev[c]
        BY <2>12, <2>13, <2>15
      <4>4. CASE q = c
        BY <2>8, <4>1, <4>2, <4>3, <4>4 DEF ParentOK
      <4>5. CASE q # c
        <5>1. N[q] = node[q] /\ node[q].parent \in T2 /\ node[q].parent \in Pages \ {n}
          BY <2>4, <2>8, <2>13, <4>1, <4>5
        <5>2. /\ N[node[q].parent].rids = node[node[q].parent].rids
              /\ N[node[q].parent].is_leaf = node[node[q].parent].is_leaf
          BY <2>8, <5>1
        <5>3. node[q].parent # NDX_NO_PAGE /\ lev2[node[q].parent] = lev[node[q].parent]
          BY <2>12, <5>1, Constants
        <5> QED BY <1>2, <4>1, <4>2, <4>3, <4>5, <5>1, <5>2, <5>3 DEF ParentOK
      <4> QED BY <4>4, <4>5
    <3>2. ASSUME NEW p \in T2, ~N[p].is_leaf PROVE ChildrenOK(N, T2, nxt, p)
      <4>1. p \in T /\ p \in Pages /\ p # n /\ N[p].rids = node[p].rids /\ ~node[p].is_leaf
        BY <2>2, <2>8, <2>13, <3>2
      <4>2. ChildrenOK(node, T, nxt, p)
        BY <1>1, <4>1 DEF Links
      <4>3. FirstOfNext(N, nxt, p) = FirstOfNext(node, nxt, p)
        <5>1. nxt[p] # NDX_NO_PAGE => nxt[p] \in Pages /\ nxt[p] # n
          BY <2>13, <2>17, <4>1
        <5> QED BY <2>8, <5>1 DEF FirstOfNext
      <4>4. ASSUME NEW i \in DOMAIN node[p].rids
            PROVE  LET d == node[p].rids[i] IN d \in T2 /\ N[d].parent = p
        <5> DEFINE d == node[p].rids[i]
        <5>1. d \in T /\ node[d].parent = p
          BY <4>2 DEF ChildrenOK
        <5>2. d # n /\ d # c
          BY <2>2, <4>1, <5>1, Constants
        <5> HIDE DEF d
        <5>3. N[d] = node[d]
          BY <2>2, <2>8, <5>1, <5>2
        <5> QED BY <2>13, <5>1, <5>2, <5>3 DEF d
      <4> QED BY <4>1, <4>2, <4>3, <4>4 DEF ChildrenOK
    <3> QED BY <2>2, <2>13, <3>1, <3>2 DEF Links
  <2>20. RingOK(N, h.last_leaf, T2, nxt)
    <3>1. \A q \in T2 : q \in Pages /\ q # n
      BY <2>13
    <3>2. NDX_LEAF_HEADER_PAGE \in Pages /\ NDX_LEAF_HEADER_PAGE # n /\ NDX_LEAF_HEADER_PAGE # c
      BY <1>1, <1>2, <2>2, Constants DEF Shape
    <3>3. first_leaf \in T /\ hdr.last_leaf \in T /\ node[first_leaf].is_leaf /\ node[hdr.last_leaf].is_leaf
      BY <1>1 DEF RingOK
    <3>4. first_leaf \in T2 /\ hdr.last_leaf \in T2
      BY <1>5, <2>13, <3>3 DEF n
    <3>5. ASSUME NEW p \in T2, N[p].is_leaf PROVE LeafOK(N, hdr.last_leaf, T2, nxt, p)
      <4>1. p \in T /\ node[p].is_leaf /\ p \in Pages /\ p # n
        BY <2>8, <2>13, <3>1, <3>5
      <4>2. LeafOK(node, hdr.last_leaf, T, nxt, p)
        BY <1>1, <4>1 DEF RingOK
      <4>3. nxt[p] # NDX_NO_PAGE => nxt[p] \in T2
        BY <2>17, <4>1
      <4>4. p # first_leaf => node[p].prev_leaf \in T2
        <5>1. p # first_leaf => node[p].prev_leaf \in T /\ nxt[node[p].prev_leaf] = p
          BY <4>2 DEF LeafOK
        <5>2. nxt[n] # p
          BY <2>2, <4>1, Constants
        <5> QED BY <2>13, <5>1, <5>2
      <4> QED BY <2>8, <3>1, <4>1, <4>2, <4>3, <4>4 DEF LeafOK
    <3>6. /\ N[first_leaf].is_leaf /\ N[hdr.last_leaf].is_leaf /\ nxt[hdr.last_leaf] = NDX_NO_PAGE
          /\ N[first_leaf].prev_leaf = NDX_LEAF_HEADER_PAGE
      BY <1>1, <2>8, <3>1, <3>4 DEF RingOK
    <3>7. N[NDX_LEAF_HEADER_PAGE] = IndexPageHeader(NDX_NO_PAGE, TRUE, hdr.last_leaf, first_leaf)
      <4>1. N[NDX_LEAF_HEADER_PAGE] = node[NDX_LEAF_HEADER_PAGE]
        BY <2>8, <3>2
      <4> QED BY <1>1, <4>1 DEF RingOK
    <3>8. RingOK(N, hdr.last_leaf, T2, nxt)
      BY <3>4, <3>5, <3>6, <3>7 DEF RingOK
    <3> QED BY <2>5, <3>8
  <2>21. KeysOK(N, T2, NDX_NO_PAGE)
    <3> SUFFICES ASSUME NEW p \in T2, ~N[p].is_leaf, NEW i \in DOMAIN N[p].rids
                 PROVE  N[p].keys[i] = Last(N[N[p].rids[i]].keys)
      BY DEF KeysOK
    <3>1. /\ p \in T /\ p \in Pages /\ p # n /\ ~node[p].is_leaf
          /\ N[p].rids = node[p].rids /\ N[p].keys = node[p].keys
      BY <2>2, <2>8, <2>13
    <3>2. node[p].rids[i] \in T /\ node[node[p].rids[i]].parent = p
      BY <1>1, <3>1 DEF Links, ChildrenOK
    <3>3. node[p].keys[i] = Last(node[node[p].rids[i]].keys)
      BY <1>1, <2>2, <3>1, <3>2, Constants DEF KeysOK
    <3>4. node[p].rids[i] # n /\ node[p].rids[i] \in Pages
      BY <2>2, <3>1, <3>2, Constants
    <3>5. N[node[p].rids[i]].keys = node[node[p].rids[i]].keys
      BY <2>8, <3>4
    <3> QED BY <3>1, <3>3, <3>5
  <2>22. Filled(N, h, T2, Idle)
    <3>1. /\ MinOf(h) = MinOf(hdr) /\ MinOf(hdr) \in Nat /\ MinOf(hdr) >= 2
      BY <1>1, <2>5, Fill DEF MinOf
    <3>2. \A q \in T2 : N[q].rids = node[q].rids
      BY <2>8, <2>13
    <3>3. \A p : Extra(work, "overflow", p) = 0
      BY <1>3 DEF Extra
    <3>4. \A p \in T2 : Extra(work, "underflow", p) = 0
      BY <1>3, <2>13 DEF Extra
    <3>5. \A p \in T2 : Len(N[p].rids) <= h.btree_order + Extra(Idle, "overflow", p)
      BY <1>1, <2>5, <2>13, <3>2, <3>3, IdleIs DEF Filled
    <3>6. \A p \in T2 : Len(N[p].rids) >= MinOf(h) - Extra(Idle, "underflow", p)
      BY <1>1, <1>2, <2>13, <3>1, <3>2, <3>4, IdleIs DEF Filled
    <3>7. ~(Len(N[c].rids) < 2)
      <4>1. Len(N[c].rids) >= MinOf(hdr) - 0 /\ Len(N[c].rids) \in Nat
        BY <2>2, <2>10, <2>13, <3>1, <3>6, IdleIs, PageIs
      <4> QED BY <3>1, <4>1
    <3> QED BY <2>5, <3>5, <3>6, <3>7, IdleIs DEF Filled
  <2>23. Ascending(N, T2, nxt)
    <3> SUFFICES ASSUME NEW p \in T2, N[p].is_leaf
                 PROVE  /\ \A i, j \in DOMAIN N[p].keys : i < j => N[p].keys[i] <= N[p].keys[j]
                        /\ nxt[p] # NDX_NO_PAGE => Last(N[p].keys) <= N[nxt[p]].keys[1]
      BY DEF Ascending
    <3>1. p \in T /\ node[p].is_leaf /\ N[p].keys = node[p].keys /\ p \in Pages
      BY <2>8, <2>13
    <3>2. nxt[p] # NDX_NO_PAGE => nxt[p] \in T2
      BY <2>17, <3>1
    <3>3. nxt[p] # NDX_NO_PAGE => N[nxt[p]].keys = node[nxt[p]].keys
      BY <2>8, <2>13, <3>2
    <3> QED BY <1>1, <3>1, <3>3 DEF Ascending
  <2>24. EntriesOK(N, T2)
    <3>1. \A p \in T2 : N[p].is_leaf =>
            p \in T /\ node[p].is_leaf /\ N[p].rids = node[p].rids /\ N[p].keys = node[p].keys
      BY <2>8, <2>13
    <3> QED BY <1>1, <3>1 DEF EntriesOK
  <2>25. Index(N, h, Idle, T2, lev2, nxt, <<n>> \o fl)
    BY <2>5, <2>10, <2>11, <2>14, <2>18, <2>19, <2>20, <2>21, <2>22, <2>23, <2>24, IdleIs DEF Index
  <2>26. SameEntries(N)
    <3>1. \A q \in Pages : N[q].is_leaf <=> node[q].is_leaf
      BY <1>5, <2>8, <2>9 DEF n
    <3>2. \A q \in Pages : node[q].is_leaf => N[q].keys = node[q].keys /\ N[q].rids = node[q].rids
      BY <1>5, <2>8 DEF n
    <3> QED BY <3>1, <3>2, SameLeaves
  <2> QED BY <1>2, <2>25, <2>26 DEF IInv, N, h
<1>6. Len(node[n].keys) \in Nat
  BY <1>1, <1>2, PageIs
<1> QED
  BY <1>4, <1>5, <1>6

\* A record with a field changed.
LEMMA SetParent ==
  ASSUME NEW r \in Nodes, NEW x \in PageOrNone, NEW q, q = [r EXCEPT !.parent = x]
  PROVE  /\ q \in Nodes /\ q.keys = r.keys /\ q.rids = r.rids /\ q.is_leaf = r.is_leaf
         /\ q.next_free = r.next_free /\ q.parent = x
         /\ q.next_leaf = r.next_leaf /\ q.prev_leaf = r.prev_leaf
BY DEF Nodes

LEMMA SetNext ==
  ASSUME NEW r \in Nodes, NEW x \in PageOrNone, NEW q, q = [r EXCEPT !.next_leaf = x]
  PROVE  /\ q \in Nodes /\ q.keys = r.keys /\ q.rids = r.rids /\ q.is_leaf = r.is_leaf
         /\ q.next_free = r.next_free /\ q.parent = r.parent
         /\ q.next_leaf = x /\ q.prev_leaf = r.prev_leaf
BY DEF Nodes

LEMMA SetPrev ==
  ASSUME NEW r \in Nodes, NEW x \in PageOrNone, NEW q, q = [r EXCEPT !.prev_leaf = x]
  PROVE  /\ q \in Nodes /\ q.keys = r.keys /\ q.rids = r.rids /\ q.is_leaf = r.is_leaf
         /\ q.next_free = r.next_free /\ q.parent = r.parent
         /\ q.next_leaf = r.next_leaf /\ q.prev_leaf = x
BY DEF Nodes

\* A node that is not the root and its place among its brothers.
LEMMA PlaceIs ==
  ASSUME NEW T, NEW lev, NEW nxt, Typed(node), Shape(T, lev, nxt), Links(node, hdr.root_page, T, lev, nxt),
         NEW n \in T, node[n].parent # NDX_NO_PAGE
  PROVE  LET p == node[n].parent
             i == FindChild(node[p], n)
         IN /\ p \in T /\ p \in Pages /\ n \in Pages /\ p # n /\ ~node[p].is_leaf
            /\ lev[p] = lev[n] + 1 /\ n # hdr.root_page
            /\ i \in 1 .. Len(node[p].rids) /\ node[p].rids[i] = n /\ IsInjective(node[p].rids)
            /\ \A j \in 1 .. Len(node[p].rids) : node[p].rids[j] = n => j = i
<1> DEFINE p == node[n].parent
           i == FindChild(node[p], n)
<1>1. ParentOK(node, hdr.root_page, T, lev, n)
  BY DEF Links
<1>2. /\ p \in T /\ ~node[p].is_leaf /\ lev[p] = lev[n] + 1 /\ n # hdr.root_page
      /\ n \in ToSet(node[p].rids)
  BY <1>1 DEF ParentOK
<1>3. p \in Pages /\ n \in Pages /\ lev[n] \in Nat
  BY <1>2 DEF Shape
<1>4. p # n
  BY <1>2, <1>3
<1>5. node[p].rids \in Seq(Pages)
  BY <1>2, <1>3, PageIs
<1>6. IsInjective(node[p].rids)
  BY <1>2 DEF Links, ChildrenOK
<1> HIDE DEF p
<1>7. /\ i \in 1 .. Len(node[p].rids) /\ node[p].rids[i] = n
      /\ \A j \in 1 .. Len(node[p].rids) : node[p].rids[j] = n => j = i
  BY <1>2, <1>5, <1>6, FindChildIs
<1> QED
  BY <1>2, <1>3, <1>4, <1>6, <1>7 DEF p

\* The pages after node n is split at s and its brother b put after it in p, at i.
Splits(N, n, p, i, b, s) ==
  /\ N[n].keys = SubSeq(node[n].keys, 1, s)
  /\ N[n].rids = SubSeq(node[n].rids, 1, s)
  /\ N[b].keys = SubSeq(node[n].keys, s + 1, Len(node[n].keys))
  /\ N[b].rids = SubSeq(node[n].rids, s + 1, Len(node[n].rids))
  /\ N[p].keys = InsertAt(node[p].keys, i, node[n].keys[s])
  /\ N[p].rids = InsertAt(node[p].rids, i + 1, b)
  /\ \A q \in Pages \ {n, p, b} : N[q].keys = node[q].keys /\ N[q].rids = node[q].rids
  /\ \A q \in Pages \ {b} : N[q].is_leaf = node[q].is_leaf /\ N[q].next_free = node[q].next_free
  /\ N[b].is_leaf = node[n].is_leaf /\ N[b].next_free = NDX_NO_PAGE
  /\ N[b].parent = p
  /\ \A q \in Pages \ {b} :
       N[q].parent = IF ~node[n].is_leaf /\ q \in ToSet(N[b].rids) THEN b ELSE node[q].parent
  /\ N[b].next_leaf = IF node[n].is_leaf THEN node[n].next_leaf ELSE NDX_NO_PAGE
  /\ \A q \in Pages \ {b} :
       N[q].next_leaf = IF node[n].is_leaf /\ q = n THEN b ELSE node[q].next_leaf
  /\ N[b].prev_leaf = IF node[n].is_leaf THEN n ELSE NDX_NO_PAGE
  /\ \A q \in Pages \ {b} :
       N[q].prev_leaf = IF node[n].is_leaf /\ q = node[n].next_leaf THEN b ELSE node[q].prev_leaf

LEMMA HalvedIs ==
  ASSUME Typed(node), NEW n \in Pages, NEW b \in Pages, NEW s, s \in 1 .. Len(node[n].rids) - 1,
         node[n].parent \in Pages, node[n].parent # n, b # n, b # node[n].parent,
         ~node[node[n].parent].is_leaf,
         FindChild(node[node[n].parent], n) \in 1 .. Len(node[node[n].parent].rids),
         node[n].is_leaf => node[n].next_leaf \in Pages \ {n, b, node[n].parent},
         ~node[n].is_leaf => b \notin ToSet(node[n].rids)
  PROVE  LET N == Halved(n, b, s) IN
         N \in [Pages -> Nodes] /\ Splits(N, n, node[n].parent, FindChild(node[node[n].parent], n), b, s)
<1> DEFINE N == Halved(n, b, s)
           p == node[n].parent
           i == FindChild(node[p], n)
           kn == SubSeq(node[n].keys, 1, s)
           rn == SubSeq(node[n].rids, 1, s)
           kb == SubSeq(node[n].keys, s + 1, Len(node[n].keys))
           rb == SubSeq(node[n].rids, s + 1, Len(node[n].rids))
           kp == InsertAt(node[p].keys, i, node[n].keys[s])
           rp == InsertAt(node[p].rids, i + 1, b)
           nl == node[n].next_leaf
           bro == IF node[n].is_leaf THEN IndexPageHeader(p, TRUE, n, nl)
                  ELSE IndexPageHeader(p, FALSE, NDX_NO_PAGE, NDX_NO_PAGE)
           cut == [node EXCEPT ![n].keys = kn, ![n].rids = rn, ![p].keys = kp, ![p].rids = rp,
                               ![b] = [bro EXCEPT !.keys = kb, !.rids = rb]]
<1>1. N = IF node[n].is_leaf THEN [cut EXCEPT ![n].next_leaf = b, ![nl].prev_leaf = b]
          ELSE Adopted(cut, b, cut[b].rids)
  BY DEF Halved
<1>2. /\ node[n] \in Nodes /\ node[p] \in Nodes /\ node[n].keys \in Seq(Keys) /\ node[p].keys \in Seq(Keys)
      /\ Len(node[n].keys) = Len(node[n].rids) /\ Len(node[n].rids) \in Nat
      /\ Len(node[p].keys) = Len(node[p].rids) /\ Len(node[p].rids) \in Nat
      /\ node[p].rids \in Seq(Pages) /\ node[n].is_leaf \in BOOLEAN
      /\ node[n].rids \in Seq(Rids) \/ node[n].rids \in Seq(Pages)
      /\ node[n].is_leaf => node[n].rids \in Seq(Rids)
      /\ ~node[n].is_leaf => node[n].rids \in Seq(Pages)
  BY PageIs
<1>3. kn \in Seq(Keys) /\ kb \in Seq(Keys)
  BY <1>2, SubSeqIs
<1>4. rn \in Seq(Rids) \cup Seq(Pages) /\ rb \in Seq(Rids) \cup Seq(Pages)
  <2>1. CASE node[n].is_leaf
    <3>1. rn \in Seq(Rids) /\ rb \in Seq(Rids)
      BY <1>2, <2>1, SubSeqIs
    <3> QED BY <3>1
  <2>2. CASE ~node[n].is_leaf
    <3>1. rn \in Seq(Pages) /\ rb \in Seq(Pages)
      BY <1>2, <2>2, SubSeqIs
    <3> QED BY <3>1
  <2> QED BY <2>1, <2>2
<1>5. kp \in Seq(Keys)
  <2>1. node[n].keys[s] \in Keys
    BY <1>2
  <2>2. i \in 1 .. Len(node[p].keys) + 1
    BY <1>2
  <2> QED BY <1>2, <2>1, <2>2, InsertAtIs
<1>6. rp \in Seq(Rids) \cup Seq(Pages)
  <2>1. i + 1 \in 1 .. Len(node[p].rids) + 1
    BY <1>2
  <2>2. rp \in Seq(Pages)
    BY <1>2, <2>1, InsertAtIs
  <2> QED BY <2>2
<1>7. /\ p \in PageOrNone /\ n \in PageOrNone /\ b \in PageOrNone /\ NDX_NO_PAGE \in PageOrNone
      /\ p \in Pages /\ p # n /\ p # b /\ b # n
      /\ node[n].is_leaf => nl \in Pages /\ nl # n /\ nl # b /\ nl # p
      /\ nl \in PageOrNone
  BY <1>2, PageIs DEF PageOrNone
<1>8. node \in [Pages -> Nodes]
  BY DEF Typed
<1> DEFINE B == [bro EXCEPT !.keys = kb, !.rids = rb]
<1>9. /\ B \in Nodes /\ B.next_free = NDX_NO_PAGE /\ B.parent = p /\ B.is_leaf = node[n].is_leaf
      /\ B.next_leaf = (IF node[n].is_leaf THEN nl ELSE NDX_NO_PAGE)
      /\ B.prev_leaf = (IF node[n].is_leaf THEN n ELSE NDX_NO_PAGE) /\ B.keys = kb /\ B.rids = rb
  <2> HIDE DEF kn, rn, kb, rb, kp, rp, nl, p
  <2>1. CASE node[n].is_leaf
    BY <1>2, <1>3, <1>4, <1>7, <2>1 DEF IndexPageHeader, Nodes
  <2>2. CASE ~node[n].is_leaf
    BY <1>2, <1>3, <1>4, <1>7, <2>2 DEF IndexPageHeader, Nodes
  <2> QED BY <2>1, <2>2, <1>2
<1>10. cut = [node EXCEPT ![n].keys = kn, ![n].rids = rn, ![p].keys = kp, ![p].rids = rp, ![b] = B]
  OBVIOUS
<1> HIDE DEF B, bro, cut, kn, rn, kb, rb, kp, rp, nl, p, N
<1>11. /\ DOMAIN cut = Pages
       /\ cut[b] = B
       /\ cut[n] = [node[n] EXCEPT !.keys = kn, !.rids = rn]
       /\ cut[p] = [node[p] EXCEPT !.keys = kp, !.rids = rp]
       /\ \A q \in Pages \ {n, p, b} : cut[q] = node[q]
  BY <1>7, <1>8, <1>10
<1>20. /\ cut[n] \in Nodes /\ cut[n].keys = kn /\ cut[n].rids = rn /\ cut[n].is_leaf = node[n].is_leaf
       /\ cut[n].next_free = node[n].next_free /\ cut[n].parent = node[n].parent
       /\ cut[n].next_leaf = node[n].next_leaf /\ cut[n].prev_leaf = node[n].prev_leaf
  <2>1. node[n] \in Nodes
    BY <1>2
  <2>2. rn \in Seq(Rids) \/ rn \in Seq(Pages)
    BY <1>4
  <2>3. kn \in Seq(Keys)
    BY <1>3
  <2>4. cut[n] = [node[n] EXCEPT !.keys = kn, !.rids = rn]
    BY <1>11
  <2> QED BY <2>1, <2>2, <2>3, <2>4 DEF Nodes
<1>21. /\ cut[p] \in Nodes /\ cut[p].keys = kp /\ cut[p].rids = rp /\ cut[p].is_leaf = node[p].is_leaf
       /\ cut[p].next_free = node[p].next_free /\ cut[p].parent = node[p].parent
       /\ cut[p].next_leaf = node[p].next_leaf /\ cut[p].prev_leaf = node[p].prev_leaf
  <2>1. node[p] \in Nodes
    BY <1>2
  <2>2. rp \in Seq(Rids) \/ rp \in Seq(Pages)
    BY <1>6
  <2>3. kp \in Seq(Keys)
    BY <1>5
  <2>4. cut[p] = [node[p] EXCEPT !.keys = kp, !.rids = rp]
    BY <1>11
  <2> QED BY <2>1, <2>2, <2>3, <2>4 DEF Nodes
<1>12. cut \in [Pages -> Nodes]
  <2>2. \A q \in Pages : cut[q] \in Nodes
    BY <1>8, <1>9, <1>11, <1>20, <1>21
  <2>3. cut = [q \in Pages |-> cut[q]]
    BY <1>10, <1>8
  <2> QED BY <2>2, <2>3
<1>13. /\ cut[n].keys = kn /\ cut[n].rids = rn /\ cut[p].keys = kp /\ cut[p].rids = rp
       /\ cut[b].keys = kb /\ cut[b].rids = rb
       /\ \A q \in Pages \ {n, p, b} : cut[q].keys = node[q].keys /\ cut[q].rids = node[q].rids
       /\ \A q \in Pages \ {b} :
            /\ cut[q].is_leaf = node[q].is_leaf /\ cut[q].next_free = node[q].next_free
            /\ cut[q].parent = node[q].parent /\ cut[q].next_leaf = node[q].next_leaf
            /\ cut[q].prev_leaf = node[q].prev_leaf
  <2>1. /\ cut[n].keys = kn /\ cut[n].rids = rn /\ cut[p].keys = kp /\ cut[p].rids = rp
        /\ cut[b].keys = kb /\ cut[b].rids = rb
    BY <1>9, <1>11, <1>20, <1>21
  <2>2. \A q \in Pages \ {n, p, b} : cut[q].keys = node[q].keys /\ cut[q].rids = node[q].rids
    BY <1>11
  <2>3. ASSUME NEW q \in Pages \ {b}
        PROVE  /\ cut[q].is_leaf = node[q].is_leaf /\ cut[q].next_free = node[q].next_free
               /\ cut[q].parent = node[q].parent /\ cut[q].next_leaf = node[q].next_leaf
               /\ cut[q].prev_leaf = node[q].prev_leaf
    <3>1. q = n \/ q = p \/ cut[q] = node[q]
      BY <1>11
    <3> QED BY <1>20, <1>21, <3>1
  <2> QED BY <2>1, <2>2, <2>3
<1>14. CASE node[n].is_leaf
  <2>1. N = [cut EXCEPT ![n].next_leaf = b, ![nl].prev_leaf = b]
    BY <1>1, <1>14
  <2>2. /\ N[n] = [cut[n] EXCEPT !.next_leaf = b]
        /\ N[nl] = [cut[nl] EXCEPT !.prev_leaf = b]
        /\ \A q \in Pages \ {n, nl} : N[q] = cut[q]
        /\ DOMAIN N = Pages
    BY <1>7, <1>12, <1>14, <2>1
  <2>3. \A q \in Pages : N[q] \in Nodes
    BY <1>7, <1>12, <1>14, <2>2, SetNext, SetPrev
  <2>4. N \in [Pages -> Nodes]
    <3>1. N = [q \in Pages |-> N[q]]
      BY <1>12, <2>1
    <3> QED BY <2>3, <3>1
  <2>5. \A q \in Pages :
          /\ N[q].keys = cut[q].keys /\ N[q].rids = cut[q].rids /\ N[q].is_leaf = cut[q].is_leaf
          /\ N[q].next_free = cut[q].next_free /\ N[q].parent = cut[q].parent
          /\ N[q].next_leaf = (IF q = n THEN b ELSE cut[q].next_leaf)
          /\ N[q].prev_leaf = (IF q = nl THEN b ELSE cut[q].prev_leaf)
    BY <1>7, <1>12, <1>14, <2>2, SetNext, SetPrev
  <2>6. Splits(N, n, p, i, b, s)
    <3>1. /\ N[b].is_leaf = node[n].is_leaf /\ N[b].next_free = NDX_NO_PAGE /\ N[b].parent = p
          /\ N[b].next_leaf = nl /\ N[b].prev_leaf = n
      BY <1>7, <1>9, <1>11, <1>14, <2>5
    <3>2. \A q \in Pages \ {b} :
            /\ N[q].is_leaf = node[q].is_leaf /\ N[q].next_free = node[q].next_free
            /\ N[q].parent = node[q].parent
            /\ N[q].next_leaf = (IF q = n THEN b ELSE node[q].next_leaf)
            /\ N[q].prev_leaf = (IF q = nl THEN b ELSE node[q].prev_leaf)
      BY <1>13, <2>5
    <3>3. /\ N[n].keys = kn /\ N[n].rids = rn /\ N[p].keys = kp /\ N[p].rids = rp
          /\ N[b].keys = kb /\ N[b].rids = rb
          /\ \A q \in Pages \ {n, p, b} : N[q].keys = node[q].keys /\ N[q].rids = node[q].rids
      BY <1>7, <1>13, <2>5
    <3> QED BY <1>14, <3>1, <3>2, <3>3 DEF Splits, kn, rn, kb, rb, kp, rp, nl
  <2> QED BY <2>4, <2>6 DEF N, p
<1>15. CASE ~node[n].is_leaf
  <2>1. ~cut[b].is_leaf /\ cut[b].rids = rb
    BY <1>9, <1>11, <1>15
  <2>2. N = [c \in Pages |-> IF c \in ToSet(rb) THEN [cut[c] EXCEPT !.parent = b] ELSE cut[c]]
    BY <1>1, <1>15, <2>1 DEF Adopted
  <2>3. \A q \in Pages : N[q] = IF q \in ToSet(rb) THEN [cut[q] EXCEPT !.parent = b] ELSE cut[q]
    BY <2>2
  <2>4. N \in [Pages -> Nodes]
    <3>1. \A q \in Pages : [cut[q] EXCEPT !.parent = b] \in Nodes
      BY <1>7, <1>12 DEF Nodes
    <3> QED BY <1>12, <2>2, <3>1
  <2>5. \A q \in Pages :
          /\ N[q].keys = cut[q].keys /\ N[q].rids = cut[q].rids /\ N[q].is_leaf = cut[q].is_leaf
          /\ N[q].next_free = cut[q].next_free /\ N[q].next_leaf = cut[q].next_leaf
          /\ N[q].prev_leaf = cut[q].prev_leaf
          /\ N[q].parent = IF q \in ToSet(rb) THEN b ELSE cut[q].parent
    <3> SUFFICES ASSUME NEW q \in Pages
                 PROVE  /\ N[q].keys = cut[q].keys /\ N[q].rids = cut[q].rids /\ N[q].is_leaf = cut[q].is_leaf
                        /\ N[q].next_free = cut[q].next_free /\ N[q].next_leaf = cut[q].next_leaf
                        /\ N[q].prev_leaf = cut[q].prev_leaf
                        /\ N[q].parent = IF q \in ToSet(rb) THEN b ELSE cut[q].parent
      OBVIOUS
    <3>1. cut[q] \in Nodes
      BY <1>12
    <3>2. N[q] = IF q \in ToSet(rb) THEN [cut[q] EXCEPT !.parent = b] ELSE cut[q]
      BY <2>3
    <3> QED BY <3>1, <3>2 DEF Nodes
  <2>6. b \notin ToSet(rb)
    <3>1. \A j \in 1 .. Len(rb) : rb[j] = node[n].rids[s + j]
      BY <1>2, <1>15, SubSeqIs DEF rb
    <3>2. \A j \in 1 .. Len(rb) : s + j \in 1 .. Len(node[n].rids)
      BY <1>2, <1>15, SubSeqIs DEF rb
    <3>3. rb \in Seq(Pages) /\ node[n].rids \in Seq(Pages)
      BY <1>2, <1>15, SubSeqIs DEF rb
    <3> QED BY <1>15, <3>1, <3>2, <3>3, InToSet
  <2>7. Splits(N, n, p, i, b, s)
    <3>1. /\ N[b].is_leaf = node[n].is_leaf /\ N[b].next_free = NDX_NO_PAGE /\ N[b].parent = p
          /\ N[b].next_leaf = NDX_NO_PAGE /\ N[b].prev_leaf = NDX_NO_PAGE
      BY <1>7, <1>9, <1>11, <1>15, <2>5, <2>6
    <3>2. \A q \in Pages \ {b} :
            /\ N[q].is_leaf = node[q].is_leaf /\ N[q].next_free = node[q].next_free
            /\ N[q].parent = (IF q \in ToSet(rb) THEN b ELSE node[q].parent)
            /\ N[q].next_leaf = node[q].next_leaf
            /\ N[q].prev_leaf = node[q].prev_leaf
      BY <1>13, <2>5
    <3>3. /\ N[n].keys = kn /\ N[n].rids = rn /\ N[p].keys = kp /\ N[p].rids = rp
          /\ N[b].keys = kb /\ N[b].rids = rb
          /\ \A q \in Pages \ {n, p, b} : N[q].keys = node[q].keys /\ N[q].rids = node[q].rids
      BY <1>7, <1>13, <2>5
    <3> QED BY <1>15, <3>1, <3>2, <3>3 DEF Splits, kn, rn, kb, rb, kp, rp
  <2> QED BY <2>4, <2>7 DEF N, p
<1> QED
  BY <1>14, <1>15

\* The lists of the three nodes of a split, place by place.
Parts(N, n, p, i, b, s) ==
  LET m == Len(node[n].rids)
      c == Len(node[p].rids)
  IN /\ m \in Nat /\ s \in Nat /\ s >= 1 /\ s < m /\ c \in Nat /\ i \in Nat
     /\ Len(N[n].rids) = s /\ Len(N[n].keys) = s
     /\ Len(N[b].rids) = m - s /\ Len(N[b].keys) = m - s
     /\ Len(N[p].rids) = c + 1 /\ Len(N[p].keys) = c + 1
     /\ DOMAIN N[n].rids = 1 .. s /\ DOMAIN N[b].rids = 1 .. m - s /\ DOMAIN N[p].rids = 1 .. c + 1
     /\ DOMAIN N[n].keys = 1 .. s /\ DOMAIN N[b].keys = 1 .. m - s
     /\ \A j \in 1 .. s : N[n].rids[j] = node[n].rids[j] /\ N[n].keys[j] = node[n].keys[j]
     /\ \A j \in 1 .. m - s :
          N[b].rids[j] = node[n].rids[s + j] /\ N[b].keys[j] = node[n].keys[s + j]
     /\ \A j \in 1 .. c + 1 :
          /\ N[p].rids[j] = IF j <= i THEN node[p].rids[j] ELSE IF j = i + 1 THEN b ELSE node[p].rids[j - 1]
          /\ N[p].keys[j] = IF j < i THEN node[p].keys[j] ELSE IF j = i THEN node[n].keys[s]
                            ELSE node[p].keys[j - 1]
     /\ N[n].keys \in Seq(Keys) /\ N[b].keys \in Seq(Keys) /\ N[p].keys \in Seq(Keys)
     /\ N[p].rids \in Seq(Pages)
     /\ node[n].is_leaf => N[n].rids \in Seq(Rids) /\ N[b].rids \in Seq(Rids)
     /\ ~node[n].is_leaf => N[n].rids \in Seq(Pages) /\ N[b].rids \in Seq(Pages)

LEMMA SplitLists ==
  ASSUME NEW N, Typed(node), NEW n \in Pages, NEW p \in Pages, NEW b \in Pages, NEW i, NEW s,
         Splits(N, n, p, i, b, s), s \in 1 .. Len(node[n].rids) - 1,
         i \in 1 .. Len(node[p].rids), ~node[p].is_leaf, p # n
  PROVE  Parts(N, n, p, i, b, s)
<1> DEFINE m == Len(node[n].rids)
           c == Len(node[p].rids)
           R == IF node[n].is_leaf THEN Rids ELSE Pages
<1>1. /\ node[n].keys \in Seq(Keys) /\ Len(node[n].keys) = m /\ m \in Nat /\ node[n].rids \in Seq(R)
      /\ node[p].keys \in Seq(Keys) /\ Len(node[p].keys) = c /\ c \in Nat /\ node[p].rids \in Seq(Pages)
  BY PageIs
<1>2. s \in Nat /\ s >= 1 /\ s < m /\ i \in Nat /\ i + 1 \in 1 .. c + 1
  BY <1>1
<1>3. /\ N[n].keys = SubSeq(node[n].keys, 1, s) /\ N[n].rids = SubSeq(node[n].rids, 1, s)
      /\ N[b].keys = SubSeq(node[n].keys, s + 1, m)
      /\ N[b].rids = SubSeq(node[n].rids, s + 1, m)
      /\ N[p].keys = InsertAt(node[p].keys, i, node[n].keys[s])
      /\ N[p].rids = InsertAt(node[p].rids, i + 1, b)
  BY <1>1 DEF Splits
<1> HIDE DEF m, R
<1>4. /\ N[n].keys \in Seq(Keys) /\ Len(N[n].keys) = s
      /\ \A j \in 1 .. s : N[n].keys[j] = node[n].keys[j]
  BY <1>1, <1>2, <1>3
<1>5. /\ N[n].rids \in Seq(R) /\ Len(N[n].rids) = s
      /\ \A j \in 1 .. s : N[n].rids[j] = node[n].rids[j]
  BY <1>1, <1>2, <1>3 DEF m
<1>6. /\ N[b].keys \in Seq(Keys) /\ Len(N[b].keys) = m - s
      /\ \A j \in 1 .. m - s : N[b].keys[j] = node[n].keys[s + j]
  BY <1>1, <1>2, <1>3
<1>7. /\ N[b].rids \in Seq(R) /\ Len(N[b].rids) = m - s
      /\ \A j \in 1 .. m - s : N[b].rids[j] = node[n].rids[s + j]
  BY <1>1, <1>2, <1>3, SMTT(30) DEF m
<1> HIDE DEF c
<1>8. /\ N[p].keys \in Seq(Keys) /\ Len(N[p].keys) = c + 1
      /\ \A j \in 1 .. c + 1 : N[p].keys[j] = IF j < i THEN node[p].keys[j] ELSE IF j = i THEN node[n].keys[s]
                                   ELSE node[p].keys[j - 1]
  <2> DEFINE x == node[n].keys[s]
             t == node[p].keys
  <2>1. x \in Keys /\ t \in Seq(Keys) /\ i \in 1 .. Len(t) + 1
    BY <1>1, <1>2
  <2>2. N[p].keys = InsertAt(t, i, x) /\ Len(t) = c
    BY <1>1, <1>3
  <2> HIDE DEF x, t
  <2>3. /\ InsertAt(t, i, x) \in Seq(Keys) /\ Len(InsertAt(t, i, x)) = Len(t) + 1
        /\ \A j \in 1 .. Len(t) + 1 :
             InsertAt(t, i, x)[j] = IF j < i THEN t[j] ELSE IF j = i THEN x ELSE t[j - 1]
    BY <2>1, InsertAtIs
  <2> QED BY <2>2, <2>3 DEF x, t
<1>9. /\ N[p].rids \in Seq(Pages) /\ Len(N[p].rids) = c + 1
      /\ \A j \in 1 .. c + 1 :
           N[p].rids[j] = IF j < i + 1 THEN node[p].rids[j] ELSE IF j = i + 1 THEN b ELSE node[p].rids[j - 1]
  <2> DEFINE t == node[p].rids
             k == i + 1
  <2>1. t \in Seq(Pages) /\ k \in 1 .. Len(t) + 1
    BY <1>1, <1>2 DEF c
  <2>2. N[p].rids = InsertAt(t, k, b) /\ Len(t) = c
    BY <1>3 DEF c
  <2> HIDE DEF t, k
  <2>3. /\ InsertAt(t, k, b) \in Seq(Pages) /\ Len(InsertAt(t, k, b)) = Len(t) + 1
        /\ \A j \in 1 .. Len(t) + 1 :
             InsertAt(t, k, b)[j] = IF j < k THEN t[j] ELSE IF j = k THEN b ELSE t[j - 1]
    BY <2>1, InsertAtIs
  <2> QED BY <2>2, <2>3 DEF t, k
<1>10. \A j \in 1 .. c + 1 :
         N[p].rids[j] = IF j <= i THEN node[p].rids[j] ELSE IF j = i + 1 THEN b ELSE node[p].rids[j - 1]
  BY <1>1, <1>2, <1>9
<1>11. /\ DOMAIN N[n].rids = 1 .. s /\ DOMAIN N[b].rids = 1 .. m - s /\ DOMAIN N[p].rids = 1 .. c + 1
       /\ DOMAIN N[n].keys = 1 .. s /\ DOMAIN N[b].keys = 1 .. m - s
  BY <1>4, <1>5, <1>6, <1>7, <1>9
<1>12. /\ node[n].is_leaf => N[n].rids \in Seq(Rids) /\ N[b].rids \in Seq(Rids)
       /\ ~node[n].is_leaf => N[n].rids \in Seq(Pages) /\ N[b].rids \in Seq(Pages)
  BY <1>5, <1>7 DEF R
<1> QED
  BY <1>1, <1>2, <1>4, <1>5, <1>6, <1>7, <1>8, <1>9, <1>10, <1>11, <1>12 DEF Parts, m, c

\* A child of a node, and its neighbour.
LEMMA ChildIs ==
  ASSUME NEW T, NEW lev, NEW nxt, Typed(node), Shape(T, lev, nxt), Links(node, hdr.root_page, T, lev, nxt),
         NEW p \in T, ~node[p].is_leaf, NEW i \in 1 .. Len(node[p].rids)
  PROVE  LET c == node[p].rids[i] IN
         /\ c \in T /\ c \in Pages /\ p \in Pages /\ node[c].parent = p /\ c # p /\ c # hdr.root_page
         /\ lev[p] = lev[c] + 1 /\ lev[c] \in Nat
         /\ nxt[c] = IF i < Len(node[p].rids) THEN node[p].rids[i + 1] ELSE FirstOfNext(node, nxt, p)
<1> DEFINE c == node[p].rids[i]
<1>1. p \in Pages /\ DOMAIN node[p].rids = 1 .. Len(node[p].rids)
  <2>1. p \in Pages
    BY DEF Shape
  <2> QED BY <2>1, PageIs
<1>2. /\ c \in T /\ node[c].parent = p
      /\ nxt[c] = IF i < Len(node[p].rids) THEN node[p].rids[i + 1] ELSE FirstOfNext(node, nxt, p)
  BY <1>1 DEF Links, ChildrenOK
<1> HIDE DEF c
<1>3. c \in Pages /\ lev[c] \in Nat
  BY <1>2 DEF Shape
<1>4. c # hdr.root_page
  BY <1>1, <1>2, Constants DEF Links, ParentOK
<1>5. lev[p] = lev[c] + 1
  BY <1>2, <1>4 DEF Links, ParentOK
<1>6. c # p
  BY <1>3, <1>5
<1> QED
  BY <1>1, <1>2, <1>3, <1>4, <1>5, <1>6 DEF c

LEMMA InnerIs ==
  ASSUME NEW T, NEW lev, NEW nxt, Typed(node), Shape(T, lev, nxt), Links(node, hdr.root_page, T, lev, nxt),
         NEW p \in T
  PROVE  /\ p \in Pages /\ lev[p] \in Nat /\ lev[p] <= lev[hdr.root_page] /\ lev[hdr.root_page] \in Nat
         /\ node[p].is_leaf <=> lev[p] = 0
         /\ ~node[p].is_leaf =>
              1 \in 1 .. Len(node[p].rids) /\ Len(node[p].rids) \in 1 .. Len(node[p].rids)
         /\ nxt[p] # NDX_NO_PAGE => nxt[p] \in T /\ lev[nxt[p]] = lev[p] /\ nxt[p] \in Pages
<1>1. p \in Pages /\ lev[p] \in Nat /\ hdr.root_page \in T /\ hdr.root_page \in Pages /\ lev[hdr.root_page] \in Nat
  BY DEF Shape, Links
<1>2. (node[p].is_leaf <=> lev[p] = 0) /\ lev[p] <= lev[hdr.root_page]
  BY DEF Links, ParentOK
<1>3. ASSUME ~node[p].is_leaf
      PROVE  1 \in 1 .. Len(node[p].rids) /\ Len(node[p].rids) \in 1 .. Len(node[p].rids)
  <2>1. node[p].rids # << >>
    BY <1>3 DEF Links, ChildrenOK
  <2>2. node[p].rids \in Seq(Pages)
    BY <1>1, <1>3, PageIs
  <2> QED BY <2>1, <2>2
<1>4. nxt[p] # NDX_NO_PAGE => nxt[p] \in T /\ lev[nxt[p]] = lev[p] /\ nxt[p] \in Pages
  BY <1>1 DEF Shape
<1> QED
  BY <1>1, <1>2, <1>3, <1>4

\* No node is the next of itself.
LEMMA NextOther ==
  ASSUME NEW T, NEW lev, NEW nxt, Typed(node), Shape(T, lev, nxt), Links(node, hdr.root_page, T, lev, nxt)
  PROVE  \A q \in T : nxt[q] # q
<1> DEFINE Bad == {q \in T : nxt[q] = q}
           K == lev[hdr.root_page]
           rank == [q \in Pages |-> K - lev[q]]
<1> SUFFICES ASSUME Bad # {} PROVE FALSE
  OBVIOUS
<1>1. \A q \in T : rank[q] \in Nat
  BY InnerIs
<1>2. \E q \in Bad : \A r \in Bad : rank[q] <= rank[r]
  <2>1. \A q \in Bad : rank[q] \in Nat
    BY <1>1
  <2> HIDE DEF Bad, rank
  <2> QED BY <2>1, LeastRank
<1>3. PICK q \in Bad : \A r \in Bad : rank[q] <= rank[r]
  BY <1>2
<1>4. q \in T /\ nxt[q] = q /\ q \in Pages
  BY InnerIs
<1>5. node[q].parent # NDX_NO_PAGE
  <2>1. q # NDX_NO_PAGE
    BY <1>4, Constants
  <2> QED BY <1>4, <2>1 DEF Links, ParentOK
<1> DEFINE p == node[q].parent
           i == FindChild(node[p], q)
           c == Len(node[p].rids)
<1>6. /\ p \in T /\ p \in Pages /\ ~node[p].is_leaf /\ lev[p] = lev[q] + 1
      /\ i \in 1 .. c /\ node[p].rids[i] = q
      /\ \A j \in 1 .. c : node[p].rids[j] = q => j = i
  BY <1>4, <1>5, PlaceIs
<1>7. nxt[q] = IF i < c THEN node[p].rids[i + 1] ELSE FirstOfNext(node, nxt, p)
  BY <1>6, ChildIs
<1>8. c \in Nat
  BY <1>6, PageIs
<1>9. ~(i < c)
  <2> SUFFICES ASSUME i < c PROVE FALSE
    OBVIOUS
  <2> HIDE DEF i, c, p
  <2>1. i + 1 \in 1 .. c /\ i + 1 # i /\ node[p].rids[i + 1] = q
    BY <1>4, <1>6, <1>7, <1>8
  <2> QED BY <1>6, <2>1
<1>10. q = FirstOfNext(node, nxt, p)
  BY <1>4, <1>7, <1>9
<1> DEFINE x == nxt[p]
<1>11. x # NDX_NO_PAGE /\ q = node[x].rids[1]
  BY <1>4, <1>10, Constants DEF FirstOfNext
<1>12. x \in T /\ x \in Pages /\ lev[x] = lev[p] /\ lev[p] \in Nat /\ lev[q] \in Nat
  BY <1>4, <1>6, <1>11, InnerIs
<1>13. ~node[x].is_leaf
  <2> HIDE DEF x, p
  <2>1. lev[x] # 0
    BY <1>6, <1>12
  <2> QED BY <1>12, <2>1, InnerIs
<1>14. 1 \in 1 .. Len(node[x].rids)
  BY <1>12, <1>13, InnerIs
<1>15. node[q].parent = x
  BY <1>11, <1>12, <1>13, <1>14, ChildIs
<1>16. p \in Bad
  BY <1>6, <1>15
<1>17. rank[p] < rank[q]
  <2>1. K \in Nat /\ rank[p] = K - lev[p] /\ rank[q] = K - lev[q]
    BY <1>4, <1>6, InnerIs
  <2> HIDE DEF rank, p
  <2> QED BY <1>6, <1>12, <2>1
<1>18. rank[p] \in Nat /\ rank[q] \in Nat
  BY <1>1, <1>4, <1>6
<1> HIDE DEF rank, Bad, p
<1> QED
  BY <1>3, <1>16, <1>17, <1>18

LEMMA SplitStep ==
  ASSUME NEW T, NEW lev, NEW nxt, NEW fl, Index(node, hdr, work, T, lev, nxt, fl), Split
  PROVE  IInv' /\ SameEntries(node')
<1> DEFINE n == work.page
           b == NewPage
           N == node'
           h == hdr'
           p == node[n].parent
           i == FindChild(node[p], n)
           m == Len(node[n].rids)
           s == m \div 2
           c == Len(node[p].rids)
           root == hdr.root_page
<1>1. /\ Typed(node) /\ hdr \in Header /\ work \in Works /\ FreeList(node, hdr, T, fl)
      /\ Blank(node, T) /\ Shape(T, lev, nxt) /\ Links(node, hdr.root_page, T, lev, nxt)
      /\ RingOK(node, hdr.last_leaf, T, nxt) /\ KeysOK(node, T, NDX_NO_PAGE)
      /\ Filled(node, hdr, T, work) /\ Ascending(node, T, nxt) /\ EntriesOK(node, T)
  BY DEF Index
<1>2. /\ n \in T /\ n \in Pages /\ work.todo = "overflow" /\ node[n].parent # NDX_NO_PAGE
      /\ m = hdr.btree_order + 1
  BY <1>1 DEF Split, Filled, Shape
<1>3. /\ work = [todo |-> "overflow", page |-> n]
      /\ hdr.btree_order \in Nat /\ hdr.btree_order >= 3 /\ MinOf(hdr) = s
  BY <1>1, <1>2, Fill DEF Works, MinOf
<1>4. /\ T \subseteq Pages \ {NDX_LEAF_HEADER_PAGE}
      /\ b \in Pages /\ b \notin T /\ b # NDX_LEAF_HEADER_PAGE /\ b # NDX_NO_PAGE
      /\ HeaderAfterNew \in Header /\ HeaderAfterNew.btree_order = hdr.btree_order
      /\ HeaderAfterNew.last_leaf = hdr.last_leaf /\ HeaderAfterNew.root_page = root
  <2>1. T \subseteq Pages \ {NDX_LEAF_HEADER_PAGE} /\ b \in Pages
    BY <1>1 DEF Shape, Split
  <2> QED BY <1>1, <2>1, NewPageIs, Constants
<1>5. /\ h = [HeaderAfterNew EXCEPT !.last_leaf = IF @ = n THEN b ELSE @]
      /\ N = Halved(n, b, s) /\ work' = OverflowAt(N, p)
  BY DEF Split
<1>6. /\ h \in Header /\ h.btree_order = hdr.btree_order /\ h.root_page = root
      /\ h.last_leaf = (IF hdr.last_leaf = n THEN b ELSE hdr.last_leaf)
      /\ h.first_free = HeaderAfterNew.first_free /\ h.num_pages = HeaderAfterNew.num_pages
  BY <1>4, <1>5 DEF Header
<1>7. /\ p \in T /\ p \in Pages /\ p # n /\ ~node[p].is_leaf /\ lev[p] = lev[n] + 1 /\ n # root
      /\ i \in 1 .. c /\ node[p].rids[i] = n /\ IsInjective(node[p].rids)
      /\ \A j \in 1 .. c : node[p].rids[j] = n => j = i
  BY <1>1, <1>2, PlaceIs
<1>8. s \in 1 .. m - 1 /\ 2 * s <= m /\ s >= 2
  BY <1>2, <1>3
<1>9. /\ lev \in [Pages -> Nat] /\ nxt \in [Pages -> T \cup {NDX_NO_PAGE}]
      /\ lev[n] \in Nat /\ lev[p] \in Nat /\ nxt[n] # n /\ nxt[n] # p
      /\ \A q \in T : node[q].is_leaf <=> lev[q] = 0
  <2>1. lev \in [Pages -> Nat] /\ nxt \in [Pages -> T \cup {NDX_NO_PAGE}] /\ lev[n] \in Nat /\ lev[p] \in Nat
    BY <1>1, <1>2, <1>7 DEF Shape
  <2>2. \A q \in T : node[q].is_leaf <=> lev[q] = 0
    BY <1>1 DEF Links, ParentOK
  <2>3. nxt[n] # p
    <3>1. nxt[n] = p => lev[p] = lev[n]
      BY <1>1, <1>2, <1>7, Constants DEF Shape
    <3>2. lev[p] = lev[n] + 1
      BY <1>7
    <3> QED BY <2>1, <3>1, <3>2
  <2>4. nxt[n] # n
    BY <1>1, <1>2, NextOther
  <2> QED BY <2>1, <2>2, <2>3, <2>4
<1>10. N \in [Pages -> Nodes] /\ Splits(N, n, p, i, b, s)
  <2>1. node[n].is_leaf => node[n].next_leaf \in Pages \ {n, b, p}
    <3> SUFFICES ASSUME node[n].is_leaf PROVE node[n].next_leaf \in Pages \ {n, b, p}
      OBVIOUS
    <3>1. LeafOK(node, hdr.last_leaf, T, nxt, n)
      BY <1>1, <1>2 DEF RingOK
    <3>2. nxt[n] \in T \cup {NDX_NO_PAGE}
      BY <1>2, <1>9
    <3>3. NDX_LEAF_HEADER_PAGE \in Pages
      BY Constants
    <3>4. NDX_LEAF_HEADER_PAGE # n /\ NDX_LEAF_HEADER_PAGE # p
      BY <1>2, <1>4, <1>7
    <3>5. node[n].next_leaf = nxt[n] \/ node[n].next_leaf = NDX_LEAF_HEADER_PAGE
      BY <3>1 DEF LeafOK
    <3>6. nxt[n] = NDX_NO_PAGE => node[n].next_leaf = NDX_LEAF_HEADER_PAGE
      BY <3>1 DEF LeafOK
    <3> QED BY <1>4, <1>9, <3>2, <3>3, <3>4, <3>5, <3>6
  <2>2. b \notin ToSet(node[n].rids) \/ node[n].is_leaf
    <3> SUFFICES ASSUME ~node[n].is_leaf, b \in ToSet(node[n].rids) PROVE FALSE
      OBVIOUS
    <3>1. node[n].rids \in Seq(Pages)
      BY <1>1, <1>2, PageIs
    <3>2. PICK j \in 1 .. m : node[n].rids[j] = b
      BY <3>1, InToSet
    <3> QED BY <1>1, <1>2, <1>4, <3>2, ChildIs
  <2> QED BY <1>1, <1>2, <1>4, <1>5, <1>7, <1>8, <2>1, <2>2, HalvedIs
<1> DEFINE T2 == T \cup {b}
           lev2 == [lev EXCEPT ![b] = lev[n]]
           nxt2 == [nxt EXCEPT ![n] = b, ![b] = nxt[n]]
<1> HIDE DEF N, h
<1>30. Parts(N, n, p, i, b, s)
  <2>1. Typed(node) /\ Splits(N, n, p, i, b, s)
    BY <1>1, <1>10
  <2>2. /\ n \in Pages /\ p \in Pages /\ b \in Pages /\ s \in 1 .. Len(node[n].rids) - 1
        /\ i \in 1 .. Len(node[p].rids) /\ ~node[p].is_leaf /\ p # n
    BY <1>2, <1>4, <1>7, <1>8
  <2> HIDE DEF n, p, b, i, s
  <2> QED BY <2>1, <2>2, SplitLists
<1>11. Typed(N)
  <2>1. ASSUME NEW q \in Pages
        PROVE  /\ Len(N[q].keys) = Len(N[q].rids)
               /\ N[q].rids \in IF N[q].is_leaf THEN Seq(Rids) ELSE Seq(Pages)
    <3>1. CASE q \in {n, p, b}
      <4>1. /\ N[n].is_leaf = node[n].is_leaf /\ N[b].is_leaf = node[n].is_leaf
            /\ N[p].is_leaf = node[p].is_leaf
        BY <1>2, <1>4, <1>7, <1>10 DEF Splits
      <4>2. /\ Len(N[n].rids) = s /\ Len(N[n].keys) = s
            /\ Len(N[b].rids) = m - s /\ Len(N[b].keys) = m - s
            /\ Len(N[p].rids) = c + 1 /\ Len(N[p].keys) = c + 1
            /\ N[p].rids \in Seq(Pages)
            /\ node[n].is_leaf => N[n].rids \in Seq(Rids) /\ N[b].rids \in Seq(Rids)
            /\ ~node[n].is_leaf => N[n].rids \in Seq(Pages) /\ N[b].rids \in Seq(Pages)
        BY <1>30 DEF Parts
      <4> QED BY <1>7, <3>1, <4>1, <4>2
    <3>2. CASE q \notin {n, p, b}
      BY <1>1, <1>10, <3>2 DEF Typed, Splits
    <3> QED BY <3>1, <3>2
  <2> QED BY <1>10, <2>1 DEF Typed
<1> HIDE DEF n, p, i, b, m, c, s
<1>12. /\ m \in Nat /\ s \in Nat /\ s >= 1 /\ s < m /\ c \in Nat /\ i \in Nat
       /\ Len(N[n].rids) = s /\ Len(N[n].keys) = s
       /\ Len(N[b].rids) = m - s /\ Len(N[b].keys) = m - s
       /\ Len(N[p].rids) = c + 1 /\ Len(N[p].keys) = c + 1
       /\ DOMAIN N[n].rids = 1 .. s /\ DOMAIN N[b].rids = 1 .. m - s /\ DOMAIN N[p].rids = 1 .. c + 1
       /\ DOMAIN N[n].keys = 1 .. s /\ DOMAIN N[b].keys = 1 .. m - s
       /\ N[n].keys \in Seq(Keys) /\ N[b].keys \in Seq(Keys) /\ N[p].keys \in Seq(Keys)
  BY <1>30 DEF Parts, m, c
<1>13. /\ \A j \in 1 .. s : N[n].rids[j] = node[n].rids[j] /\ N[n].keys[j] = node[n].keys[j]
       /\ \A j \in 1 .. m - s :
            N[b].rids[j] = node[n].rids[s + j] /\ N[b].keys[j] = node[n].keys[s + j]
       /\ \A j \in 1 .. c + 1 :
            /\ N[p].rids[j] = IF j <= i THEN node[p].rids[j] ELSE IF j = i + 1 THEN b ELSE node[p].rids[j - 1]
            /\ N[p].keys[j] = IF j < i THEN node[p].keys[j] ELSE IF j = i THEN node[n].keys[s]
                              ELSE node[p].keys[j - 1]
  BY <1>30 DEF Parts, m, c
<1>14. /\ \A q \in Pages \ {n, p, b} : N[q].keys = node[q].keys /\ N[q].rids = node[q].rids
       /\ \A q \in Pages \ {b} : N[q].is_leaf = node[q].is_leaf /\ N[q].next_free = node[q].next_free
       /\ N[b].is_leaf = node[n].is_leaf /\ N[b].next_free = NDX_NO_PAGE
  BY <1>10 DEF Splits
<1>15. /\ N[b].parent = p
       /\ \A q \in Pages \ {b} :
            N[q].parent = IF ~node[n].is_leaf /\ q \in ToSet(N[b].rids) THEN b ELSE node[q].parent
  BY <1>10 DEF Splits
<1>16. /\ N[b].next_leaf = IF node[n].is_leaf THEN node[n].next_leaf ELSE NDX_NO_PAGE
       /\ \A q \in Pages \ {b} :
            N[q].next_leaf = IF node[n].is_leaf /\ q = n THEN b ELSE node[q].next_leaf
       /\ N[b].prev_leaf = IF node[n].is_leaf THEN n ELSE NDX_NO_PAGE
       /\ \A q \in Pages \ {b} :
            N[q].prev_leaf = IF node[n].is_leaf /\ q = node[n].next_leaf THEN b ELSE node[q].prev_leaf
  BY <1>10 DEF Splits
<1>17. PICK fl2 : FreeList(N, h, T2, fl2)
  <2>1. \A q \in Pages : N[q].next_free = IF q = NewPage THEN NDX_NO_PAGE ELSE node[q].next_free
    BY <1>14 DEF b
  <2> QED BY <1>1, <1>4, <1>6, <2>1, TakePage DEF b
\* The ghosts.
<1>18. /\ lev2 \in [Pages -> Nat] /\ lev2[b] = lev[n] /\ \A q \in Pages \ {b} : lev2[q] = lev[q] /\ lev[q] \in Nat
       /\ nxt2 \in [Pages -> T2 \cup {NDX_NO_PAGE}]
       /\ nxt2[n] = b /\ nxt2[b] = nxt[n] /\ \A q \in Pages \ {n, b} : nxt2[q] = nxt[q]
  BY <1>2, <1>4, <1>9
<1>19. /\ T2 = T \cup {b} /\ T \subseteq Pages /\ T2 \subseteq Pages \ {NDX_LEAF_HEADER_PAGE}
       /\ \A q \in T2 : q = b \/ (q \in T /\ q # b)
       /\ n \in Pages /\ p \in Pages /\ b \in Pages /\ n # b /\ p # b /\ p # n
  BY <1>2, <1>4, <1>7
<1> HIDE DEF T2, lev2, nxt2
<1>20. Blank(N, T2)
  <2>1. \A q \in Pages \ (T2 \cup {NDX_LEAF_HEADER_PAGE}) : q \notin T /\ q # b /\ q # n /\ q # p
    BY <1>2, <1>7, <1>19
  <2>2. \A q \in Pages \ (T \cup {NDX_LEAF_HEADER_PAGE}) : ~node[n].is_leaf => q \notin ToSet(N[b].rids)
    <3> SUFFICES ASSUME NEW q \in ToSet(N[b].rids), ~node[n].is_leaf PROVE q \in T
      OBVIOUS
    <3>1. N[b].rids \in Seq(Pages)
      BY <1>11, <1>14, <1>19, PageIs
    <3>2. PICK j \in 1 .. m - s : N[b].rids[j] = q
      BY <1>12, <3>1, InToSet
    <3>3. s + j \in 1 .. m /\ q = node[n].rids[s + j]
      BY <1>12, <1>13, <3>2
    <3> QED BY <1>1, <1>2, <3>3, ChildIs DEF m
  <2> QED BY <1>1, <1>14, <1>15, <1>16, <1>19, <2>1, <2>2, SMTT(30) DEF Blank
<1>21. Shape(T2, lev2, nxt2)
  <2>1. \A q \in Pages \ T2 : lev2[q] = 0 /\ nxt2[q] = NDX_NO_PAGE
    BY <1>1, <1>2, <1>18, <1>19 DEF Shape
  <2>2. \A q \in T2 : nxt2[q] # NDX_NO_PAGE => lev2[nxt2[q]] = lev2[q]
    <3>1. \A q \in T : nxt[q] # NDX_NO_PAGE => nxt[q] \in T /\ lev[nxt[q]] = lev[q]
      BY <1>1, InnerIs
    <3> QED BY <1>2, <1>4, <1>18, <1>19, <3>1
  <2>3. ASSUME NEW q \in T2, NEW r \in T2, nxt2[q] = nxt2[r], nxt2[q] # NDX_NO_PAGE PROVE q = r
    <3>1. \A x \in T : nxt[x] # b
      BY <1>4, <1>9, <1>19
    <3>2. \A x, y \in T : nxt[x] = nxt[y] /\ nxt[x] # NDX_NO_PAGE => x = y
      BY <1>1 DEF Shape
    <3> QED BY <1>2, <1>18, <1>19, <2>3, <3>1, <3>2
  <2> QED BY <1>18, <1>19, <2>1, <2>2, <2>3 DEF Shape
\* The children of n, and those of the others.
<1>22. ASSUME ~node[n].is_leaf, NEW j \in 1 .. m
       PROVE  LET q == node[n].rids[j] IN
              /\ q \in T /\ q \in Pages /\ q # n /\ q # p /\ q # b /\ q # root /\ node[q].parent = n
              /\ N[q].parent = IF j <= s THEN n ELSE b
              /\ nxt[q] = IF j < m THEN node[n].rids[j + 1] ELSE FirstOfNext(node, nxt, n)
  <2> DEFINE q == node[n].rids[j]
  <2>1. /\ q \in T /\ q \in Pages /\ q # n /\ q # root /\ node[q].parent = n /\ lev[n] = lev[q] + 1
        /\ lev[q] \in Nat /\ nxt[q] = IF j < m THEN node[n].rids[j + 1] ELSE FirstOfNext(node, nxt, n)
    BY <1>1, <1>2, <1>22, ChildIs DEF m
  <2>2. q # p /\ q # b
    BY <1>4, <1>7, <1>9, <2>1
  <2>3. N[b].rids \in Seq(Pages)
    BY <1>11, <1>14, <1>19, <1>22, PageIs
  <2>4. q \in ToSet(N[b].rids) <=> \E k \in 1 .. m - s : N[b].rids[k] = q
    BY SMTT(30), <1>12, <2>3, InToSet
  <2>8. IsInjective(node[n].rids)
    BY <1>1, <1>2, <1>22 DEF Links, ChildrenOK
  <2>5. IsInjective(node[n].rids) /\ DOMAIN node[n].rids = 1 .. m
    BY <1>1, <1>2, <2>8, PageIs DEF m
  <2>6. CASE j <= s
    <3>1. ~ \E k \in 1 .. m - s : N[b].rids[k] = q
      <4> SUFFICES ASSUME NEW k \in 1 .. m - s, N[b].rids[k] = q PROVE FALSE
        OBVIOUS
      <4>1. s + k \in 1 .. m /\ s + k # j /\ node[n].rids[s + k] = node[n].rids[j]
        BY <1>12, <1>13, <2>6
      <4> QED BY <2>5, <4>1 DEF IsInjective
    <3> QED BY <1>15, <2>1, <2>2, <2>4, <2>6, <3>1
  <2>7. CASE ~(j <= s)
    <3> DEFINE k == j - s
    <3>1. k \in 1 .. m - s /\ s + k = j
      BY <1>12, <2>7
    <3> HIDE DEF k
    <3>2. N[b].rids[k] = q
      BY <1>13, <3>1
    <3> QED BY <1>15, <1>22, <2>1, <2>2, <2>4, <2>7, <3>1, <3>2
  <2> QED BY <2>1, <2>2, <2>6, <2>7
<1>23. ASSUME NEW q \in T, node[q].parent # n PROVE N[q].parent = node[q].parent
  <2> SUFFICES ASSUME ~node[n].is_leaf, q \in ToSet(N[b].rids) PROVE FALSE
    BY <1>4, <1>15, <1>19
  <2>1. N[b].rids \in Seq(Pages)
    BY <1>11, <1>14, <1>19, PageIs
  <2>2. PICK k \in 1 .. m - s : N[b].rids[k] = q
    BY <1>12, <2>1, InToSet
  <2>3. s + k \in 1 .. m /\ node[n].rids[s + k] = q
    BY <1>12, <1>13, <2>2
  <2> QED BY <1>22, <1>23, <2>3
<1>24. /\ N[n].is_leaf = node[n].is_leaf /\ ~N[p].is_leaf
       /\ \A q \in T : q \in Pages /\ q # b /\ N[q].is_leaf = node[q].is_leaf
       /\ \A q \in T : ~node[q].is_leaf => N[q].rids[1] = node[q].rids[1]
  <2>1. N[n].rids[1] = node[n].rids[1] /\ N[p].rids[1] = node[p].rids[1]
    BY <1>7, <1>8, <1>12, <1>13
  <2> QED BY <1>2, <1>4, <1>7, <1>14, <1>19, <2>1
<1>25. /\ FirstOfNext(N, nxt2, n) = N[b].rids[1]
       /\ ~node[n].is_leaf => FirstOfNext(N, nxt2, b) = FirstOfNext(node, nxt, n)
       /\ \A q \in T : q # n /\ ~node[q].is_leaf => FirstOfNext(N, nxt2, q) = FirstOfNext(node, nxt, q)
  <2>1. ASSUME NEW q \in T, nxt[q] # NDX_NO_PAGE, ~node[q].is_leaf
        PROVE  N[nxt[q]].rids[1] = node[nxt[q]].rids[1]
    <3>1. nxt[q] \in T /\ lev[nxt[q]] = lev[q]
      BY <1>1, <2>1, InnerIs
    <3>2. ~node[nxt[q]].is_leaf
      BY <1>9, <2>1, <3>1
    <3> QED BY <1>24, <3>1, <3>2
  <2>2. FirstOfNext(N, nxt2, n) = N[b].rids[1]
    BY <1>4, <1>18 DEF FirstOfNext
  <2>3. ~node[n].is_leaf => FirstOfNext(N, nxt2, b) = FirstOfNext(node, nxt, n)
    BY <1>2, <1>18, <2>1 DEF FirstOfNext
  <2>4. \A q \in T : q # n /\ ~node[q].is_leaf => FirstOfNext(N, nxt2, q) = FirstOfNext(node, nxt, q)
    BY <1>18, <1>24, <2>1 DEF FirstOfNext
  <2> QED BY <2>2, <2>3, <2>4
<1>26. ASSUME NEW x \in T, ~node[x].is_leaf, x # n, x # p
       PROVE  N[x].rids = node[x].rids /\ N[x].keys = node[x].keys
  BY <1>14, <1>24, <1>26
<1>27. ASSUME NEW q \in T2 PROVE ParentOK(N, root, T2, lev2, q)
  <2>0. root \in T /\ root # b /\ lev2[root] = lev[root] /\ lev2[p] = lev[p] /\ lev2[n] = lev[n]
    BY <1>1, <1>4, <1>18, <1>19 DEF Links
  <2>1. CASE q = b
    <3>1. N[p].rids[i + 1] = b /\ i + 1 \in 1 .. c + 1
      BY <1>7, <1>12, <1>13
    <3>2. b \in ToSet(N[p].rids)
      BY <1>12, <3>1 DEF ToSet
    <3>3. lev[n] <= lev[root]
      BY <1>1, <1>2 DEF Links, ParentOK
    <3>4. N[b].is_leaf <=> lev[n] = 0
      BY <1>2, <1>9, <1>14
    <3> QED BY <1>7, <1>9, <1>15, <1>18, <1>19, <1>24, <2>0, <2>1, <3>2, <3>3, <3>4, Constants DEF ParentOK
  <2>2. CASE q # b
    <3>1. q \in T /\ q \in Pages /\ lev2[q] = lev[q] /\ N[q].is_leaf = node[q].is_leaf
      BY <1>18, <1>19, <1>24, <2>2
    <3>2. ParentOK(node, root, T, lev, q)
      BY <1>1, <3>1 DEF Links
    <3> DEFINE x == node[q].parent
    <3>3. CASE q = root
      <4>1. x = NDX_NO_PAGE /\ x # n
        BY <1>19, <3>2, <3>3, Constants DEF ParentOK
      <4> QED BY <1>23, <2>0, <3>1, <3>2, <3>3, <4>1 DEF ParentOK
    <3>4. CASE q # root
      <4>1. x \in T /\ ~node[x].is_leaf /\ lev[x] = lev[q] + 1 /\ q \in ToSet(node[x].rids)
        BY <3>2, <3>4 DEF ParentOK
      <4>2. node[x].rids \in Seq(Pages)
        BY <1>1, <1>19, <4>1, PageIs
      <4>3. PICK j \in 1 .. Len(node[x].rids) : node[x].rids[j] = q
        BY <4>1, <4>2, InToSet
      <4> HIDE DEF x
      <4>4. /\ \E y \in T2 : N[q].parent = y /\ ~N[y].is_leaf /\ lev2[y] = lev[x] /\ q \in ToSet(N[y].rids)
        <5>1. CASE x = n /\ j <= s
          <6>1. j \in 1 .. s /\ j \in 1 .. m
            BY <1>12, <5>1, <4>3
          <6>2. N[n].rids[j] = q
            BY <1>13, <4>3, <5>1, <6>1
          <6>3. q \in ToSet(N[n].rids)
            BY <1>12, <6>1, <6>2 DEF ToSet
          <6>4. N[q].parent = n
            BY <1>22, <4>1, <4>3, <5>1, <6>1
          <6> QED BY <1>2, <1>19, <1>24, <2>0, <4>1, <5>1, <6>3, <6>4
        <5>2. CASE x = n /\ ~(j <= s)
          <6> DEFINE k == j - s
          <6>1. k \in 1 .. m - s /\ j \in 1 .. m /\ s + k = j
            BY <1>12, <5>2, <4>3 DEF m
          <6> HIDE DEF k
          <6>2. N[b].rids[k] = q
            BY <1>13, <4>3, <5>2, <6>1
          <6>3. q \in ToSet(N[b].rids)
            BY <1>12, <6>1, <6>2 DEF ToSet
          <6>4. N[q].parent = b
            BY <1>22, <4>1, <4>3, <5>2, <6>1
          <6> QED BY <1>14, <1>18, <1>19, <2>0, <4>1, <5>2, <6>3, <6>4
        <5>3. CASE x = p
          <6>1. N[q].parent = p
            BY <1>7, <1>23, <3>1, <5>3 DEF x
          <6> DEFINE k == IF j <= i THEN j ELSE j + 1
          <6>2. k \in 1 .. c + 1 /\ N[p].rids[k] = q
            <7>1. j \in 1 .. c /\ node[p].rids[j] = q
              BY <4>3, <5>3 DEF c
            <7>2. j + 1 \in 1 .. c + 1 /\ j \in 1 .. c + 1 /\ (j + 1) - 1 = j
              BY <1>12, <7>1
            <7>3. CASE j <= i
              BY <1>13, <7>1, <7>2, <7>3
            <7>4. CASE ~(j <= i)
              <8>1. ~(j + 1 <= i) /\ j + 1 # i + 1
                BY <1>7, <1>12, <7>1, <7>4
              <8>2. N[p].rids[j + 1] = node[p].rids[(j + 1) - 1]
                BY <1>13, <7>2, <8>1
              <8> QED BY <7>1, <7>2, <7>4, <8>2
            <7> QED BY <7>3, <7>4
          <6> HIDE DEF k
          <6>3. q \in ToSet(N[p].rids)
            BY <1>12, <6>2 DEF ToSet
          <6> QED BY <1>7, <1>19, <1>24, <2>0, <5>3, <6>1, <6>3
        <5>4. CASE x # n /\ x # p
          <6>1. N[q].parent = x
            BY <1>23, <3>1, <5>4 DEF x
          <6> QED BY <1>18, <1>19, <1>24, <1>26, <4>1, <5>4, <6>1
        <5> QED BY <5>1, <5>2, <5>3, <5>4
      <4>5. \A y \in T2 : y # NDX_NO_PAGE
        BY <1>19, Constants
      <4> QED BY <2>0, <3>1, <3>2, <3>4, <4>1, <4>4, <4>5 DEF ParentOK
    <3> QED BY <3>3, <3>4
  <2> QED BY <2>1, <2>2
<1>28. ASSUME NEW x \in T2, ~N[x].is_leaf PROVE ChildrenOK(N, T2, nxt2, x)
  <2>1. CASE x = n \/ x = b
    <3>1. ~node[n].is_leaf
      BY <1>14, <1>24, <1>28, <2>1
    <3>5. IsInjective(node[n].rids)
      BY <1>1, <1>2, <3>1 DEF Links, ChildrenOK
    <3>2. IsInjective(node[n].rids) /\ DOMAIN node[n].rids = 1 .. m
      BY <1>1, <1>2, <3>5, PageIs DEF m
    <3>3. CASE x = n
      <4>1. N[n].rids # << >> /\ IsInjective(N[n].rids)
        <5>1. N[n].rids # << >>
          <6>1. 1 \in DOMAIN N[n].rids
            BY <1>12
          <6> QED BY <6>1
        <5>2. ASSUME NEW j \in 1 .. s, NEW k \in 1 .. s, N[n].rids[j] = N[n].rids[k] PROVE j = k
          <6>1. j \in 1 .. m /\ k \in 1 .. m /\ node[n].rids[j] = node[n].rids[k]
            BY <1>12, <1>13, <5>2
          <6> QED BY <3>2, <6>1 DEF IsInjective
        <5> QED BY <1>12, <5>1, <5>2 DEF IsInjective
      <4>2. ASSUME NEW j \in 1 .. s
            PROVE  LET q == N[n].rids[j] IN
                   /\ q \in T2 /\ N[q].parent = n
                   /\ nxt2[q] = IF j < s THEN N[n].rids[j + 1] ELSE FirstOfNext(N, nxt2, n)
        <5> DEFINE q == node[n].rids[j]
        <5>1. j \in 1 .. m /\ j < m /\ j <= s
          BY <1>12
        <5>2. /\ q \in T /\ q \in Pages /\ q # n /\ q # b /\ N[q].parent = n /\ nxt[q] = node[n].rids[j + 1]
          BY <1>22, <3>1, <5>1
        <5>3. nxt2[q] = node[n].rids[j + 1]
          BY <1>18, <5>2
        <5>4. N[n].rids[j] = q
          BY <1>13
        <5> HIDE DEF q
        <5>5. CASE j < s
          <6>1. j + 1 \in 1 .. s
            BY <1>12, <5>5
          <6> QED BY <1>13, <1>19, <5>2, <5>3, <5>4, <5>5, <6>1
        <5>6. CASE ~(j < s)
          <6>1. j = s /\ 1 \in 1 .. m - s
            BY <1>12, <5>6
          <6> QED BY <1>13, <1>19, <1>25, <5>2, <5>3, <5>4, <5>6, <6>1
        <5> QED BY <5>5, <5>6
      <4> QED BY <1>12, <3>3, <4>1, <4>2 DEF ChildrenOK
    <3>4. CASE x = b
      <4>1. N[b].rids # << >> /\ IsInjective(N[b].rids)
        <5>1. N[b].rids # << >>
          <6>1. 1 \in DOMAIN N[b].rids
            BY <1>12
          <6> QED BY <6>1
        <5>2. ASSUME NEW j \in 1 .. m - s, NEW k \in 1 .. m - s, N[b].rids[j] = N[b].rids[k] PROVE j = k
          <6>1. s + j \in 1 .. m /\ s + k \in 1 .. m /\ node[n].rids[s + j] = node[n].rids[s + k]
            BY <1>12, <1>13, <5>2
          <6>2. s + j = s + k
            BY <3>2, <6>1 DEF IsInjective
          <6> QED BY <1>12, <6>2
        <5> QED BY <1>12, <5>1, <5>2 DEF IsInjective
      <4>2. ASSUME NEW j \in 1 .. m - s
            PROVE  LET q == N[b].rids[j] IN
                   /\ q \in T2 /\ N[q].parent = b
                   /\ nxt2[q] = IF j < m - s THEN N[b].rids[j + 1] ELSE FirstOfNext(N, nxt2, b)
        <5> DEFINE k == s + j
                   q == node[n].rids[k]
        <5>1. k \in 1 .. m /\ ~(k <= s) /\ (j < m - s <=> k < m)
          BY <1>12
        <5>2. /\ q \in T /\ q \in Pages /\ q # n /\ q # b /\ N[q].parent = b
              /\ nxt[q] = IF k < m THEN node[n].rids[k + 1] ELSE FirstOfNext(node, nxt, n)
          <6> HIDE DEF k
          <6> QED BY <1>22, <3>1, <5>1
        <5>3. N[b].rids[j] = q
          BY <1>13
        <5>4. nxt2[q] = nxt[q]
          BY <1>18, <5>2
        <5>5. j < m - s => N[b].rids[j + 1] = node[n].rids[k + 1]
          <6> SUFFICES ASSUME j < m - s PROVE N[b].rids[j + 1] = node[n].rids[k + 1]
            OBVIOUS
          <6>1. j + 1 \in 1 .. m - s /\ s + (j + 1) = k + 1
            BY <1>12
          <6>2. N[b].rids[j + 1] = node[n].rids[s + (j + 1)]
            BY <1>13, <6>1
          <6> QED BY <6>1, <6>2
        <5> HIDE DEF q, k
        <5> QED BY <1>19, <1>25, <3>1, <5>1, <5>2, <5>3, <5>4, <5>5
      <4> QED BY <1>12, <3>4, <4>1, <4>2 DEF ChildrenOK
    <3> QED BY <2>1, <3>3, <3>4
  <2>2. CASE x = p
    <3>1. ASSUME NEW j \in 1 .. c
          PROVE  LET q == node[p].rids[j] IN
                 /\ q \in T /\ q \in Pages /\ q # b /\ N[q].parent = p
                 /\ (q = n <=> j = i)
                 /\ nxt[q] = IF j < c THEN node[p].rids[j + 1] ELSE FirstOfNext(node, nxt, p)
      <4> DEFINE q == node[p].rids[j]
      <4>1. /\ q \in T /\ q \in Pages /\ node[q].parent = p
            /\ nxt[q] = IF j < c THEN node[p].rids[j + 1] ELSE FirstOfNext(node, nxt, p)
        BY <1>1, <1>7, ChildIs DEF c
      <4> QED BY <1>4, <1>7, <1>19, <1>23, <4>1
    <3>2. ASSUME NEW j \in 1 .. c + 1
          PROVE  N[p].rids[j] = IF j <= i THEN node[p].rids[j] ELSE IF j = i + 1 THEN b ELSE node[p].rids[j - 1]
      BY <1>13
    <3>3. N[p].rids # << >>
      <4>1. 1 \in DOMAIN N[p].rids
        BY <1>12
      <4> QED BY <4>1
    <3>4. IsInjective(N[p].rids)
      <4>1. \A j, k \in 1 .. c : node[p].rids[j] = node[p].rids[k] => j = k
        <5>1. DOMAIN node[p].rids = 1 .. c
          BY <1>1, <1>7, PageIs DEF c
        <5> QED BY <1>7, <5>1 DEF IsInjective
      <4>2. \A j \in 1 .. c + 1 : /\ j <= i => j \in 1 .. c
                                  /\ ~(j <= i) /\ j # i + 1 => j - 1 \in 1 .. c
        BY <1>7, <1>12
      <4>3. ASSUME NEW j \in 1 .. c + 1, NEW k \in 1 .. c + 1, N[p].rids[j] = N[p].rids[k] PROVE j = k
        <5>1. CASE j = i + 1 \/ k = i + 1
          <6>1. \A l \in 1 .. c + 1 : N[p].rids[l] = b => l = i + 1
            <7> SUFFICES ASSUME NEW l \in 1 .. c + 1, l # i + 1 PROVE N[p].rids[l] # b
              OBVIOUS
            <7> QED BY <3>1, <3>2, <4>2
          <6>2. N[p].rids[i + 1] = b
            BY <1>7, <1>12, <1>13
          <6> QED BY <4>3, <5>1, <6>1, <6>2
        <5>2. CASE j # i + 1 /\ k # i + 1
          <6>1. CASE j <= i /\ k <= i
            BY <3>2, <4>1, <4>2, <4>3, <6>1
          <6>2. CASE ~(j <= i) /\ ~(k <= i)
            <7>1. j - 1 \in 1 .. c /\ k - 1 \in 1 .. c /\ node[p].rids[j - 1] = node[p].rids[k - 1]
              BY <3>2, <4>2, <4>3, <5>2, <6>2
            <7>2. j - 1 = k - 1
              BY <4>1, <7>1
            <7> QED BY <7>2
          <6>3. CASE j <= i /\ ~(k <= i)
            <7>1. j \in 1 .. c /\ k - 1 \in 1 .. c /\ node[p].rids[j] = node[p].rids[k - 1]
              BY <3>2, <4>2, <4>3, <5>2, <6>3
            <7>2. j = k - 1
              BY <4>1, <7>1
            <7> QED BY <1>12, <5>2, <6>3, <7>2
          <6>4. CASE ~(j <= i) /\ k <= i
            <7>1. j - 1 \in 1 .. c /\ k \in 1 .. c /\ node[p].rids[j - 1] = node[p].rids[k]
              BY <3>2, <4>2, <4>3, <5>2, <6>4
            <7>2. j - 1 = k
              BY <4>1, <7>1
            <7> QED BY <1>12, <5>2, <6>4, <7>2
          <6> QED BY <6>1, <6>2, <6>3, <6>4
        <5> QED BY <5>1, <5>2
      <4> QED BY <1>12, <4>3 DEF IsInjective
    <3>5. FirstOfNext(N, nxt2, p) = FirstOfNext(node, nxt, p)
      BY <1>7, <1>25
    <3>6. ASSUME NEW j \in 1 .. c + 1
          PROVE  LET q == N[p].rids[j] IN
                 /\ q \in T2 /\ N[q].parent = p
                 /\ nxt2[q] = IF j < c + 1 THEN N[p].rids[j + 1] ELSE FirstOfNext(N, nxt2, p)
      <4>0. j \in Nat /\ j >= 1 /\ j <= c + 1 /\ c \in Nat /\ i \in Nat /\ i >= 1 /\ i <= c
        BY <1>7, <1>12
      <4>1. CASE j < i
        <5>1. j \in 1 .. c /\ j < c /\ j # i /\ j <= i /\ j + 1 \in 1 .. c + 1 /\ j + 1 <= i /\ j < c + 1
          BY <4>0, <4>1
        <5>2. N[p].rids[j] = node[p].rids[j] /\ N[p].rids[j + 1] = node[p].rids[j + 1]
          BY <3>2, <5>1
        <5> QED BY <1>18, <1>19, <3>1, <5>1, <5>2
      <4>2. CASE j = i
        <5>1. j \in 1 .. c /\ j + 1 \in 1 .. c + 1 /\ j < c + 1
          BY <4>0, <4>2
        <5>2. N[p].rids[j] = n /\ N[p].rids[j + 1] = b
          BY <1>7, <3>2, <4>0, <4>2, <5>1
        <5>3. N[n].parent = p
          BY <1>7, <3>1
        <5> QED BY <1>2, <1>18, <1>19, <5>1, <5>2, <5>3
      <4>3. CASE j = i + 1
        <5>1. N[p].rids[j] = b /\ ~(j <= i)
          BY <3>2, <4>0, <4>3
        <5>2. nxt2[b] = IF i < c THEN node[p].rids[i + 1] ELSE FirstOfNext(node, nxt, p)
          BY <1>7, <1>18, <3>1
        <5>3. j < c + 1 => N[p].rids[j + 1] = node[p].rids[i + 1]
          <6> SUFFICES ASSUME j < c + 1 PROVE N[p].rids[j + 1] = node[p].rids[i + 1]
            OBVIOUS
          <6>1. j + 1 \in 1 .. c + 1 /\ ~(j + 1 <= i) /\ j + 1 # i + 1 /\ (j + 1) - 1 = i + 1
            BY <4>0, <4>3
          <6>2. N[p].rids[j + 1] = node[p].rids[(j + 1) - 1]
            BY <3>2, <6>1
          <6> QED BY <6>1, <6>2
        <5>4. i < c <=> j < c + 1
          BY <4>0, <4>3
        <5> QED BY <1>15, <1>19, <3>5, <5>1, <5>2, <5>3, <5>4
      <4>4. CASE j > i + 1
        <5> DEFINE k == j - 1
        <5>1. k \in 1 .. c /\ k # i /\ (k < c <=> j < c + 1) /\ ~(j <= i) /\ j # i + 1 /\ j = k + 1
          BY <4>0, <4>4
        <5>2. N[p].rids[j] = node[p].rids[k]
          BY <3>2, <5>1
        <5>3. j < c + 1 => N[p].rids[j + 1] = node[p].rids[k + 1]
          <6> SUFFICES ASSUME j < c + 1 PROVE N[p].rids[j + 1] = node[p].rids[k + 1]
            OBVIOUS
          <6>1. j + 1 \in 1 .. c + 1 /\ ~(j + 1 <= i) /\ j + 1 # i + 1 /\ (j + 1) - 1 = k + 1
            BY <4>0, <4>4
          <6>2. N[p].rids[j + 1] = node[p].rids[(j + 1) - 1]
            BY <3>2, <6>1
          <6> QED BY <6>1, <6>2
        <5> HIDE DEF k
        <5>4. nxt[node[p].rids[k]] = nxt2[node[p].rids[k]]
          BY <1>18, <3>1, <5>1
        <5> QED BY <1>19, <3>1, <3>5, <5>1, <5>2, <5>3, <5>4
      <4> QED BY <4>0, <4>1, <4>2, <4>3, <4>4
    <3> QED BY <1>12, <2>2, <3>3, <3>4, <3>6 DEF ChildrenOK
  <2>3. CASE x # n /\ x # b /\ x # p
    <3>1. x \in T /\ ~node[x].is_leaf /\ N[x].rids = node[x].rids
      BY <1>19, <1>24, <1>26, <1>28, <2>3
    <3>2. ChildrenOK(node, T, nxt, x)
      BY <1>1, <3>1 DEF Links
    <3>3. FirstOfNext(N, nxt2, x) = FirstOfNext(node, nxt, x)
      BY <1>25, <2>3, <3>1
    <3>4. ASSUME NEW j \in DOMAIN node[x].rids
          PROVE  LET q == node[x].rids[j] IN q \in T2 /\ N[q].parent = x /\ nxt2[q] = nxt[q]
      <4> DEFINE q == node[x].rids[j]
      <4>1. q \in T /\ node[q].parent = x
        BY <3>2 DEF ChildrenOK
      <4> HIDE DEF q
      <4>2. q # n /\ q # b /\ q \in Pages
        BY <1>7, <1>24, <2>3, <4>1 DEF p
      <4> QED BY <1>18, <1>19, <1>23, <2>3, <4>1, <4>2 DEF q
    <3> QED BY <3>1, <3>2, <3>3, <3>4 DEF ChildrenOK
  <2> QED BY <2>1, <2>2, <2>3
<1>29. Links(N, root, T2, lev2, nxt2)
  <2>1. root \in T /\ nxt[root] = NDX_NO_PAGE
    BY <1>1 DEF Links
  <2>2. nxt2[root] = NDX_NO_PAGE /\ root \in T2
    BY <1>7, <1>18, <1>19, <1>24, <2>1
  <2> QED BY <1>27, <1>28, <2>2 DEF Links
<1>31. RingOK(N, h.last_leaf, T2, nxt2)
  <2>0. /\ NDX_LEAF_HEADER_PAGE \in Pages /\ NDX_LEAF_HEADER_PAGE # b /\ NDX_LEAF_HEADER_PAGE # n
        /\ NDX_LEAF_HEADER_PAGE # p /\ NDX_LEAF_HEADER_PAGE \notin T
        /\ first_leaf \in T /\ node[first_leaf].is_leaf
        /\ hdr.last_leaf \in T /\ node[hdr.last_leaf].is_leaf /\ nxt[hdr.last_leaf] = NDX_NO_PAGE
        /\ node[first_leaf].prev_leaf = NDX_LEAF_HEADER_PAGE
        /\ node[NDX_LEAF_HEADER_PAGE] = IndexPageHeader(NDX_NO_PAGE, TRUE, hdr.last_leaf, first_leaf)
    BY <1>1, <1>2, <1>4, <1>7, Constants DEF RingOK
  \* The node after n, if n is a leaf.
  <2>1. ASSUME node[n].is_leaf
        PROVE  /\ node[n].next_leaf = IF nxt[n] = NDX_NO_PAGE THEN NDX_LEAF_HEADER_PAGE ELSE nxt[n]
               /\ nxt[n] = NDX_NO_PAGE <=> n = hdr.last_leaf
               /\ nxt[n] # NDX_NO_PAGE => node[nxt[n]].prev_leaf = n /\ nxt[n] \in T
               /\ nxt[n] # first_leaf
    <3>1. LeafOK(node, hdr.last_leaf, T, nxt, n)
      BY <1>1, <1>2, <2>1 DEF RingOK
    <3>2. nxt[n] # NDX_NO_PAGE => nxt[n] \in T
      BY <1>1, <1>2 DEF Shape
    <3> QED BY <2>0, <3>1, <3>2 DEF LeafOK
  <2>2. \A q \in T : node[q].is_leaf => node[q].next_leaf # NDX_NO_PAGE
    <3> SUFFICES ASSUME NEW q \in T, node[q].is_leaf PROVE node[q].next_leaf # NDX_NO_PAGE
      OBVIOUS
    <3>1. LeafOK(node, hdr.last_leaf, T, nxt, q)
      BY <1>1 DEF RingOK
    <3> QED BY <3>1, <2>0, Constants DEF LeafOK
  \* The header of the ring.
  <2>3. N[NDX_LEAF_HEADER_PAGE] = IndexPageHeader(NDX_NO_PAGE, TRUE, h.last_leaf, first_leaf)
    <3> DEFINE x == NDX_LEAF_HEADER_PAGE
    <3>1. /\ N[x].keys = node[x].keys /\ N[x].rids = node[x].rids /\ N[x].is_leaf = node[x].is_leaf
          /\ N[x].next_free = node[x].next_free
          /\ N[x].next_leaf = node[x].next_leaf
          /\ N[x].prev_leaf = IF node[n].is_leaf /\ x = node[n].next_leaf THEN b ELSE node[x].prev_leaf
      BY <1>14, <1>16, <2>0
    <3>2. N[x].parent = node[x].parent
      <4> SUFFICES ASSUME ~node[n].is_leaf, x \in ToSet(N[b].rids) PROVE FALSE
        BY <1>15, <2>0
      <4>1. N[b].rids \in Seq(Pages)
        BY <1>11, <1>14, <1>19, PageIs
      <4>2. PICK k \in 1 .. m - s : N[b].rids[k] = x
        BY <1>12, <4>1, InToSet
      <4>3. s + k \in 1 .. m /\ node[n].rids[s + k] = x
        BY <1>12, <1>13, <4>2
      <4> QED BY <1>22, <2>0, <4>3
    <3>3. N[x].prev_leaf = h.last_leaf
      <4>1. node[x].prev_leaf = hdr.last_leaf
        BY <2>0 DEF IndexPageHeader
      <4>2. CASE node[n].is_leaf
        <5>1. x = node[n].next_leaf <=> n = hdr.last_leaf
          BY <2>0, <2>1, <4>2
        <5> QED BY <1>6, <3>1, <4>1, <4>2, <5>1
      <4>3. CASE ~node[n].is_leaf
        BY <1>6, <2>0, <3>1, <4>1, <4>3
      <4> QED BY <4>2, <4>3
    <3>4. N[x] \in Nodes
      BY <1>10, <2>0
    <3> DEFINE y == IndexPageHeader(NDX_NO_PAGE, TRUE, hdr.last_leaf, first_leaf)
    <3>5. /\ y.keys = << >> /\ y.rids = << >> /\ y.is_leaf = TRUE /\ y.next_free = NDX_NO_PAGE
          /\ y.next_leaf = first_leaf /\ y.parent = NDX_NO_PAGE
      BY DEF IndexPageHeader
    <3>50. node[x] = y
      BY <2>0
    <3> HIDE DEF x, y
    <3>6. /\ N[x].keys = << >> /\ N[x].rids = << >> /\ N[x].is_leaf = TRUE /\ N[x].next_free = NDX_NO_PAGE
          /\ N[x].next_leaf = first_leaf /\ N[x].parent = NDX_NO_PAGE
      BY <3>1, <3>2, <3>5, <3>50
    <3>7. N[x] = [next_free |-> NDX_NO_PAGE, parent |-> NDX_NO_PAGE, is_leaf |-> TRUE,
                  prev_leaf |-> h.last_leaf, next_leaf |-> first_leaf, keys |-> << >>, rids |-> << >>]
      BY <3>3, <3>4, <3>6 DEF Nodes
    <3> QED BY <3>7 DEF x, IndexPageHeader
  <2>4. /\ first_leaf \in T2 /\ N[first_leaf].is_leaf
        /\ N[first_leaf].prev_leaf = NDX_LEAF_HEADER_PAGE
    <3>1. first_leaf \in Pages \ {b}
      BY <1>24, <2>0
    <3>2. ~(node[n].is_leaf /\ first_leaf = node[n].next_leaf)
      BY <2>0, <2>1
    <3> QED BY <1>16, <1>19, <1>24, <2>0, <3>1, <3>2
  <2>5. h.last_leaf \in T2 /\ N[h.last_leaf].is_leaf /\ nxt2[h.last_leaf] = NDX_NO_PAGE
    <3>1. CASE hdr.last_leaf = n
      BY <1>6, <1>14, <1>18, <1>19, <2>0, <3>1
    <3>2. CASE hdr.last_leaf # n
      BY <1>6, <1>18, <1>19, <1>24, <2>0, <3>2
    <3> QED BY <3>1, <3>2
  <2>6. ASSUME NEW q \in T2, N[q].is_leaf PROVE LeafOK(N, h.last_leaf, T2, nxt2, q)
    <3>1. CASE q = b
      <4>1. node[n].is_leaf
        BY <1>14, <2>6, <3>1
      <4>2. /\ N[b].next_leaf = node[n].next_leaf /\ N[b].prev_leaf = n /\ nxt2[n] = b /\ nxt2[b] = nxt[n]
        BY <1>16, <1>18, <4>1
      <4>3. nxt[n] # NDX_NO_PAGE => N[nxt[n]].prev_leaf = b
        BY <1>16, <1>24, <2>1, <4>1
      <4> QED BY <1>2, <1>6, <1>19, <2>1, <3>1, <4>1, <4>2, <4>3 DEF LeafOK
    <3>2. CASE q = n
      <4>1. node[n].is_leaf
        BY <1>24, <2>6, <3>2
      <4>2. N[n].next_leaf = b /\ nxt2[n] = b /\ N[b].prev_leaf = n /\ b # first_leaf /\ b # NDX_NO_PAGE
        BY <1>4, <1>16, <1>18, <1>19, <2>0, <4>1
      <4>3. LeafOK(node, hdr.last_leaf, T, nxt, n)
        BY <1>1, <1>2, <4>1 DEF RingOK
      <4>4. n # first_leaf => N[n].prev_leaf \in T2 /\ nxt2[N[n].prev_leaf] = n
        <5> SUFFICES ASSUME n # first_leaf PROVE N[n].prev_leaf \in T2 /\ nxt2[N[n].prev_leaf] = n
          OBVIOUS
        <5>1. node[n].prev_leaf \in T /\ nxt[node[n].prev_leaf] = n
          BY <4>3 DEF LeafOK
        <5>2. n # node[n].next_leaf
          BY <1>9, <2>0, <2>1, <4>1
        <5>3. N[n].prev_leaf = node[n].prev_leaf
          BY <1>16, <1>19, <5>2
        <5> QED BY <1>9, <1>18, <1>19, <1>24, <5>1, <5>3
      <4> QED BY <3>2, <4>2, <4>4 DEF LeafOK
    <3>3. CASE q # b /\ q # n
      <4>1. q \in T /\ node[q].is_leaf /\ q \in Pages
        BY <1>19, <1>24, <2>6, <3>3
      <4>2. LeafOK(node, hdr.last_leaf, T, nxt, q)
        BY <1>1, <4>1 DEF RingOK
      <4>3. N[q].next_leaf = node[q].next_leaf /\ nxt2[q] = nxt[q]
        BY <1>16, <1>18, <3>3, <4>1
      <4>4. nxt[q] # NDX_NO_PAGE => N[nxt[q]].prev_leaf = q
        <5> SUFFICES ASSUME nxt[q] # NDX_NO_PAGE PROVE N[nxt[q]].prev_leaf = q
          OBVIOUS
        <5>1. nxt[q] \in T /\ node[nxt[q]].prev_leaf = q
          BY <1>1, <4>1, <4>2 DEF Shape, LeafOK
        <5>2. ~(node[n].is_leaf /\ nxt[q] = node[n].next_leaf)
          <6>1. nxt[q] # nxt[n]
            BY <1>1, <1>2, <3>3, <4>1 DEF Shape
          <6> QED BY <2>0, <2>1, <5>1, <6>1
        <5> QED BY <1>16, <1>24, <5>1, <5>2
      <4>5. nxt[q] = NDX_NO_PAGE => q = h.last_leaf
        BY <1>6, <3>3, <4>2 DEF LeafOK
      <4>6. q # first_leaf => N[q].prev_leaf \in T2 /\ nxt2[N[q].prev_leaf] = q
        <5> SUFFICES ASSUME q # first_leaf PROVE N[q].prev_leaf \in T2 /\ nxt2[N[q].prev_leaf] = q
          OBVIOUS
        <5>1. node[q].prev_leaf \in T /\ nxt[node[q].prev_leaf] = q
          BY <4>2 DEF LeafOK
        <5>2. CASE node[n].is_leaf /\ q = node[n].next_leaf
          <6>1. N[q].prev_leaf = b /\ nxt[n] = q
            BY <1>16, <2>0, <2>1, <3>3, <4>1, <5>2
          <6> QED BY <1>18, <1>19, <6>1
        <5>3. CASE ~(node[n].is_leaf /\ q = node[n].next_leaf)
          <6>1. N[q].prev_leaf = node[q].prev_leaf
            BY <1>16, <3>3, <4>1, <5>3
          <6>2. node[q].prev_leaf # n
            <7> SUFFICES ASSUME node[q].prev_leaf = n PROVE FALSE
              OBVIOUS
            <7>1. nxt[n] = q /\ q # NDX_NO_PAGE
              BY <4>1, <5>1, Constants
            <7>2. lev[q] = lev[n]
              BY <1>1, <1>2, <7>1 DEF Shape
            <7>3. node[n].is_leaf
              BY <1>2, <1>9, <4>1, <7>2
            <7> QED BY <2>1, <5>3, <7>1, <7>3
          <6> QED BY <1>18, <1>19, <1>24, <5>1, <6>1, <6>2
        <5> QED BY <5>2, <5>3
      <4>7. nxt[q] # first_leaf
        BY <4>2 DEF LeafOK
      <4>8. N[q].next_leaf = IF nxt[q] = NDX_NO_PAGE THEN NDX_LEAF_HEADER_PAGE ELSE nxt[q]
        BY <4>2, <4>3 DEF LeafOK
      <4> QED BY <4>3, <4>4, <4>5, <4>6, <4>7, <4>8 DEF LeafOK
    <3> QED BY <3>1, <3>2, <3>3
  <2> QED BY <2>3, <2>4, <2>5, <2>6 DEF RingOK
\* The keys.
<1>32. /\ Last(N[n].keys) = node[n].keys[s] /\ Last(N[b].keys) = Last(node[n].keys)
       /\ \A q \in T : q # n => Last(N[q].keys) = Last(node[q].keys)
       /\ \A q \in T : q # n /\ q # p => N[q].keys = node[q].keys /\ N[q].rids = node[q].rids
  <2>1. Last(N[n].keys) = node[n].keys[s]
    BY <1>12, <1>13 DEF Last
  <2>2. Last(N[b].keys) = Last(node[n].keys)
    <3>1. m - s \in 1 .. m - s /\ s + (m - s) = m /\ Len(node[n].keys) = m
      BY <1>1, <1>2, <1>12, PageIs DEF m
    <3>2. N[b].keys[m - s] = node[n].keys[s + (m - s)]
      BY <1>13, <3>1
    <3> QED BY <1>12, <3>1, <3>2 DEF Last
  <2>3. Last(N[p].keys) = Last(node[p].keys)
    <3>1. c + 1 \in 1 .. c + 1 /\ ~(c + 1 < i) /\ c + 1 # i /\ (c + 1) - 1 = c /\ Len(node[p].keys) = c
      BY <1>1, <1>7, <1>12, PageIs DEF c
    <3>2. N[p].keys[c + 1] = node[p].keys[(c + 1) - 1]
      BY <1>13, <3>1
    <3> QED BY <1>12, <3>1, <3>2 DEF Last
  <2>4. \A q \in T : q # n /\ q # p => N[q].keys = node[q].keys /\ N[q].rids = node[q].rids
    BY <1>14, <1>24
  <2> QED BY <2>1, <2>2, <2>3, <2>4
<1>33. ASSUME NEW x \in T, ~node[x].is_leaf, NEW j \in 1 .. Len(node[x].rids)
       PROVE  node[x].keys[j] = Last(node[node[x].rids[j]].keys)
  <2>1. node[x].rids[j] \in T /\ node[x].rids[j] \in Pages
    BY <1>1, <1>33, ChildIs
  <2>2. node[x].rids[j] # NDX_NO_PAGE /\ j \in DOMAIN node[x].rids
    BY <1>1, <1>24, <1>33, <2>1, PageIs, Constants
  <2> QED BY <1>1, <1>33, <2>2 DEF KeysOK
<1>34. KeysOK(N, T2, NDX_NO_PAGE)
  <2> SUFFICES ASSUME NEW x \in T2, ~N[x].is_leaf, NEW j \in DOMAIN N[x].rids
               PROVE  N[x].keys[j] = Last(N[N[x].rids[j]].keys)
    BY DEF KeysOK
  <2>1. CASE x = n
    <3>1. j \in 1 .. s /\ j \in 1 .. m /\ ~node[n].is_leaf
      BY <1>12, <1>24, <2>1
    <3>2. node[n].keys[j] = Last(node[node[n].rids[j]].keys)
      BY <1>2, <1>33, <3>1 DEF m
    <3> QED BY <1>13, <1>22, <1>32, <2>1, <3>1, <3>2
  <2>2. CASE x = b
    <3> DEFINE k == s + j
    <3>1. j \in 1 .. m - s /\ k \in 1 .. m /\ ~node[n].is_leaf
      BY <1>12, <1>14, <2>2
    <3>2. N[b].rids[j] = node[n].rids[k] /\ N[b].keys[j] = node[n].keys[k]
      BY <1>13, <3>1
    <3> HIDE DEF k
    <3>3. node[n].keys[k] = Last(node[node[n].rids[k]].keys)
      BY <1>2, <1>33, <3>1 DEF m
    <3> QED BY <1>22, <1>32, <2>2, <3>1, <3>2, <3>3
  <2>3. CASE x = p
    <3>1. j \in 1 .. c + 1
      BY <1>12, <2>3
    <3>2. ASSUME NEW k \in 1 .. c, k # i
          PROVE  Last(N[node[p].rids[k]].keys) = node[p].keys[k]
      <4>1. node[p].rids[k] \in T
        BY <1>1, <1>7, ChildIs DEF c
      <4>2. node[p].rids[k] # n
        BY <1>7, <3>2
      <4>3. node[p].keys[k] = Last(node[node[p].rids[k]].keys)
        BY <1>7, <1>33 DEF c
      <4> QED BY <1>32, <4>1, <4>2, <4>3
    <3>3. node[p].keys[i] = Last(node[n].keys)
      BY <1>7, <1>33 DEF c
    <3>4. CASE j < i
      <4>1. j \in 1 .. c /\ j # i /\ j <= i
        BY <1>7, <1>12, <3>1, <3>4
      <4> QED BY <1>13, <2>3, <3>1, <3>2, <3>4, <4>1
    <3>5. CASE j = i
      <4>1. j <= i /\ ~(j < i)
        BY <1>12, <3>5
      <4>2. N[p].rids[j] = node[p].rids[j] /\ N[p].keys[j] = node[n].keys[s]
        BY <1>13, <3>1, <3>5, <4>1
      <4>3. N[p].rids[j] = n
        BY <1>7, <3>5, <4>2
      <4>4. Last(N[n].keys) = node[n].keys[s]
        BY <1>32
      <4>5. N[p].keys[j] = Last(N[N[p].rids[j]].keys)
        BY <4>2, <4>3, <4>4
      <4> QED BY <2>3, <4>5
    <3>6. CASE j = i + 1
      <4>0. i \in Nat
        BY <1>12
      <4>1. ~(j <= i) /\ ~(j < i) /\ j # i /\ j - 1 = i
        BY <3>6, <4>0
      <4>2. N[p].rids[j] = b /\ N[p].keys[j] = node[p].keys[j - 1]
        BY <1>13, <3>1, <3>6, <4>1
      <4> QED BY <1>32, <2>3, <3>3, <4>1, <4>2
    <3>7. CASE j > i + 1
      <4> DEFINE k == j - 1
      <4>1. k \in 1 .. c /\ k # i /\ ~(j <= i) /\ ~(j < i) /\ j # i /\ j # i + 1
        BY <1>7, <1>12, <3>1, <3>7
      <4>2. N[p].rids[j] = node[p].rids[k] /\ N[p].keys[j] = node[p].keys[k]
        BY <1>13, <3>1, <4>1
      <4> HIDE DEF k
      <4> QED BY <2>3, <3>2, <4>1, <4>2
    <3> QED BY <1>12, <3>1, <3>4, <3>5, <3>6, <3>7
  <2>4. CASE x # n /\ x # b /\ x # p
    <3>1. x \in T /\ ~node[x].is_leaf /\ N[x].rids = node[x].rids /\ N[x].keys = node[x].keys
      BY <1>19, <1>24, <1>32, <2>4
    <3>2. j \in 1 .. Len(node[x].rids)
      BY <1>1, <1>24, <3>1, PageIs
    <3>3. node[x].rids[j] \in T /\ node[node[x].rids[j]].parent = x
      BY <1>1, <3>1, <3>2, ChildIs
    <3>4. node[x].rids[j] # n
      BY <2>4, <3>3 DEF p
    <3> QED BY <1>32, <1>33, <3>1, <3>2, <3>3, <3>4
  <2> QED BY <2>1, <2>2, <2>3, <2>4
<1>35. Filled(N, h, T2, work') /\ work' \in Works
  <2>1. /\ MinOf(h) = s /\ hdr.btree_order \in Nat /\ hdr.btree_order >= 3 /\ m = hdr.btree_order + 1
    BY <1>2, <1>3, <1>6 DEF MinOf
  <2>2. /\ \A q : q # n => Extra(work, "overflow", q) = 0
        /\ \A q : Extra(work, "underflow", q) = 0
    BY <1>3 DEF Extra
  <2>3. c <= hdr.btree_order
    <3>1. Len(node[p].rids) <= hdr.btree_order + Extra(work, "overflow", p)
      BY <1>1, <1>7 DEF Filled
    <3>2. Extra(work, "overflow", p) = 0
      BY <1>7, <2>2
    <3> QED BY <1>12, <2>1, <3>1, <3>2 DEF c
  <2>4. work' = IF c + 1 > hdr.btree_order THEN [todo |-> "overflow", page |-> p] ELSE Idle
    BY <1>5, <1>12 DEF OverflowAt
  <2>5. /\ work' \in Works
        /\ \A q : Extra(work', "underflow", q) = 0
        /\ \A q : Extra(work', "overflow", q) \in {0, 1}
        /\ c + 1 > hdr.btree_order => Extra(work', "overflow", p) = 1
    <3>1. [todo |-> "overflow", page |-> p] \in Works
      BY <1>7 DEF Works, PageOrNone
    <3> QED BY <2>4, <3>1, IdleIs DEF Extra
  <2>6. \A q \in T : q # n /\ q # p => Len(N[q].rids) = Len(node[q].rids) /\ Len(node[q].rids) \in Nat
    BY <1>1, <1>24, <1>32, PageIs
  <2>7. ASSUME NEW q \in T2 PROVE Len(N[q].rids) <= h.btree_order + Extra(work', "overflow", q)
    <3> DEFINE e == Extra(work', "overflow", q)
    <3>1. e \in {0, 1}
      BY <2>5
    <3>2. q = p /\ c + 1 > hdr.btree_order => e = 1
      BY <2>5
    <3> HIDE DEF e
    <3>3. CASE q = n \/ q = b
      BY SMTT(30), <1>6, <1>12, <1>8, <2>1, <3>1, <3>3 DEF e
    <3>4. CASE q = p
      BY <1>6, <1>12, <2>1, <2>3, <3>1, <3>2, <3>4 DEF e
    <3>5. CASE q # n /\ q # b /\ q # p
      <4>1. Len(node[q].rids) <= hdr.btree_order + 0
        BY <1>1, <1>19, <2>2, <3>5 DEF Filled
      <4> QED BY <1>6, <1>19, <2>1, <2>6, <3>1, <3>5, <4>1 DEF e
    <3> QED BY <3>3, <3>4, <3>5
  <2>8. ASSUME NEW q \in T2 \ {root} PROVE Len(N[q].rids) >= MinOf(h) - Extra(work', "underflow", q)
    <3>0. Extra(work', "underflow", q) = 0
      BY <2>5
    <3>1. CASE q = n \/ q = b
      BY <1>8, <1>12, <2>1, <3>0, <3>1
    <3>2. q \in T => Len(node[q].rids) >= s - 0
      BY <1>1, <1>3, <2>2 DEF Filled
    <3>3. CASE q = p
      <4>1. c >= s
        BY <1>7, <1>12, <3>2, <3>3 DEF c
      <4> QED BY <1>12, <2>1, <3>0, <3>3, <4>1
    <3>4. CASE q # n /\ q # b /\ q # p
      BY <1>12, <1>19, <2>1, <2>6, <3>0, <3>2, <3>4
    <3> QED BY <3>1, <3>3, <3>4
  <2>9. ~(~N[root].is_leaf /\ Len(N[root].rids) < 2)
    <3>1. CASE root = p
      <4>1. c >= 1
        BY <1>7, <1>12
      <4> QED BY <1>12, <3>1, <4>1
    <3>2. CASE root # p
      <4>1. root \in T /\ root # n
        BY <1>1, <1>7 DEF Links
      <4>2. ~(~node[root].is_leaf /\ Len(node[root].rids) < 2)
        BY <1>1, <1>2, <3>2 DEF Filled, p, n
      <4> QED BY <1>24, <2>6, <3>2, <4>1, <4>2
    <3> QED BY <3>1, <3>2
  <2>10. /\ work'.todo # "nothing" => work'.page \in T2
         /\ work'.todo = "nothing" => work' = Idle
         /\ work'.todo = "overflow" => Len(N[work'.page].rids) = h.btree_order + 1
         /\ work'.todo # "underflow"
    <3>1. CASE c + 1 > hdr.btree_order
      <4>1. work'.todo = "overflow" /\ work'.page = p /\ c = hdr.btree_order
        BY <1>12, <2>1, <2>3, <2>4, <3>1
      <4> QED BY <1>6, <1>7, <1>12, <1>19, <4>1
    <3>2. CASE ~(c + 1 > hdr.btree_order)
      BY <2>4, <3>2, IdleIs
    <3> QED BY <3>1, <3>2
  <2> QED BY <1>6, <2>5, <2>7, <2>8, <2>9, <2>10 DEF Filled
\* The leaves: where their entries were.
<1>36. ASSUME NEW x \in T2, N[x].is_leaf
       PROVE  /\ x = n \/ x = b => node[n].is_leaf
              /\ x # n /\ x # b => /\ x \in T /\ node[x].is_leaf /\ N[x].keys = node[x].keys
                                   /\ N[x].rids = node[x].rids
  BY <1>2, <1>7, <1>14, <1>19, <1>24, <1>32, <1>36
<1>37. Ascending(N, T2, nxt2)
  <2> SUFFICES ASSUME NEW x \in T2, N[x].is_leaf
               PROVE  /\ \A j, k \in DOMAIN N[x].keys : j < k => N[x].keys[j] <= N[x].keys[k]
                      /\ nxt2[x] # NDX_NO_PAGE => Last(N[x].keys) <= N[nxt2[x]].keys[1]
    BY DEF Ascending
  <2>1. ASSUME node[n].is_leaf
        PROVE  /\ \A j, k \in 1 .. m : j < k => node[n].keys[j] <= node[n].keys[k]
               /\ nxt[n] # NDX_NO_PAGE => Last(node[n].keys) <= node[nxt[n]].keys[1]
    <3>1. DOMAIN node[n].keys = 1 .. m
      BY <1>1, <1>2, PageIs DEF m
    <3> QED BY <1>1, <1>2, <2>1, <3>1 DEF Ascending
  <2>2. \A q \in T : node[q].is_leaf => N[q].keys[1] = node[q].keys[1]
    <3>1. N[n].keys[1] = node[n].keys[1]
      BY <1>8, <1>12, <1>13
    <3> QED BY <1>7, <1>32, <3>1
  <2>3. ASSUME NEW q \in T, node[q].is_leaf, nxt[q] # NDX_NO_PAGE
        PROVE  N[nxt[q]].keys[1] = node[nxt[q]].keys[1]
    <3>1. nxt[q] \in T /\ lev[nxt[q]] = lev[q]
      BY <1>1, <2>3 DEF Shape
    <3>2. node[nxt[q]].is_leaf
      BY <1>9, <2>3, <3>1
    <3> QED BY <2>2, <3>1, <3>2
  <2>4. CASE x = n
    <3>1. node[n].is_leaf
      BY <1>36, <2>4
    <3>2. \A j, k \in DOMAIN N[n].keys : j < k => N[n].keys[j] <= N[n].keys[k]
      BY <1>12, <1>13, <2>1, <3>1
    <3>3. Last(N[n].keys) <= N[b].keys[1]
      <4>1. s \in 1 .. m /\ s + 1 \in 1 .. m /\ s < s + 1 /\ 1 \in 1 .. m - s
        BY <1>12
      <4> QED BY <1>13, <1>32, <2>1, <3>1, <4>1
    <3> QED BY <1>18, <2>4, <3>2, <3>3
  <2>5. CASE x = b
    <3>1. node[n].is_leaf
      BY <1>36, <2>5
    <3>2. ASSUME NEW j \in DOMAIN N[b].keys, NEW k \in DOMAIN N[b].keys, j < k
          PROVE  N[b].keys[j] <= N[b].keys[k]
      <4>1. s + j \in 1 .. m /\ s + k \in 1 .. m /\ s + j < s + k
        BY <1>12, <3>2
      <4>2. N[b].keys[j] = node[n].keys[s + j] /\ N[b].keys[k] = node[n].keys[s + k]
        BY <1>12, <1>13
      <4> QED BY <2>1, <3>1, <4>1, <4>2
    <3>3. nxt[n] # NDX_NO_PAGE => Last(N[b].keys) <= N[nxt[n]].keys[1]
      BY <1>2, <1>32, <2>1, <2>3, <3>1
    <3> QED BY <1>18, <2>5, <3>2, <3>3
  <2>6. CASE x # n /\ x # b
    <3>1. x \in T /\ node[x].is_leaf /\ N[x].keys = node[x].keys /\ nxt2[x] = nxt[x]
      BY <1>18, <1>24, <1>36, <2>6
    <3> QED BY <1>1, <2>3, <3>1 DEF Ascending
  <2> QED BY <2>4, <2>5, <2>6
<1>38. EntriesOK(N, T2)
  <2> DEFINE at(x) == IF x = b THEN n ELSE x
             to(x, j) == IF x = b THEN s + j ELSE j
  <2>1. ASSUME NEW x \in T2, N[x].is_leaf, NEW j \in DOMAIN N[x].rids
        PROVE  /\ at(x) \in T /\ node[at(x)].is_leaf /\ to(x, j) \in DOMAIN node[at(x)].rids
               /\ N[x].rids[j] = node[at(x)].rids[to(x, j)]
               /\ N[x].keys[j] = node[at(x)].keys[to(x, j)]
    <3>0. DOMAIN node[n].rids = 1 .. m
      BY <1>1, <1>2, PageIs DEF m
    <3>1. CASE x = n
      <4>1. j \in 1 .. s /\ j \in 1 .. m
        BY <1>12, <3>1
      <4> QED BY <1>2, <1>13, <1>19, <1>36, <2>1, <3>0, <3>1, <4>1
    <3>2. CASE x = b
      <4>1. j \in 1 .. m - s /\ s + j \in 1 .. m
        BY <1>12, <3>2
      <4> QED BY <1>2, <1>13, <1>36, <2>1, <3>0, <3>2, <4>1
    <3>3. CASE x # n /\ x # b
      BY <1>36, <2>1, <3>3
    <3> QED BY <3>1, <3>2, <3>3
  <2>2. ASSUME NEW x \in T2, N[x].is_leaf, NEW j \in DOMAIN N[x].rids,
               NEW y \in T2, N[y].is_leaf, NEW k \in DOMAIN N[y].rids,
               at(x) = at(y), to(x, j) = to(y, k)
        PROVE  x = y /\ j = k
    <3>1. (x = n => j <= s) /\ (y = n => k <= s) /\ (x = b => j \in 1 .. m - s) /\ (y = b => k \in 1 .. m - s)
      BY <1>12
    <3> QED BY <1>12, <1>19, <2>2, <3>1
  <2> HIDE DEF at, to
  <2>3. ASSUME NEW x \in T2, N[x].is_leaf, NEW j \in DOMAIN N[x].rids
        PROVE  <<N[x].keys[j], N[x].rids[j]>> \in Entry
    <3>1. <<node[at(x)].keys[to(x, j)], node[at(x)].rids[to(x, j)]>> \in Entry
      BY <1>1, <2>1, <2>3 DEF EntriesOK
    <3> QED BY <2>1, <2>3, <3>1
  <2>4. ASSUME NEW x \in T2, N[x].is_leaf, NEW j \in DOMAIN N[x].rids,
               NEW y \in T2, N[y].is_leaf, NEW k \in DOMAIN N[y].rids,
               N[x].rids[j] = N[y].rids[k]
        PROVE  x = y /\ j = k
    <3>1. node[at(x)].rids[to(x, j)] = node[at(y)].rids[to(y, k)]
      BY <2>1, <2>4
    <3>2. at(x) = at(y) /\ to(x, j) = to(y, k)
      BY <1>1, <2>1, <2>4, <3>1 DEF EntriesOK
    <3> QED BY <2>2, <2>4, <3>2
  <2> QED BY <2>3, <2>4 DEF EntriesOK
<1>39. Index(N, h, work', T2, lev2, nxt2, fl2)
  BY <1>6, <1>11, <1>17, <1>20, <1>21, <1>29, <1>31, <1>34, <1>35, <1>37, <1>38 DEF Index
\* The entries.
<1>40. ~node[b].is_leaf /\ ~node[p].is_leaf /\ ~N[p].is_leaf
  BY <1>1, <1>4, <1>7, <1>14, <1>19 DEF Blank, p
<1>41. DOMAIN node[n].rids = 1 .. m
  BY <1>1, <1>19, PageIs DEF m
<1>42. ASSUME NEW x, NEW y, Has(N, x, y) PROVE Has(node, x, y)
  <2>1. PICK q \in Pages : N[q].is_leaf /\ \E j \in DOMAIN N[q].rids : N[q].keys[j] = x /\ N[q].rids[j] = y
    BY <1>42 DEF Has
  <2>2. PICK j \in DOMAIN N[q].rids : N[q].keys[j] = x /\ N[q].rids[j] = y
    BY <2>1
  <2>3. CASE q = n
    <3>1. j \in 1 .. s /\ j \in DOMAIN node[n].rids
      BY <1>12, <1>41, <2>3
    <3> QED BY <1>13, <1>14, <1>19, <2>1, <2>2, <2>3, <3>1 DEF Has
  <2>4. CASE q = b
    <3>1. j \in 1 .. m - s /\ s + j \in DOMAIN node[n].rids
      BY <1>12, <1>41, <2>4
    <3> QED BY <1>13, <1>14, <1>19, <2>1, <2>2, <2>4, <3>1 DEF Has
  <2>5. CASE q # n /\ q # b
    <3>1. q # p /\ node[q].is_leaf
      BY <1>14, <1>40, <2>1, <2>5
    <3> QED BY <1>14, <2>2, <2>5, <3>1 DEF Has
  <2> QED BY <2>3, <2>4, <2>5
<1>43. ASSUME NEW x, NEW y, Has(node, x, y) PROVE Has(N, x, y)
  <2>1. PICK q \in Pages : node[q].is_leaf /\ \E j \in DOMAIN node[q].rids : node[q].keys[j] = x /\ node[q].rids[j] = y
    BY <1>43 DEF Has
  <2>2. PICK j \in DOMAIN node[q].rids : node[q].keys[j] = x /\ node[q].rids[j] = y
    BY <2>1
  <2>3. CASE q = n
    <3>1. CASE j <= s
      <4>1. j \in 1 .. s
        BY <1>12, <1>41, <2>3, <3>1
      <4> QED BY <1>12, <1>13, <1>14, <1>19, <2>1, <2>2, <2>3, <4>1 DEF Has
    <3>2. CASE ~(j <= s)
      <4>1. j - s \in 1 .. m - s /\ s + (j - s) = j
        BY <1>12, <1>41, <2>3, <3>2
      <4>2. j - s \in DOMAIN N[b].rids /\ N[b].keys[j - s] = x /\ N[b].rids[j - s] = y /\ N[b].is_leaf
        BY <1>12, <1>13, <1>14, <2>1, <2>2, <2>3, <4>1
      <4> QED BY <1>19, <4>2 DEF Has
    <3> QED BY <3>1, <3>2
  <2>4. CASE q # n
    <3>1. q # p /\ q # b /\ N[q].is_leaf
      BY <1>14, <1>40, <2>1, <2>4
    <3> QED BY <1>14, <2>2, <2>4, <3>1 DEF Has
  <2> QED BY <2>3, <2>4
<1>44. SameEntries(N)
  BY <1>42, <1>43 DEF SameEntries
<1> QED
  BY <1>39, <1>44 DEF IInv, N, h

\* Two children of p side by side.
Brothers(T, lev, nxt, p, i, l, r) ==
  /\ p \in T /\ l \in T /\ r \in T /\ p \in Pages /\ l \in Pages /\ r \in Pages
  /\ l # r /\ l # p /\ r # p /\ l # hdr.root_page /\ r # hdr.root_page
  /\ ~node[p].is_leaf /\ i \in Nat /\ i \in 1 .. Len(node[p].rids) - 1 /\ i + 1 \in 1 .. Len(node[p].rids)
  /\ node[p].rids[i] = l /\ node[p].rids[i + 1] = r
  /\ \A j \in 1 .. Len(node[p].rids) : (node[p].rids[j] = l => j = i) /\ (node[p].rids[j] = r => j = i + 1)
  /\ node[l].parent = p /\ node[r].parent = p
  /\ lev[l] \in Nat /\ lev[r] = lev[l] /\ lev[p] = lev[l] + 1
  /\ node[r].is_leaf = node[l].is_leaf
  /\ nxt[l] = r /\ nxt[r] # l /\ nxt[r] # r /\ nxt[r] # p

LEMMA BrothersAre ==
  ASSUME NEW T, NEW lev, NEW nxt, Typed(node), Shape(T, lev, nxt), Links(node, hdr.root_page, T, lev, nxt),
         NEW p \in T, ~node[p].is_leaf, NEW i \in 1 .. Len(node[p].rids) - 1
  PROVE  Brothers(T, lev, nxt, p, i, node[p].rids[i], node[p].rids[i + 1])
<1> DEFINE c == Len(node[p].rids)
           l == node[p].rids[i]
           r == node[p].rids[i + 1]
<1>1. p \in Pages /\ c \in Nat /\ DOMAIN node[p].rids = 1 .. c
  <2>1. p \in Pages
    BY InnerIs
  <2> QED BY <2>1, PageIs
<1>2. i \in Nat /\ i \in 1 .. c /\ i + 1 \in 1 .. c /\ i < c /\ i + 1 # i
  BY <1>1
<1>3. /\ l \in T /\ l \in Pages /\ node[l].parent = p /\ l # p /\ l # hdr.root_page
      /\ lev[p] = lev[l] + 1 /\ lev[l] \in Nat /\ nxt[l] = r
  BY <1>2, ChildIs
<1> DEFINE i1 == i + 1
<1>4. /\ r \in T /\ r \in Pages /\ node[r].parent = p /\ r # p /\ r # hdr.root_page
      /\ lev[p] = lev[r] + 1 /\ lev[r] \in Nat
      /\ nxt[r] = IF i1 < c THEN node[p].rids[i1 + 1] ELSE FirstOfNext(node, nxt, p)
  <2>1. i1 \in 1 .. Len(node[p].rids) /\ r = node[p].rids[i1]
    BY <1>2
  <2> HIDE DEF i1
  <2> QED BY <2>1, ChildIs
<1>5. IsInjective(node[p].rids)
  BY DEF Links, ChildrenOK
<1>6. \A j, k \in 1 .. c : node[p].rids[j] = node[p].rids[k] => j = k
  BY <1>1, <1>5 DEF IsInjective
<1>7. l # r
  BY <1>2, <1>6
<1>8. nxt[r] # r
  BY <1>4, NextOther
<1>9. nxt[r] # p
  <2> SUFFICES ASSUME nxt[r] = p PROVE FALSE
    OBVIOUS
  <2> HIDE DEF l, r, c, i1
  <2>1. p # NDX_NO_PAGE
    BY <1>1, Constants
  <2>2. lev[p] = lev[r]
    BY <1>4, <2>1, InnerIs
  <2>3. lev[p] = lev[r] + 1 /\ lev[r] \in Nat
    BY <1>4
  <2> QED BY <2>2, <2>3
<1>10. node[r].is_leaf = node[l].is_leaf
  <2>1. (node[r].is_leaf <=> lev[r] = 0) /\ (node[l].is_leaf <=> lev[l] = 0)
    BY <1>3, <1>4, InnerIs
  <2>2. node[r].is_leaf \in BOOLEAN /\ node[l].is_leaf \in BOOLEAN /\ lev[l] = lev[r]
    BY <1>3, <1>4, PageIs
  <2> QED BY <2>1, <2>2
<1>11. nxt[r] # l
  <2> SUFFICES ASSUME nxt[r] = l PROVE FALSE
    OBVIOUS
  <2>1. CASE i1 < c
    <3>1. i1 + 1 \in 1 .. c /\ i1 + 1 # i
      BY <1>2, <2>1
    <3>2. node[p].rids[i1 + 1] = l
      BY <1>4, <2>1
    <3> QED BY <1>2, <1>6, <3>1, <3>2
  <2>2. CASE ~(i1 < c)
    <3>1. FirstOfNext(node, nxt, p) = l
      BY <1>4, <2>2
    <3>2. l # NDX_NO_PAGE
      BY <1>3, Constants
    <3> DEFINE x == nxt[p]
    <3>3. x # NDX_NO_PAGE /\ node[x].rids[1] = l
      BY <3>1, <3>2 DEF FirstOfNext
    <3>4. x \in T /\ x \in Pages /\ lev[x] = lev[p]
      BY <3>3, InnerIs
    <3>5. ~node[x].is_leaf
      <4> HIDE DEF x
      <4>1. lev[x] # 0
        BY <1>3, <3>4
      <4> QED BY <3>4, <4>1, InnerIs
    <3>6. 1 \in 1 .. Len(node[x].rids)
      BY <3>4, <3>5, InnerIs
    <3>7. node[l].parent = x
      BY <3>3, <3>4, <3>5, <3>6, ChildIs
    <3> QED BY <1>3, <3>7, NextOther
  <2> QED BY <2>1, <2>2
<1>12. \A j \in 1 .. c : (node[p].rids[j] = l => j = i) /\ (node[p].rids[j] = r => j = i + 1)
  BY <1>2, <1>6
<1> HIDE DEF l, r, c, i1
<1>13. i \in 1 .. c - 1
  BY DEF c
<1>14. lev[r] = lev[l]
  BY <1>3, <1>4
<1>15. l = node[p].rids[i] /\ r = node[p].rids[i + 1]
  BY DEF l, r
<1>16. Brothers(T, lev, nxt, p, i, l, r)
  BY <1>1, <1>2, <1>3, <1>4, <1>7, <1>8, <1>9, <1>10, <1>11, <1>12, <1>13, <1>14, <1>15 DEF Brothers, c
<1> QED
  BY <1>15, <1>16

\* No node but the root is without entries.
LEMMA NotEmpty ==
  ASSUME NEW T, NEW h \in Header, NEW N, Typed(N), NEW w, T \subseteq Pages, Filled(N, h, T, w),
         NEW q \in T, q # h.root_page
  PROVE  /\ Len(N[q].rids) \in Nat /\ Len(N[q].rids) >= 1 /\ 1 \in 1 .. Len(N[q].rids)
         /\ Len(N[q].keys) = Len(N[q].rids) /\ N[q].keys # << >> /\ N[q].rids # << >>
<1>1. Len(N[q].rids) \in Nat /\ Len(N[q].keys) = Len(N[q].rids)
  BY PageIs
<1>2. Extra(w, "underflow", q) \in {0, 1}
  BY DEF Extra
<1>3. MinOf(h) \in Nat /\ MinOf(h) >= 2
  BY Fill
<1>4. Len(N[q].rids) >= MinOf(h) - Extra(w, "underflow", q)
  BY DEF Filled
<1> DEFINE m == Len(N[q].rids)
           e == Extra(w, "underflow", q)
<1> HIDE DEF m, e
<1>5. m >= 1
  BY <1>1, <1>2, <1>3, <1>4 DEF m, e
<1>6. m \in Nat /\ Len(N[q].keys) = m
  BY <1>1 DEF m
<1>7. 1 \in 1 .. m
  BY <1>5, <1>6
<1>8. N[q].keys # << >> /\ N[q].rids # << >>
  BY <1>1, <1>5 DEF m
<1> QED
  BY <1>1, <1>5, <1>7, <1>8 DEF m

\* The entries of two nodes side by side.
RidOf(l, r, j) == IF j <= Len(node[l].rids) THEN node[l].rids[j] ELSE node[r].rids[j - Len(node[l].rids)]
KeyOf(l, r, j) == IF j <= Len(node[l].rids) THEN node[l].keys[j] ELSE node[r].keys[j - Len(node[l].rids)]
Both(l, r) == Len(node[l].rids) + Len(node[r].rids)

\* The children of the two.
LEMMA BothChildren ==
  ASSUME NEW T, NEW lev, NEW nxt, Typed(node), Shape(T, lev, nxt), Links(node, hdr.root_page, T, lev, nxt),
         KeysOK(node, T, NDX_NO_PAGE),
         NEW p, NEW i, NEW l, NEW r, Brothers(T, lev, nxt, p, i, l, r), ~node[l].is_leaf,
         NEW j \in 1 .. Both(l, r)
  PROVE  LET q == RidOf(l, r, j) IN
         /\ q \in T /\ q \in Pages /\ q # l /\ q # r /\ q # p /\ q # hdr.root_page
         /\ node[q].parent = IF j <= Len(node[l].rids) THEN l ELSE r
         /\ lev[l] = lev[q] + 1 /\ lev[q] \in Nat
         /\ nxt[q] = IF j < Both(l, r) THEN RidOf(l, r, j + 1) ELSE FirstOfNext(node, nxt, r)
         /\ KeyOf(l, r, j) = Last(node[q].keys)
         /\ \A k \in 1 .. Both(l, r) : RidOf(l, r, k) = q => k = j
<1> DEFINE a == Len(node[l].rids)
           d == Len(node[r].rids)
           q == RidOf(l, r, j)
<1>1. /\ p \in T /\ l \in T /\ r \in T /\ p \in Pages /\ l \in Pages /\ r \in Pages
      /\ l # r /\ l # p /\ r # p /\ ~node[r].is_leaf
      /\ lev[l] \in Nat /\ lev[r] = lev[l] /\ lev[p] = lev[l] + 1
      /\ nxt[l] = r
  BY DEF Brothers
<1>2. a \in Nat /\ d \in Nat /\ j \in 1 .. a + d /\ DOMAIN node[l].rids = 1 .. a /\ DOMAIN node[r].rids = 1 .. d
      /\ a >= 1 /\ d >= 1
  <2>1. a \in Nat /\ d \in Nat /\ DOMAIN node[l].rids = 1 .. a /\ DOMAIN node[r].rids = 1 .. d
    BY <1>1, PageIs
  <2>2. 1 \in 1 .. a /\ 1 \in 1 .. d
    BY <1>1, InnerIs
  <2>3. j \in 1 .. a + d
    BY DEF Both
  <2> HIDE DEF a, d
  <2> QED BY <2>1, <2>2, <2>3
<1>3. ASSUME NEW k \in 1 .. a
      PROVE  LET x == node[l].rids[k] IN
             /\ x \in T /\ x \in Pages /\ node[x].parent = l /\ x # l /\ x # hdr.root_page
             /\ lev[l] = lev[x] + 1 /\ lev[x] \in Nat
             /\ nxt[x] = (IF k < a THEN node[l].rids[k + 1] ELSE FirstOfNext(node, nxt, l))
             /\ node[l].keys[k] = Last(node[x].keys)
  <2> DEFINE x == node[l].rids[k]
  <2>1. /\ x \in T /\ x \in Pages /\ node[x].parent = l /\ x # l /\ x # hdr.root_page
        /\ lev[l] = lev[x] + 1 /\ lev[x] \in Nat
        /\ nxt[x] = (IF k < a THEN node[l].rids[k + 1] ELSE FirstOfNext(node, nxt, l))
    BY <1>1, ChildIs
  <2>2. x # NDX_NO_PAGE /\ k \in DOMAIN node[l].rids
    BY <1>2, <2>1, Constants
  <2>3. node[l].keys[k] = Last(node[x].keys)
    BY <1>1, <2>2 DEF KeysOK
  <2> QED BY <2>1, <2>3
<1>4. ASSUME NEW k \in 1 .. d
      PROVE  LET x == node[r].rids[k] IN
             /\ x \in T /\ x \in Pages /\ node[x].parent = r /\ x # r /\ x # hdr.root_page
             /\ lev[r] = lev[x] + 1 /\ lev[x] \in Nat
             /\ nxt[x] = (IF k < d THEN node[r].rids[k + 1] ELSE FirstOfNext(node, nxt, r))
             /\ node[r].keys[k] = Last(node[x].keys)
  <2> DEFINE x == node[r].rids[k]
  <2>1. /\ x \in T /\ x \in Pages /\ node[x].parent = r /\ x # r /\ x # hdr.root_page
        /\ lev[r] = lev[x] + 1 /\ lev[x] \in Nat
        /\ nxt[x] = (IF k < d THEN node[r].rids[k + 1] ELSE FirstOfNext(node, nxt, r))
    BY <1>1, ChildIs
  <2>2. x # NDX_NO_PAGE /\ k \in DOMAIN node[r].rids
    BY <1>2, <2>1, Constants
  <2>3. node[r].keys[k] = Last(node[x].keys)
    BY <1>1, <2>2 DEF KeysOK
  <2> QED BY <2>1, <2>3
<1>5. /\ \A k, k2 \in 1 .. a : node[l].rids[k] = node[l].rids[k2] => k = k2
      /\ \A k, k2 \in 1 .. d : node[r].rids[k] = node[r].rids[k2] => k = k2
  BY <1>1, <1>2 DEF Links, ChildrenOK, IsInjective
<1>6. FirstOfNext(node, nxt, l) = node[r].rids[1]
  BY <1>1, Constants DEF FirstOfNext
<1> HIDE DEF a, d, q
<1>7. \A k : RidOf(l, r, k) = IF k <= a THEN node[l].rids[k] ELSE node[r].rids[k - a]
  BY DEF RidOf, a
<1>8. \A k : KeyOf(l, r, k) = IF k <= a THEN node[l].keys[k] ELSE node[r].keys[k - a]
  BY DEF KeyOf, a
<1>9. \A k \in 1 .. a + d : (k <= a => k \in 1 .. a) /\ (~(k <= a) => k - a \in 1 .. d)
  BY <1>2
<1>10. CASE j <= a
  <2>1. j \in 1 .. a /\ q = node[l].rids[j] /\ KeyOf(l, r, j) = node[l].keys[j]
    BY <1>7, <1>8, <1>9, <1>2, <1>10 DEF q
  <2>2. /\ q \in T /\ q \in Pages /\ node[q].parent = l /\ q # l /\ q # hdr.root_page
        /\ lev[l] = lev[q] + 1 /\ lev[q] \in Nat
        /\ nxt[q] = (IF j < a THEN node[l].rids[j + 1] ELSE FirstOfNext(node, nxt, l))
        /\ node[l].keys[j] = Last(node[q].keys)
    BY <1>3, <2>1
  <2>3. q # r /\ q # p
    BY <1>1, <2>2
  <2>4. j < a + d /\ nxt[q] = RidOf(l, r, j + 1)
    <3>1. CASE j < a
      <4>1. j + 1 <= a /\ j < a + d
        BY <1>2, <3>1
      <4> QED BY <1>7, <2>2, <3>1, <4>1
    <3>2. CASE ~(j < a)
      <4>1. ~(j + 1 <= a) /\ (j + 1) - a = 1 /\ j < a + d
        BY <1>2, <1>10, <3>2
      <4> QED BY <1>6, <1>7, <2>2, <3>2, <4>1
    <3> QED BY <3>1, <3>2
  <2>5. ASSUME NEW k \in 1 .. a + d, RidOf(l, r, k) = q PROVE k = j
    <3>1. CASE k <= a
      BY <1>5, <1>7, <1>9, <2>1, <2>5, <3>1
    <3>2. CASE ~(k <= a)
      BY <1>1, <1>4, <1>7, <1>9, <2>2, <2>5, <3>2
    <3> QED BY <3>1, <3>2
  <2> QED BY <1>10, <2>1, <2>2, <2>3, <2>4, <2>5 DEF q, a, d, Both
<1>11. CASE ~(j <= a)
  <2> DEFINE k == j - a
  <2>1. k \in 1 .. d /\ q = node[r].rids[k] /\ KeyOf(l, r, j) = node[r].keys[k] /\ j = a + k
    BY <1>7, <1>8, <1>9, <1>2, <1>11 DEF q
  <2> HIDE DEF k
  <2>2. /\ q \in T /\ q \in Pages /\ node[q].parent = r /\ q # r /\ q # hdr.root_page
        /\ lev[r] = lev[q] + 1 /\ lev[q] \in Nat
        /\ nxt[q] = (IF k < d THEN node[r].rids[k + 1] ELSE FirstOfNext(node, nxt, r))
        /\ node[r].keys[k] = Last(node[q].keys)
    BY <1>4, <2>1
  <2>3. q # l /\ q # p
    <3>1. lev[l] = lev[q] + 1 /\ lev[p] = lev[l] + 1 /\ lev[l] \in Nat
      BY <1>1, <2>2
    <3> QED BY <2>2, <3>1
  <2>4. nxt[q] = IF j < a + d THEN RidOf(l, r, j + 1) ELSE FirstOfNext(node, nxt, r)
    <3>1. ~(j + 1 <= a) /\ (j + 1) - a = k + 1 /\ (j < a + d <=> k < d)
      BY <1>2, <2>1
    <3>2. RidOf(l, r, j + 1) = node[r].rids[k + 1]
      BY <1>7, <3>1
    <3> QED BY <2>2, <3>1, <3>2
  <2>5. ASSUME NEW k2 \in 1 .. a + d, RidOf(l, r, k2) = q PROVE k2 = j
    <3>1. CASE k2 <= a
      BY <1>1, <1>3, <1>7, <1>9, <2>2, <2>5, <3>1
    <3>2. CASE ~(k2 <= a)
      <4>1. k2 - a \in 1 .. d /\ node[r].rids[k2 - a] = node[r].rids[k]
        BY <1>7, <1>9, <2>1, <2>5, <3>2
      <4>2. k2 - a = k
        BY <1>5, <2>1, <4>1
      <4> QED BY <1>2, <2>1, <4>2
    <3> QED BY <3>1, <3>2
  <2> QED BY <1>1, <1>11, <2>1, <2>2, <2>3, <2>4, <2>5 DEF q, a, d, Both
<1> QED
  BY <1>10, <1>11

\* A sequence with a member more or less.
Inserts(t, s, i, e) ==
  /\ Len(t) = Len(s) + 1
  /\ \A j \in 1 .. Len(s) + 1 : t[j] = IF j < i THEN s[j] ELSE IF j = i THEN e ELSE s[j - 1]

Removes(t, s, i) ==
  /\ Len(t) = Len(s) - 1
  /\ \A j \in 1 .. Len(s) - 1 : t[j] = IF j < i THEN s[j] ELSE s[j + 1]

LEMMA InsertedIs ==
  ASSUME NEW S, NEW s \in Seq(S), NEW i \in 1 .. Len(s) + 1, NEW e \in S
  PROVE  InsertAt(s, i, e) \in Seq(S) /\ Inserts(InsertAt(s, i, e), s, i, e)
<1> DEFINE t == InsertAt(s, i, e)
<1>1. /\ t \in Seq(S) /\ Len(t) = Len(s) + 1
      /\ \A j \in 1 .. Len(s) + 1 : t[j] = IF j < i THEN s[j] ELSE IF j = i THEN e ELSE s[j - 1]
  BY InsertAtIs
<1> HIDE DEF t
<1>2. t \in Seq(S) /\ Inserts(t, s, i, e)
  BY <1>1 DEF Inserts
<1> QED
  BY <1>2 DEF t

LEMMA RemovedIs ==
  ASSUME NEW S, NEW s \in Seq(S), NEW i \in 1 .. Len(s)
  PROVE  RemoveAt(s, i) \in Seq(S) /\ Removes(RemoveAt(s, i), s, i)
<1> DEFINE t == RemoveAt(s, i)
<1>1. /\ t \in Seq(S) /\ Len(t) = Len(s) - 1
      /\ \A j \in 1 .. Len(s) - 1 : t[j] = IF j < i THEN s[j] ELSE s[j + 1]
  BY RemoveAtIs
<1> HIDE DEF t
<1>2. t \in Seq(S) /\ Removes(t, s, i)
  BY <1>1 DEF Removes
<1> QED
  BY <1>2 DEF t

\* A node with a pair more or less.
PairIn(q, n, S, i, k, x) ==
  /\ q \in Nodes /\ q.rids \in Seq(S) /\ Len(q.keys) = Len(q.rids)
  /\ Inserts(q.rids, n.rids, i, x) /\ Inserts(q.keys, n.keys, i, k)
  /\ q.is_leaf = n.is_leaf /\ q.parent = n.parent /\ q.next_free = n.next_free
  /\ q.next_leaf = n.next_leaf /\ q.prev_leaf = n.prev_leaf

PairOut(q, n, S, i) ==
  /\ q \in Nodes /\ q.rids \in Seq(S) /\ Len(q.keys) = Len(q.rids)
  /\ Removes(q.rids, n.rids, i) /\ Removes(q.keys, n.keys, i)
  /\ q.is_leaf = n.is_leaf /\ q.parent = n.parent /\ q.next_free = n.next_free
  /\ q.next_leaf = n.next_leaf /\ q.prev_leaf = n.prev_leaf

LEMMA InsertPairIs ==
  ASSUME NEW n \in Nodes, Len(n.keys) = Len(n.rids), NEW S, S = Rids \/ S = Pages, n.rids \in Seq(S),
         NEW i \in 1 .. Len(n.rids) + 1, NEW k \in Keys, NEW x \in S,
         NEW q, q = InsertPair(n, i, k, x)
  PROVE  PairIn(q, n, S, i, k, x)
<1> DEFINE ks == InsertAt(n.keys, i, k)
           rs == InsertAt(n.rids, i, x)
<1>1. q = [n EXCEPT !.keys = ks, !.rids = rs]
  BY DEF InsertPair
<1>2. n.keys \in Seq(Keys) /\ i \in 1 .. Len(n.keys) + 1
  BY DEF Nodes
<1>3. ks \in Seq(Keys) /\ Inserts(ks, n.keys, i, k)
  BY <1>2, InsertedIs
<1>4. rs \in Seq(S) /\ Inserts(rs, n.rids, i, x)
  BY InsertedIs
<1> HIDE DEF ks, rs
<1>5. rs \in Seq(Rids) \cup Seq(Pages)
  BY <1>4
<1>6. /\ q \in Nodes /\ q.keys = ks /\ q.rids = rs
      /\ q.is_leaf = n.is_leaf /\ q.parent = n.parent /\ q.next_free = n.next_free
      /\ q.next_leaf = n.next_leaf /\ q.prev_leaf = n.prev_leaf
  BY <1>1, <1>3, <1>5 DEF Nodes
<1>7. Len(ks) = Len(rs)
  BY <1>3, <1>4 DEF Inserts
<1> QED
  BY <1>3, <1>4, <1>6, <1>7 DEF PairIn

LEMMA ErasePairIs ==
  ASSUME NEW n \in Nodes, Len(n.keys) = Len(n.rids), NEW S, S = Rids \/ S = Pages, n.rids \in Seq(S),
         NEW i \in 1 .. Len(n.rids), NEW q, q = ErasePair(n, i)
  PROVE  PairOut(q, n, S, i)
<1> DEFINE ks == RemoveAt(n.keys, i)
           rs == RemoveAt(n.rids, i)
<1>1. q = [n EXCEPT !.keys = ks, !.rids = rs]
  BY DEF ErasePair
<1>2. n.keys \in Seq(Keys) /\ i \in 1 .. Len(n.keys)
  BY DEF Nodes
<1>3. ks \in Seq(Keys) /\ Removes(ks, n.keys, i)
  BY <1>2, RemovedIs
<1>4. rs \in Seq(S) /\ Removes(rs, n.rids, i)
  BY RemovedIs
<1> HIDE DEF ks, rs
<1>5. rs \in Seq(Rids) \cup Seq(Pages)
  BY <1>4
<1>6. /\ q \in Nodes /\ q.keys = ks /\ q.rids = rs
      /\ q.is_leaf = n.is_leaf /\ q.parent = n.parent /\ q.next_free = n.next_free
      /\ q.next_leaf = n.next_leaf /\ q.prev_leaf = n.prev_leaf
  BY <1>1, <1>3, <1>5 DEF Nodes
<1>7. Len(ks) = Len(rs)
  BY <1>3, <1>4 DEF Removes
<1> QED
  BY <1>3, <1>4, <1>6, <1>7 DEF PairOut

\* What a page points to, and what it is.
SameFields(M, q) ==
  /\ M[q].is_leaf = node[q].is_leaf /\ M[q].parent = node[q].parent
  /\ M[q].next_free = node[q].next_free
  /\ M[q].next_leaf = node[q].next_leaf /\ M[q].prev_leaf = node[q].prev_leaf

\* The pages M after l and r have shared their entries anew: l has the first k.
Shifts(M, l, r, k) ==
  /\ M \in [Pages -> Nodes]
  /\ Len(M[l].rids) = k /\ Len(M[l].keys) = k
  /\ Len(M[r].rids) = Both(l, r) - k /\ Len(M[r].keys) = Both(l, r) - k
  /\ \A j \in 1 .. k : M[l].rids[j] = RidOf(l, r, j) /\ M[l].keys[j] = KeyOf(l, r, j)
  /\ \A j \in 1 .. Both(l, r) - k : M[r].rids[j] = RidOf(l, r, k + j) /\ M[r].keys[j] = KeyOf(l, r, k + j)
  /\ node[l].is_leaf => M[l].rids \in Seq(Rids) /\ M[r].rids \in Seq(Rids)
  /\ ~node[l].is_leaf => M[l].rids \in Seq(Pages) /\ M[r].rids \in Seq(Pages)
  /\ \A q \in Pages \ {l, r} : M[q] = node[q]
  /\ \A q \in Pages : SameFields(M, q)

LEMMA GivesLast ==
  ASSUME Typed(node), NEW l \in Pages, NEW r \in Pages, l # r, node[r].is_leaf = node[l].is_leaf,
         NEW last, last = Len(node[l].rids), last >= 1,
         NEW M, M = [node EXCEPT ![r] = InsertPair(@, 1, node[l].keys[last], node[l].rids[last]),
                                 ![l] = ErasePair(@, last)]
  PROVE  Shifts(M, l, r, last - 1)
<1> DEFINE d == Len(node[r].rids)
           x == InsertPair(node[r], 1, node[l].keys[last], node[l].rids[last])
           y == ErasePair(node[l], last)
           S == IF node[l].is_leaf THEN Rids ELSE Pages
<1>1. /\ node \in [Pages -> Nodes] /\ node[l] \in Nodes /\ node[r] \in Nodes
      /\ Len(node[l].keys) = last /\ Len(node[r].keys) = d /\ d \in Nat /\ last \in Nat
      /\ node[l].rids \in Seq(S) /\ node[r].rids \in Seq(S) /\ (S = Rids \/ S = Pages)
      /\ node[l].keys \in Seq(Keys) /\ node[l].is_leaf \in BOOLEAN
      /\ (node[l].is_leaf => S = Rids) /\ (~node[l].is_leaf => S = Pages)
  BY PageIs DEF Typed
<1> HIDE DEF S
<1>2. last \in 1 .. Len(node[l].rids) /\ last \in 1 .. Len(node[l].keys) /\ 1 \in 1 .. Len(node[r].rids) + 1
  BY <1>1
<1>3. node[l].keys[last] \in Keys /\ node[l].rids[last] \in S
  BY <1>1, <1>2
<1>4. /\ x \in Nodes /\ x.rids \in Seq(S)
      /\ Len(x.rids) = d + 1 /\ Len(x.keys) = d + 1
      /\ \A j \in 1 .. d + 1 :
           /\ x.rids[j] = IF j < 1 THEN node[r].rids[j] ELSE IF j = 1 THEN node[l].rids[last] ELSE node[r].rids[j - 1]
           /\ x.keys[j] = IF j < 1 THEN node[r].keys[j] ELSE IF j = 1 THEN node[l].keys[last] ELSE node[r].keys[j - 1]
      /\ x.is_leaf = node[r].is_leaf /\ x.parent = node[r].parent /\ x.next_free = node[r].next_free
      /\ x.next_leaf = node[r].next_leaf /\ x.prev_leaf = node[r].prev_leaf
  <2>1. PairIn(x, node[r], S, 1, node[l].keys[last], node[l].rids[last])
    <3> HIDE DEF d
    <3> QED BY <1>1, <1>2, <1>3, InsertPairIs DEF d
  <2> HIDE DEF x
  <2> QED BY <1>1, <2>1 DEF PairIn, Inserts
<1>5. /\ y \in Nodes /\ y.rids \in Seq(S)
      /\ Len(y.rids) = last - 1 /\ Len(y.keys) = last - 1
      /\ \A j \in 1 .. last - 1 :
           /\ y.rids[j] = IF j < last THEN node[l].rids[j] ELSE node[l].rids[j + 1]
           /\ y.keys[j] = IF j < last THEN node[l].keys[j] ELSE node[l].keys[j + 1]
      /\ y.is_leaf = node[l].is_leaf /\ y.parent = node[l].parent /\ y.next_free = node[l].next_free
      /\ y.next_leaf = node[l].next_leaf /\ y.prev_leaf = node[l].prev_leaf
  <2>1. PairOut(y, node[l], S, last)
    BY <1>1, <1>2, ErasePairIs
  <2> HIDE DEF y
  <2> QED BY <1>1, <2>1 DEF PairOut, Removes
<1> HIDE DEF x, y, d
<1>6. M \in [Pages -> Nodes] /\ M[r] = x /\ M[l] = y /\ \A q \in Pages \ {l, r} : M[q] = node[q]
  BY <1>1, <1>4, <1>5 DEF x, y
<1> DEFINE k == last - 1
<1>7. k \in Nat /\ last = k + 1 /\ Both(l, r) - k = d + 1
  <2>1. Both(l, r) = last + d
    BY DEF Both, d
  <2>2. d \in Nat /\ last \in Nat
    BY <1>1
  <2> QED BY <2>1, <2>2
<1>8. ASSUME NEW j \in 1 .. k
      PROVE  M[l].rids[j] = RidOf(l, r, j) /\ M[l].keys[j] = KeyOf(l, r, j)
  <2>1. j < last /\ j <= Len(node[l].rids)
    BY <1>1
  <2> QED BY <1>5, <1>6, <2>1 DEF RidOf, KeyOf
<1>9. ASSUME NEW j \in 1 .. d + 1
      PROVE  M[r].rids[j] = RidOf(l, r, k + j) /\ M[r].keys[j] = KeyOf(l, r, k + j)
  <2>1. CASE j = 1
    <3>1. k + j = last /\ k + j <= Len(node[l].rids) /\ ~(j < 1)
      BY <1>1, <2>1
    <3> HIDE DEF k
    <3> QED BY <1>4, <1>6, <2>1, <3>1 DEF RidOf, KeyOf
  <2>2. CASE j # 1
    <3>1. ~(k + j <= Len(node[l].rids)) /\ (k + j) - Len(node[l].rids) = j - 1 /\ ~(j < 1)
      BY <1>1, <2>2
    <3> HIDE DEF k
    <3> QED BY <1>4, <1>6, <2>2, <3>1 DEF RidOf, KeyOf
  <2> QED BY <2>1, <2>2
<1>10. \A q \in Pages : SameFields(M, q)
  BY <1>4, <1>5, <1>6 DEF SameFields
<1>11. /\ Len(M[l].rids) = k /\ Len(M[l].keys) = k
       /\ Len(M[r].rids) = d + 1 /\ Len(M[r].keys) = d + 1
       /\ M[l].rids \in Seq(S) /\ M[r].rids \in Seq(S)
  BY <1>4, <1>5, <1>6
<1> HIDE DEF k
<1>12. Shifts(M, l, r, k)
  BY <1>1, <1>6, <1>7, <1>8, <1>9, <1>10, <1>11 DEF Shifts
<1> QED
  BY <1>12 DEF k

LEMMA GivesFirst ==
  ASSUME Typed(node), NEW l \in Pages, NEW r \in Pages, l # r, node[r].is_leaf = node[l].is_leaf,
         NEW a, a = Len(node[l].rids), Len(node[r].rids) >= 1,
         NEW M, M = [node EXCEPT ![l] = InsertPair(@, Len(@.rids) + 1, node[r].keys[1], node[r].rids[1]),
                                 ![r] = ErasePair(@, 1)]
  PROVE  Shifts(M, l, r, a + 1)
<1> DEFINE d == Len(node[r].rids)
           x == InsertPair(node[l], a + 1, node[r].keys[1], node[r].rids[1])
           y == ErasePair(node[r], 1)
           S == IF node[l].is_leaf THEN Rids ELSE Pages
<1>1. /\ node \in [Pages -> Nodes] /\ node[l] \in Nodes /\ node[r] \in Nodes
      /\ Len(node[l].keys) = a /\ Len(node[r].keys) = d /\ d \in Nat /\ a \in Nat /\ d >= 1
      /\ node[l].rids \in Seq(S) /\ node[r].rids \in Seq(S) /\ (S = Rids \/ S = Pages)
      /\ node[r].keys \in Seq(Keys) /\ node[l].is_leaf \in BOOLEAN
      /\ (node[l].is_leaf => S = Rids) /\ (~node[l].is_leaf => S = Pages)
  BY PageIs DEF Typed
<1> HIDE DEF S
<1>2. a + 1 \in 1 .. Len(node[l].rids) + 1 /\ 1 \in 1 .. Len(node[r].rids) /\ 1 \in 1 .. Len(node[r].keys)
  BY <1>1
<1>3. node[r].keys[1] \in Keys /\ node[r].rids[1] \in S
  BY <1>1, <1>2
<1>4. /\ x \in Nodes /\ x.rids \in Seq(S)
      /\ Len(x.rids) = a + 1 /\ Len(x.keys) = a + 1
      /\ \A j \in 1 .. a + 1 :
           /\ x.rids[j] = IF j < a + 1 THEN node[l].rids[j] ELSE IF j = a + 1 THEN node[r].rids[1] ELSE node[l].rids[j - 1]
           /\ x.keys[j] = IF j < a + 1 THEN node[l].keys[j] ELSE IF j = a + 1 THEN node[r].keys[1] ELSE node[l].keys[j - 1]
      /\ x.is_leaf = node[l].is_leaf /\ x.parent = node[l].parent /\ x.next_free = node[l].next_free
      /\ x.next_leaf = node[l].next_leaf /\ x.prev_leaf = node[l].prev_leaf
  <2>1. PairIn(x, node[l], S, a + 1, node[r].keys[1], node[r].rids[1])
    BY <1>1, <1>2, <1>3, InsertPairIs
  <2> HIDE DEF x
  <2> QED BY <1>1, <2>1 DEF PairIn, Inserts
<1>5. /\ y \in Nodes /\ y.rids \in Seq(S)
      /\ Len(y.rids) = d - 1 /\ Len(y.keys) = d - 1
      /\ \A j \in 1 .. d - 1 :
           /\ y.rids[j] = IF j < 1 THEN node[r].rids[j] ELSE node[r].rids[j + 1]
           /\ y.keys[j] = IF j < 1 THEN node[r].keys[j] ELSE node[r].keys[j + 1]
      /\ y.is_leaf = node[r].is_leaf /\ y.parent = node[r].parent /\ y.next_free = node[r].next_free
      /\ y.next_leaf = node[r].next_leaf /\ y.prev_leaf = node[r].prev_leaf
  <2>1. PairOut(y, node[r], S, 1)
    BY <1>1, <1>2, ErasePairIs
  <2> HIDE DEF y
  <2> QED BY <1>1, <2>1 DEF PairOut, Removes
<1> HIDE DEF x, y, d
<1>6. M \in [Pages -> Nodes] /\ M[l] = x /\ M[r] = y /\ \A q \in Pages \ {l, r} : M[q] = node[q]
  BY <1>1, <1>4, <1>5 DEF x, y
<1> DEFINE k == a + 1
<1>7. k \in Nat /\ Both(l, r) - k = d - 1
  BY <1>1 DEF Both, d
<1>8. ASSUME NEW j \in 1 .. k
      PROVE  M[l].rids[j] = RidOf(l, r, j) /\ M[l].keys[j] = KeyOf(l, r, j)
  <2>1. CASE j < a + 1
    <3>1. j <= Len(node[l].rids)
      BY <1>1, <2>1
    <3> QED BY <1>4, <1>6, <2>1, <3>1 DEF RidOf, KeyOf
  <2>2. CASE j = a + 1
    <3>1. ~(j <= Len(node[l].rids)) /\ j - Len(node[l].rids) = 1 /\ ~(j < a + 1)
      BY <1>1, <2>2
    <3> QED BY <1>4, <1>6, <2>2, <3>1 DEF RidOf, KeyOf
  <2> QED BY <1>1, <2>1, <2>2
<1>9. ASSUME NEW j \in 1 .. d - 1
      PROVE  M[r].rids[j] = RidOf(l, r, k + j) /\ M[r].keys[j] = KeyOf(l, r, k + j)
  <2>0. j \in Nat /\ j >= 1 /\ a \in Nat
    BY <1>1
  <2>1. ~(k + j <= Len(node[l].rids)) /\ (k + j) - Len(node[l].rids) = j + 1 /\ ~(j < 1)
    BY <2>0
  <2> HIDE DEF k
  <2> QED BY <1>5, <1>6, <2>1 DEF RidOf, KeyOf
<1>10. \A q \in Pages : SameFields(M, q)
  BY <1>4, <1>5, <1>6 DEF SameFields
<1>11. /\ Len(M[l].rids) = k /\ Len(M[l].keys) = k
       /\ Len(M[r].rids) = d - 1 /\ Len(M[r].keys) = d - 1
       /\ M[l].rids \in Seq(S) /\ M[r].rids \in Seq(S)
  BY <1>4, <1>5, <1>6
<1> HIDE DEF k
<1>12. Shifts(M, l, r, k)
  BY <1>1, <1>6, <1>7, <1>8, <1>9, <1>10, <1>11 DEF Shifts
<1> QED
  BY <1>12 DEF k

\* What the invariant says of the parents, for all pages.
LEMMA Parents ==
  ASSUME NEW T, NEW lev, NEW nxt, Typed(node), Blank(node, T), Shape(T, lev, nxt),
         Links(node, hdr.root_page, T, lev, nxt), RingOK(node, hdr.last_leaf, T, nxt)
  PROVE  /\ lev \in [Pages -> Nat] /\ lev[hdr.root_page] \in Nat /\ T \subseteq Pages
         /\ \A q \in Pages : lev[q] <= lev[hdr.root_page]
         /\ \A q \in Pages : node[q].parent # NDX_NO_PAGE =>
              /\ q \in T /\ q # hdr.root_page
              /\ node[q].parent \in T /\ node[q].parent \in Pages /\ ~node[node[q].parent].is_leaf
              /\ lev[node[q].parent] = lev[q] + 1 /\ q \in ToSet(node[node[q].parent].rids)
<1>1. lev \in [Pages -> Nat] /\ T \subseteq Pages /\ hdr.root_page \in T
  BY DEF Shape, Links
<1>2. \A q \in Pages : lev[q] <= lev[hdr.root_page]
  <2> SUFFICES ASSUME NEW q \in Pages PROVE lev[q] <= lev[hdr.root_page]
    OBVIOUS
  <2>1. CASE q \in T
    BY <2>1 DEF Links, ParentOK
  <2>2. CASE q \notin T
    <3>1. lev[q] = 0 /\ lev[hdr.root_page] \in Nat
      BY <1>1, <2>2 DEF Shape
    <3> QED BY <3>1
  <2> QED BY <2>1, <2>2
<1>3. ASSUME NEW q \in Pages, node[q].parent # NDX_NO_PAGE
      PROVE  /\ q \in T /\ q # hdr.root_page
             /\ node[q].parent \in T /\ node[q].parent \in Pages /\ ~node[node[q].parent].is_leaf
             /\ lev[node[q].parent] = lev[q] + 1 /\ q \in ToSet(node[node[q].parent].rids)
  <2>1. q \in T
    <3>1. q = NDX_LEAF_HEADER_PAGE => node[q].parent = NDX_NO_PAGE
      BY DEF RingOK, IndexPageHeader
    <3> QED BY <1>3, <3>1 DEF Blank
  <2> QED BY <1>1, <1>3, <2>1 DEF Links, ParentOK
<1> QED
  BY <1>1, <1>2, <1>3

LEMMA ShiftTells ==
  ASSUME NEW T, NEW lev, NEW nxt, NEW fl, Index(node, hdr, work, T, lev, nxt, fl),
         NEW p, NEW i, NEW l, NEW r, Brothers(T, lev, nxt, p, i, l, r),
         NEW k \in 1 .. Both(l, r) - 1, NEW M, Shifts(M, l, r, k)
  PROVE  Told(M, MaintainParent(M, l), T, lev, l)
<1> DEFINE K == lev[hdr.root_page]
           e == Both(l, r)
<1>1. /\ Typed(node) /\ hdr \in Header /\ Blank(node, T) /\ Shape(T, lev, nxt)
      /\ Links(node, hdr.root_page, T, lev, nxt)
      /\ RingOK(node, hdr.last_leaf, T, nxt) /\ KeysOK(node, T, NDX_NO_PAGE)
      /\ Filled(node, hdr, T, work)
  BY DEF Index
<1>2. /\ p \in T /\ l \in T /\ r \in T /\ p \in Pages /\ l \in Pages /\ r \in Pages
      /\ l # r /\ l # p /\ r # p /\ l # hdr.root_page /\ r # hdr.root_page
      /\ node[l].parent = p /\ node[r].parent = p
      /\ lev[l] \in Nat /\ lev[r] = lev[l] /\ lev[p] = lev[l] + 1
      /\ node[r].is_leaf = node[l].is_leaf
  BY DEF Brothers
<1> DEFINE a == Len(node[l].rids)
           d == Len(node[r].rids)
<1>30. a \in Nat /\ d \in Nat /\ d >= 1
  <2>1. T \subseteq Pages
    BY <1>1 DEF Shape
  <2> QED BY <1>1, <1>2, <2>1, PageIs, NotEmpty
<1>31. e = a + d /\ k \in 1 .. e - 1
  BY DEF Both
<1> HIDE DEF a, d, e
<1>3. e \in Nat /\ k \in Nat /\ k >= 1 /\ k < e
  BY <1>30, <1>31
<1>4. /\ M \in [Pages -> Nodes]
      /\ Len(M[l].rids) = k /\ Len(M[l].keys) = k
      /\ Len(M[r].rids) = e - k /\ Len(M[r].keys) = e - k
      /\ \A j \in 1 .. k : M[l].rids[j] = RidOf(l, r, j) /\ M[l].keys[j] = KeyOf(l, r, j)
      /\ \A j \in 1 .. e - k : M[r].rids[j] = RidOf(l, r, k + j) /\ M[r].keys[j] = KeyOf(l, r, k + j)
      /\ node[l].is_leaf => M[l].rids \in Seq(Rids) /\ M[r].rids \in Seq(Rids)
      /\ ~node[l].is_leaf => M[l].rids \in Seq(Pages) /\ M[r].rids \in Seq(Pages)
      /\ \A q \in Pages \ {l, r} : M[q] = node[q]
      /\ \A q \in Pages : SameFields(M, q)
  BY DEF Shifts, e
<1>5. /\ lev \in [Pages -> Nat] /\ K \in Nat /\ T \subseteq Pages
      /\ \A q \in Pages : lev[q] <= K
      /\ \A q \in Pages : node[q].parent # NDX_NO_PAGE =>
           /\ q \in T /\ q # hdr.root_page
           /\ node[q].parent \in T /\ node[q].parent \in Pages /\ ~node[node[q].parent].is_leaf
           /\ lev[node[q].parent] = lev[q] + 1 /\ q \in ToSet(node[node[q].parent].rids)
  BY <1>1, Parents
<1> HIDE DEF K
<1>6. /\ \A q \in Pages : M[q].is_leaf = node[q].is_leaf /\ M[q].parent = node[q].parent
  BY <1>4 DEF SameFields
<1>7. Typed(M)
  <2>1. ASSUME NEW q \in Pages
        PROVE  /\ Len(M[q].keys) = Len(M[q].rids)
               /\ M[q].rids \in IF M[q].is_leaf THEN Seq(Rids) ELSE Seq(Pages)
    <3>1. CASE q \in {l, r}
      BY <1>2, <1>4, <1>6, <3>1
    <3>2. CASE q \notin {l, r}
      BY <1>1, <1>4, <3>2 DEF Typed
    <3> QED BY <3>1, <3>2
  <2> QED BY <1>4, <2>1 DEF Typed
\* The children of the two.
<1>8. ASSUME ~node[l].is_leaf, NEW j \in 1 .. e
      PROVE  LET q == RidOf(l, r, j) IN
             /\ q \in T /\ q \in Pages /\ q # l /\ q # r /\ q # p
             /\ lev[l] = lev[q] + 1 /\ lev[q] \in Nat
             /\ KeyOf(l, r, j) = Last(node[q].keys)
             /\ \A j2 \in 1 .. e : RidOf(l, r, j2) = q => j2 = j
  <2>1. j \in 1 .. Both(l, r)
    BY DEF e
  <2> QED BY <1>1, <1>8, <2>1, BothChildren DEF e
<1>9. ASSUME NEW q \in T, M[q].parent # NDX_NO_PAGE, lev[q] >= lev[l]
      PROVE  q \in ToSet(M[M[q].parent].rids) /\ M[q].keys # << >>
  <2> DEFINE x == node[q].parent
  <2>1. /\ q \in Pages /\ M[q].parent = x /\ x # NDX_NO_PAGE
    BY <1>5, <1>6, <1>9
  <2>2. x \in Pages /\ lev[x] = lev[q] + 1 /\ q \in ToSet(node[x].rids) /\ q # hdr.root_page /\ lev[q] \in Nat
    BY <1>5, <2>1
  <2> HIDE DEF x
  <2>3. x # l /\ x # r
    BY <1>2, <1>9, <2>2
  <2>4. M[x] = node[x]
    BY <1>4, <2>2, <2>3
  <2>5. M[q].keys # << >>
    <3>1. CASE q = l
      <4>1. Len(M[l].keys) # 0
        BY <1>3, <1>4
      <4> QED BY <3>1, <4>1
    <3>2. CASE q = r
      <4>1. Len(M[r].keys) # 0
        BY <1>3, <1>4
      <4> QED BY <3>2, <4>1
    <3>3. CASE q # l /\ q # r
      <4>1. M[q] = node[q]
        BY <1>4, <2>1, <3>3
      <4>2. node[q].keys # << >>
        BY <1>1, <1>5, <2>2, NotEmpty
      <4> QED BY <4>1, <4>2
    <3> QED BY <3>1, <3>2, <3>3
  <2> QED BY <2>1, <2>2, <2>4, <2>5
<1>10. ASSUME NEW x \in T, ~M[x].is_leaf
       PROVE  /\ IsInjective(M[x].rids)
              /\ \A j \in 1 .. Len(M[x].rids) :
                   LET q == M[x].rids[j] IN
                   q \in T /\ lev[q] + 1 = lev[x] /\ (lev[x] > lev[l] => M[q].parent = x)
  <2>0. x \in Pages /\ ~node[x].is_leaf
    BY <1>5, <1>6, <1>10
  <2>1. CASE x = l
    <3>1. ~node[l].is_leaf /\ DOMAIN M[l].rids = 1 .. k
      BY <1>4, <2>0, <2>1
    <3>2. \A j \in 1 .. k : j \in 1 .. e
      BY <1>3
    <3>3. IsInjective(M[l].rids)
      BY <1>4, <1>8, <3>1, <3>2 DEF IsInjective
    <3>4. \A j \in 1 .. k : M[l].rids[j] \in T /\ lev[M[l].rids[j]] + 1 = lev[l]
      BY <1>4, <1>8, <3>1, <3>2
    <3>5. ~(lev[l] > lev[l])
      BY <1>2
    <3> QED BY <1>4, <2>1, <3>3, <3>4, <3>5
  <2>2. CASE x = r
    <3>1. ~node[l].is_leaf /\ DOMAIN M[r].rids = 1 .. e - k
      <4>1. ~node[l].is_leaf
        BY <1>2, <2>0, <2>2
      <4>2. M[r].rids \in Seq(Pages)
        BY <1>4, <4>1
      <4> QED BY <1>4, <4>1, <4>2
    <3>2. \A j \in 1 .. e - k : k + j \in 1 .. e
      BY <1>3
    <3>3. IsInjective(M[r].rids)
      <4>1. ASSUME NEW j \in 1 .. e - k, NEW j2 \in 1 .. e - k, M[r].rids[j] = M[r].rids[j2] PROVE j = j2
        <5>1. k + j \in 1 .. e /\ k + j2 \in 1 .. e /\ RidOf(l, r, k + j) = RidOf(l, r, k + j2)
          BY <1>4, <3>2, <4>1
        <5>2. k + j = k + j2
          BY <1>8, <3>1, <5>1
        <5> QED BY <1>3, <5>2
      <4> QED BY <3>1, <4>1 DEF IsInjective
    <3>4. \A j \in 1 .. e - k : M[r].rids[j] \in T /\ lev[M[r].rids[j]] + 1 = lev[l]
      BY <1>4, <1>8, <3>1, <3>2
    <3>5. ~(lev[r] > lev[l])
      BY <1>2
    <3> QED BY <1>2, <1>4, <2>2, <3>3, <3>4, <3>5
  <2>3. CASE x # l /\ x # r
    <3>1. M[x] = node[x]
      BY <1>4, <2>0, <2>3
    <3>2. IsInjective(node[x].rids)
      BY <1>1, <2>0 DEF Links, ChildrenOK
    <3>3. ASSUME NEW j \in 1 .. Len(node[x].rids)
          PROVE  LET q == node[x].rids[j] IN q \in T /\ lev[q] + 1 = lev[x] /\ M[q].parent = x
      <4> DEFINE q == node[x].rids[j]
      <4>1. q \in T /\ q \in Pages /\ node[q].parent = x /\ lev[x] = lev[q] + 1
        BY <1>1, <2>0, ChildIs
      <4> QED BY <1>6, <4>1
    <3> QED BY <3>1, <3>2, <3>3
  <2> QED BY <2>1, <2>2, <2>3
<1>11. Climbs(M, T, lev, K, l)
  <2>1. \A q \in Pages : M[q].parent # NDX_NO_PAGE =>
          M[q].parent \in T /\ ~M[M[q].parent].is_leaf /\ lev[M[q].parent] = lev[q] + 1
    BY <1>5, <1>6
  <2> QED BY <1>2, <1>5, <1>7, <1>9, <1>10, <2>1 DEF Climbs
<1>12. KeysOK(M, T, l)
  <2> SUFFICES ASSUME NEW x \in T, ~M[x].is_leaf, NEW j \in DOMAIN M[x].rids, M[x].rids[j] # l
               PROVE  M[x].keys[j] = Last(M[M[x].rids[j]].keys)
    BY DEF KeysOK
  <2>0. x \in Pages /\ ~node[x].is_leaf
    BY <1>5, <1>6
  <2>1. CASE x = l
    <3>1. ~node[l].is_leaf /\ DOMAIN M[l].rids = 1 .. k
      BY <1>4, <2>0, <2>1
    <3>2. j \in 1 .. k /\ j \in 1 .. e
      BY <1>3, <2>1, <3>1
    <3> QED BY <1>4, <1>8, <2>1, <3>1, <3>2
  <2>2. CASE x = r
    <3>1. ~node[l].is_leaf
      BY <1>2, <2>0, <2>2
    <3>2. M[r].rids \in Seq(Pages)
      BY <1>4, <3>1
    <3>3. j \in 1 .. e - k /\ k + j \in 1 .. e
      BY <1>3, <1>4, <2>2, <3>2
    <3> QED BY <1>4, <1>8, <2>2, <3>1, <3>3
  <2>3. CASE x # l /\ x # r
    <3>1. M[x] = node[x]
      BY <1>4, <2>0, <2>3
    <3>2. j \in 1 .. Len(node[x].rids)
      BY <1>1, <2>0, <3>1, PageIs
    <3> DEFINE q == node[x].rids[j]
    <3>3. q \in T /\ q \in Pages
      BY <1>1, <2>0, <3>2, ChildIs
    <3>4. node[x].keys[j] = Last(node[q].keys)
      <4>1. q # NDX_NO_PAGE /\ j \in DOMAIN node[x].rids
        BY <3>1, <3>3, Constants
      <4> QED BY <1>1, <2>0, <4>1 DEF KeysOK
    <3> HIDE DEF q
    <3>5. Last(M[q].keys) = Last(node[q].keys)
      <4>1. q # l
        BY <3>1 DEF q
      <4>2. CASE q = r
        <5>1. e - k \in 1 .. e - k /\ k + (e - k) = e
          BY <1>3
        <5>2. M[r].keys[e - k] = KeyOf(l, r, e)
          BY <1>4, <5>1
        <5>3. KeyOf(l, r, e) = node[r].keys[Len(node[r].rids)]
          <6>1. ~(e <= a) /\ e - a = d
            BY <1>30, <1>31
          <6> QED BY <6>1 DEF KeyOf, a, d
        <5>4. Len(node[r].keys) = Len(node[r].rids)
          BY <1>1, <1>2, PageIs
        <5> QED BY <1>4, <4>2, <5>2, <5>3, <5>4 DEF Last
      <4>3. CASE q # r
        BY <1>4, <3>3, <4>1, <4>3
      <4> QED BY <4>2, <4>3
    <3> QED BY <3>1, <3>4, <3>5 DEF q
  <2> QED BY <2>1, <2>2, <2>3
<1>13. KeysBelow(M, T, l)
  BY <1>12 DEF KeysOK, KeysBelow
<1> QED
  BY <1>11, <1>13, MaintainParentIs

\* The pages N when l and r have shared their entries anew, the way up has been
\* told and the child that moved knows its parent.
Shifted(N, T, l, r, k) ==
  /\ Typed(N)
  /\ Len(N[l].rids) = k /\ Len(N[r].rids) = Both(l, r) - k
  /\ \A j \in 1 .. k : N[l].rids[j] = RidOf(l, r, j)
  /\ \A j \in 1 .. Both(l, r) - k : N[r].rids[j] = RidOf(l, r, k + j)
  /\ \A q \in Pages \ {l, r} : N[q].rids = node[q].rids
  /\ \A q \in Pages : /\ N[q].is_leaf = node[q].is_leaf /\ N[q].next_free = node[q].next_free
                      /\ N[q].next_leaf = node[q].next_leaf /\ N[q].prev_leaf = node[q].prev_leaf
  /\ \A q \in Pages \ T : N[q] = node[q]
  /\ node[l].is_leaf =>
       /\ \A j \in 1 .. k : N[l].keys[j] = KeyOf(l, r, j)
       /\ \A j \in 1 .. Both(l, r) - k : N[r].keys[j] = KeyOf(l, r, k + j)
  /\ \A q \in Pages \ {l, r} : node[q].is_leaf => N[q].keys = node[q].keys
  /\ node[l].is_leaf => \A q \in Pages : N[q].parent = node[q].parent
  /\ ~node[l].is_leaf =>
       /\ \A j \in 1 .. Both(l, r) : N[RidOf(l, r, j)].parent = IF j <= k THEN l ELSE r
       /\ \A q \in Pages : (\A j \in 1 .. Both(l, r) : RidOf(l, r, j) # q) => N[q].parent = node[q].parent
  /\ KeysOK(N, T, NDX_NO_PAGE)

LEMMA ShiftAdopts ==
  ASSUME NEW T, NEW lev, NEW nxt, NEW fl, Index(node, hdr, work, T, lev, nxt, fl),
         NEW p, NEW i, NEW l, NEW r, Brothers(T, lev, nxt, p, i, l, r),
         NEW k \in 1 .. Both(l, r) - 1, NEW M, Shifts(M, l, r, k),
         NEW R, Told(M, R, T, lev, l), NEW y, NEW x,
         \/ k = Len(node[l].rids) - 1 /\ y = r /\ x = RidOf(l, r, k + 1)
         \/ k = Len(node[l].rids) + 1 /\ y = l /\ x = RidOf(l, r, k)
  PROVE  Shifted(Adopted(R, y, <<x>>), T, l, r, k)
<1> DEFINE e == Both(l, r)
           a == Len(node[l].rids)
           d == Len(node[r].rids)
           N == Adopted(R, y, <<x>>)
<1>1. /\ Typed(node) /\ hdr \in Header /\ Shape(T, lev, nxt)
      /\ Links(node, hdr.root_page, T, lev, nxt) /\ KeysOK(node, T, NDX_NO_PAGE)
  BY DEF Index
<1>2. /\ p \in T /\ l \in T /\ r \in T /\ p \in Pages /\ l \in Pages /\ r \in Pages
      /\ l # r /\ lev[l] \in Nat /\ lev[r] = lev[l] /\ node[r].is_leaf = node[l].is_leaf
  BY DEF Brothers
<1>3. a \in Nat /\ d \in Nat /\ e = a + d
  BY <1>1, <1>2, PageIs DEF Both
<1>4. k \in 1 .. e - 1 /\ ((k = a - 1 /\ y = r /\ x = RidOf(l, r, k + 1)) \/ (k = a + 1 /\ y = l /\ x = RidOf(l, r, k)))
  OBVIOUS
<1>5. /\ M \in [Pages -> Nodes]
      /\ Len(M[l].rids) = k /\ Len(M[r].rids) = e - k
      /\ \A j \in 1 .. k : M[l].rids[j] = RidOf(l, r, j) /\ M[l].keys[j] = KeyOf(l, r, j)
      /\ \A j \in 1 .. e - k : M[r].rids[j] = RidOf(l, r, k + j) /\ M[r].keys[j] = KeyOf(l, r, k + j)
      /\ \A q \in Pages \ {l, r} : M[q] = node[q]
      /\ \A q \in Pages : SameFields(M, q)
  BY DEF Shifts
<1> HIDE DEF a, d, e, N
<1>6. k \in Nat /\ e \in Nat /\ k >= 1 /\ k < e
  BY <1>3, <1>4
<1>7. /\ Typed(R) /\ KeysOK(R, T, NDX_NO_PAGE)
      /\ \A q \in Pages : SameLinks(M, R, q)
      /\ \A q \in Pages : M[q].is_leaf \/ q \notin T \/ lev[q] <= lev[l] => R[q] = M[q]
  BY DEF Told
<1>8. \A q \in Pages :
        /\ R[q].rids = M[q].rids /\ R[q].is_leaf = node[q].is_leaf /\ R[q].parent = node[q].parent
        /\ R[q].next_free = node[q].next_free /\ R[q].next_leaf = node[q].next_leaf
        /\ R[q].prev_leaf = node[q].prev_leaf
  BY <1>5, <1>7 DEF SameLinks, SameFields
<1>9. \A q \in Pages \ {l, r} : node[q].is_leaf \/ q \notin T => R[q] = node[q]
  <2>1. \A q \in Pages \ {l, r} : node[q].is_leaf = M[q].is_leaf /\ M[q] = node[q]
    BY <1>5 DEF SameFields
  <2> QED BY <1>7, <2>1
<1>10. R[l] = M[l] /\ R[r] = M[r]
  BY <1>2, <1>7
<1>11. y \in Pages /\ (y = l \/ y = r) /\ R[y].is_leaf = node[l].is_leaf
  BY <1>2, <1>4, <1>8
<1>12. R \in [Pages -> Nodes]
  BY <1>7 DEF Typed
<1>13. ToSet(<<x>>) = {x}
  BY DEF ToSet
<1>14. /\ N \in [Pages -> Nodes]
       /\ \A q \in Pages :
            /\ N[q].keys = R[q].keys /\ N[q].rids = R[q].rids /\ N[q].is_leaf = R[q].is_leaf
            /\ N[q].next_free = R[q].next_free /\ N[q].next_leaf = R[q].next_leaf
            /\ N[q].prev_leaf = R[q].prev_leaf
            /\ N[q].parent = (IF ~node[l].is_leaf /\ q = x THEN y ELSE R[q].parent)
            /\ (node[l].is_leaf \/ q # x) => N[q] = R[q]
  <2>1. CASE node[l].is_leaf
    <3>1. N = R
      BY <1>11, <2>1 DEF Adopted, N
    <3> QED BY <1>12, <2>1, <3>1
  <2>2. CASE ~node[l].is_leaf
    <3>1. N = [c \in Pages |-> IF c = x THEN [R[c] EXCEPT !.parent = y] ELSE R[c]]
      BY <1>11, <1>13, <2>2 DEF Adopted, N
    <3>2. \A q \in Pages : N[q] = IF q = x THEN [R[q] EXCEPT !.parent = y] ELSE R[q]
      BY <3>1
    <3>3. y \in PageOrNone
      BY <1>11 DEF PageOrNone
    <3>4. ASSUME NEW q \in Pages
          PROVE  /\ N[q] \in Nodes
                 /\ N[q].keys = R[q].keys /\ N[q].rids = R[q].rids /\ N[q].is_leaf = R[q].is_leaf
                 /\ N[q].next_free = R[q].next_free /\ N[q].next_leaf = R[q].next_leaf
                 /\ N[q].prev_leaf = R[q].prev_leaf
                 /\ N[q].parent = (IF q = x THEN y ELSE R[q].parent)
      <4>1. CASE q = x
        <5>1. R[q] \in Nodes /\ N[q] = [R[q] EXCEPT !.parent = y]
          BY <1>12, <3>2, <4>1
        <5> QED BY <3>3, <4>1, <5>1, SetParent
      <4>2. CASE q # x
        BY <1>12, <3>2, <4>2
      <4> QED BY <4>1, <4>2
    <3>5. N \in [Pages -> Nodes]
      BY <3>1, <3>4
    <3> QED BY <2>2, <3>2, <3>4, <3>5
  <2> QED BY <2>1, <2>2
<1>15. Typed(N)
  BY <1>7, <1>14 DEF Typed
<1>16. KeysOK(N, T, NDX_NO_PAGE)
  <2>1. T \subseteq Pages
    BY <1>1 DEF Shape
  <2> SUFFICES ASSUME NEW q \in T, ~N[q].is_leaf, NEW j \in DOMAIN N[q].rids, N[q].rids[j] # NDX_NO_PAGE
               PROVE  N[q].keys[j] = Last(N[N[q].rids[j]].keys)
    BY DEF KeysOK
  <2>2. q \in Pages /\ N[q].rids = R[q].rids /\ N[q].keys = R[q].keys /\ ~R[q].is_leaf
    BY <1>14, <2>1
  <2>3. R[q].keys[j] = Last(R[R[q].rids[j]].keys)
    BY <1>7, <2>2 DEF KeysOK
  <2>4. R[q].rids[j] \in Pages
    <3>1. R[q].rids \in Seq(Pages)
      BY <1>7, <2>2, PageIs
    <3> QED BY <2>2, <3>1
  <2> QED BY <1>14, <2>2, <2>3, <2>4
<1>17. ASSUME ~node[l].is_leaf
       PROVE  /\ \A j \in 1 .. e : N[RidOf(l, r, j)].parent = IF j <= k THEN l ELSE r
              /\ \A q \in Pages : (\A j \in 1 .. e : RidOf(l, r, j) # q) => N[q].parent = node[q].parent
  <2>1. ASSUME NEW j \in 1 .. e
        PROVE  LET q == RidOf(l, r, j) IN
               /\ q \in Pages /\ node[q].parent = IF j <= a THEN l ELSE r
               /\ \A j2 \in 1 .. e : RidOf(l, r, j2) = q => j2 = j
    <3>1. j \in 1 .. Both(l, r)
      BY DEF e
    <3> QED BY <1>1, <1>17, <3>1, BothChildren DEF e, a
  <2>2. \E z \in 1 .. e : x = RidOf(l, r, z) /\ ((k = a - 1 /\ y = r /\ z = k + 1) \/ (k = a + 1 /\ y = l /\ z = k))
    <3>1. k \in 1 .. e /\ k + 1 \in 1 .. e
      BY <1>6
    <3> QED BY <1>4, <3>1
  <2>3. PICK z \in 1 .. e : x = RidOf(l, r, z) /\ ((k = a - 1 /\ y = r /\ z = k + 1) \/ (k = a + 1 /\ y = l /\ z = k))
    BY <2>2
  <2>4. ASSUME NEW j \in 1 .. e
        PROVE  N[RidOf(l, r, j)].parent = IF j <= k THEN l ELSE r
    <3> DEFINE q == RidOf(l, r, j)
    <3>1. q \in Pages /\ (q = x <=> j = z) /\ node[q].parent = IF j <= a THEN l ELSE r
      BY <2>1, <2>3
    <3>2. N[q].parent = IF j = z THEN y ELSE node[q].parent
      BY <1>8, <1>14, <1>17, <3>1
    <3> HIDE DEF q
    <3>3. N[q].parent = IF j <= k THEN l ELSE r
      BY <1>3, <1>6, <2>3, <3>1, <3>2
    <3> QED BY <3>3 DEF q
  <2>5. ASSUME NEW q \in Pages, \A j \in 1 .. e : RidOf(l, r, j) # q
        PROVE  N[q].parent = node[q].parent
    <3>1. q # x
      BY <2>3, <2>5
    <3> QED BY <1>8, <1>14, <3>1
  <2> QED BY <2>4, <2>5
<1>18. \A q \in Pages \ T : N[q] = node[q]
  <2> SUFFICES ASSUME NEW q \in Pages \ T PROVE N[q] = node[q]
    OBVIOUS
  <2>1. q # l /\ q # r
    BY <1>2
  <2>2. node[l].is_leaf \/ q # x
    <3> SUFFICES ASSUME ~node[l].is_leaf PROVE x \in T
      OBVIOUS
    <3>1. k \in 1 .. Both(l, r) /\ k + 1 \in 1 .. Both(l, r)
      BY <1>6 DEF e
    <3>2. RidOf(l, r, k) \in T
      BY <1>1, <3>1, BothChildren
    <3>3. RidOf(l, r, k + 1) \in T
      BY <1>1, <3>1, BothChildren
    <3> QED BY <1>4, <3>2, <3>3
  <2> QED BY <1>9, <1>14, <2>1, <2>2
<1>19. /\ Len(N[l].rids) = k /\ Len(N[r].rids) = e - k
       /\ \A j \in 1 .. k : N[l].rids[j] = RidOf(l, r, j) /\ N[l].keys[j] = KeyOf(l, r, j)
       /\ \A j \in 1 .. e - k : N[r].rids[j] = RidOf(l, r, k + j) /\ N[r].keys[j] = KeyOf(l, r, k + j)
       /\ \A q \in Pages \ {l, r} : N[q].rids = node[q].rids
       /\ \A q \in Pages \ {l, r} : node[q].is_leaf => N[q].keys = node[q].keys
  <2>1. N[l].rids = M[l].rids /\ N[r].rids = M[r].rids /\ N[l].keys = M[l].keys /\ N[r].keys = M[r].keys
    BY <1>2, <1>10, <1>14
  <2>2. \A q \in Pages \ {l, r} : N[q].rids = node[q].rids
    BY <1>5, <1>8, <1>14
  <2>3. \A q \in Pages \ {l, r} : node[q].is_leaf => N[q].keys = node[q].keys
    BY <1>9, <1>14
  <2> QED BY <1>5, <2>1, <2>2, <2>3
<1>20. \A q \in Pages : /\ N[q].is_leaf = node[q].is_leaf /\ N[q].next_free = node[q].next_free
                        /\ N[q].next_leaf = node[q].next_leaf /\ N[q].prev_leaf = node[q].prev_leaf
  BY <1>8, <1>14
<1>21. node[l].is_leaf => \A q \in Pages : N[q].parent = node[q].parent
  BY <1>8, <1>14
<1>22. Shifted(N, T, l, r, k)
  BY <1>15, <1>16, <1>17, <1>18, <1>19, <1>20, <1>21 DEF Shifted, e
<1> QED
  BY <1>22 DEF N

\* Every place of the two: its node and its position there.
PlaceOf(l, r, j) == IF j <= Len(node[l].rids) THEN <<l, j>> ELSE <<r, j - Len(node[l].rids)>>

LEMMA PlacesOf ==
  ASSUME Typed(node), NEW l \in Pages, NEW r \in Pages, l # r, NEW j \in 1 .. Both(l, r)
  PROVE  LET o == PlaceOf(l, r, j) IN
         /\ o[1] = l \/ o[1] = r
         /\ o[2] \in DOMAIN node[o[1]].rids /\ o[2] \in DOMAIN node[o[1]].keys
         /\ RidOf(l, r, j) = node[o[1]].rids[o[2]] /\ KeyOf(l, r, j) = node[o[1]].keys[o[2]]
         /\ \A j2 \in 1 .. Both(l, r) : PlaceOf(l, r, j2) = o => j2 = j
<1> DEFINE a == Len(node[l].rids)
           d == Len(node[r].rids)
<1>1. /\ a \in Nat /\ d \in Nat /\ DOMAIN node[l].rids = 1 .. a /\ DOMAIN node[r].rids = 1 .. d
      /\ DOMAIN node[l].keys = 1 .. a /\ DOMAIN node[r].keys = 1 .. d
  BY PageIs
<1>2. j \in 1 .. a + d /\ Both(l, r) = a + d
  BY DEF Both
<1>3. \A k : PlaceOf(l, r, k) = IF k <= a THEN <<l, k>> ELSE <<r, k - a>>
  BY DEF PlaceOf
<1>4. /\ RidOf(l, r, j) = IF j <= a THEN node[l].rids[j] ELSE node[r].rids[j - a]
      /\ KeyOf(l, r, j) = IF j <= a THEN node[l].keys[j] ELSE node[r].keys[j - a]
  BY DEF RidOf, KeyOf
<1> HIDE DEF a, d
<1>5. CASE j <= a
  <2>1. j \in 1 .. a /\ PlaceOf(l, r, j) = <<l, j>>
    BY <1>1, <1>2, <1>3, <1>5
  <2>2. \A j2 \in 1 .. a + d : PlaceOf(l, r, j2) = <<l, j>> => j2 = j
    BY <1>1, <1>3
  <2> QED BY <1>1, <1>2, <1>4, <1>5, <2>1, <2>2
<1>6. CASE ~(j <= a)
  <2>1. j - a \in 1 .. d /\ PlaceOf(l, r, j) = <<r, j - a>>
    BY <1>1, <1>2, <1>3, <1>6
  <2>2. \A j2 \in 1 .. a + d : PlaceOf(l, r, j2) = <<r, j - a>> => j2 = j
    <3> SUFFICES ASSUME NEW j2 \in 1 .. a + d, PlaceOf(l, r, j2) = <<r, j - a>> PROVE j2 = j
      OBVIOUS
    <3>1. ~(j2 <= a)
      BY <1>3
    <3>2. j2 - a = j - a
      BY <1>3, <3>1
    <3> QED BY <1>1, <1>2, <3>2
  <2> QED BY <1>1, <1>2, <1>4, <1>6, <2>1, <2>2
<1> QED
  BY <1>5, <1>6

\* Two leaves side by side ascend together.
LEMMA BothAscend ==
  ASSUME NEW T, NEW lev, NEW nxt, Typed(node), NEW p, NEW i, NEW l, NEW r, Brothers(T, lev, nxt, p, i, l, r),
         Ascending(node, T, nxt), node[l].is_leaf,
         Len(node[l].rids) >= 1, Len(node[r].rids) >= 1
  PROVE  \A j, k \in 1 .. Both(l, r) : j < k => KeyOf(l, r, j) <= KeyOf(l, r, k)
<1> DEFINE a == Len(node[l].rids)
           d == Len(node[r].rids)
<1>0. l \in T /\ r \in T /\ l \in Pages /\ r \in Pages /\ node[r].is_leaf /\ nxt[l] = r
  BY DEF Brothers
<1>1. /\ a \in Nat /\ d \in Nat /\ a >= 1 /\ d >= 1
      /\ DOMAIN node[l].keys = 1 .. a /\ DOMAIN node[r].keys = 1 .. d
      /\ Len(node[l].keys) = a /\ Len(node[r].keys) = d
      /\ node[l].keys \in Seq(Keys) /\ node[r].keys \in Seq(Keys) /\ Both(l, r) = a + d
  BY <1>0, PageIs DEF Both
<1>2. \A x : KeyOf(l, r, x) = IF x <= a THEN node[l].keys[x] ELSE node[r].keys[x - a]
  BY DEF KeyOf
<1>3. Last(node[l].keys) = node[l].keys[a]
  BY <1>1 DEF Last
<1> HIDE DEF a, d
<1>4. /\ \A x, y \in 1 .. a : x < y => node[l].keys[x] <= node[l].keys[y]
      /\ \A x, y \in 1 .. d : x < y => node[r].keys[x] <= node[r].keys[y]
      /\ node[l].keys[a] <= node[r].keys[1]
  <2>1. r # NDX_NO_PAGE
    BY <1>0, Constants
  <2> QED BY <1>0, <1>1, <1>3, <2>1 DEF Ascending
<1>5. Keys \subseteq Int
  BY EntryAssumption DEF Keys
<1>6. /\ \A x \in 1 .. a : node[l].keys[x] \in Int
      /\ \A x \in 1 .. d : node[r].keys[x] \in Int
  <2>1. (\A x \in 1 .. a : node[l].keys[x] \in Keys) /\ (\A x \in 1 .. d : node[r].keys[x] \in Keys)
    BY <1>1, ElementOfSeq
  <2> QED BY <1>5, <2>1
<1>7. /\ \A x \in 1 .. a : node[l].keys[x] <= node[l].keys[a]
      /\ \A x \in 1 .. d : node[r].keys[1] <= node[r].keys[x]
  BY <1>1, <1>4, <1>6
<1> SUFFICES ASSUME NEW j \in 1 .. a + d, NEW k \in 1 .. a + d, j < k
             PROVE  KeyOf(l, r, j) <= KeyOf(l, r, k)
  BY <1>1
<1>8. CASE k <= a
  BY <1>1, <1>2, <1>4, <1>8
<1>9. CASE ~(j <= a)
  <2>1. j - a \in 1 .. d /\ k - a \in 1 .. d /\ j - a < k - a /\ ~(k <= a)
    BY <1>1, <1>9
  <2> QED BY <1>2, <1>4, <1>9, <2>1
<1>10. CASE j <= a /\ ~(k <= a)
  <2>1. j \in 1 .. a /\ k - a \in 1 .. d /\ a \in 1 .. a /\ 1 \in 1 .. d
    BY <1>1, <1>10
  <2>2. node[l].keys[j] <= node[l].keys[a] /\ node[r].keys[1] <= node[r].keys[k - a]
    BY <1>7, <2>1
  <2>3. /\ node[l].keys[j] \in Int /\ node[l].keys[a] \in Int
        /\ node[r].keys[1] \in Int /\ node[r].keys[k - a] \in Int
    BY <1>6, <2>1
  <2>4. node[l].keys[j] <= node[r].keys[k - a]
    BY <1>4, <2>2, <2>3
  <2> QED BY <1>2, <1>10, <2>4
<1> QED
  BY <1>1, <1>8, <1>9, <1>10

\* The two hold what their places do.
LEMMA FromBoth ==
  ASSUME Typed(node), NEW l \in Pages, NEW r \in Pages, NEW q, q = l \/ q = r, NEW j \in DOMAIN node[q].rids
  PROVE  \E u \in 1 .. Both(l, r) : RidOf(l, r, u) = node[q].rids[j] /\ KeyOf(l, r, u) = node[q].keys[j]
<1> DEFINE a == Len(node[l].rids)
           d == Len(node[r].rids)
<1>1. /\ a \in Nat /\ d \in Nat /\ DOMAIN node[l].rids = 1 .. a /\ DOMAIN node[r].rids = 1 .. d
      /\ Both(l, r) = a + d
  BY PageIs DEF Both
<1>2. \A u : /\ RidOf(l, r, u) = IF u <= a THEN node[l].rids[u] ELSE node[r].rids[u - a]
             /\ KeyOf(l, r, u) = IF u <= a THEN node[l].keys[u] ELSE node[r].keys[u - a]
  BY DEF RidOf, KeyOf
<1> HIDE DEF a, d
<1>3. CASE q = l
  <2>1. j \in 1 .. a /\ j \in 1 .. a + d /\ j <= a
    BY <1>1, <1>3
  <2> QED BY <1>1, <1>2, <1>3, <2>1
<1>4. CASE q = r
  <2> DEFINE u == a + j
  <2>0. j \in 1 .. d
    BY <1>1, <1>4
  <2>1. u \in 1 .. a + d /\ ~(u <= a) /\ u - a = j
    BY <1>1, <2>0
  <2> HIDE DEF u
  <2>2. RidOf(l, r, u) = node[r].rids[j] /\ KeyOf(l, r, u) = node[r].keys[j]
    BY <1>2, <2>1
  <2> QED BY <1>1, <1>4, <2>1, <2>2
<1> QED
  BY <1>3, <1>4

\* Moving entries between two brothers changes no entry.
LEMMA ShiftKeeps ==
  ASSUME NEW T, NEW lev, NEW nxt, Typed(node), NEW p, NEW i, NEW l, NEW r, Brothers(T, lev, nxt, p, i, l, r),
         NEW k \in 1 .. Both(l, r) - 1, NEW N, Shifted(N, T, l, r, k)
  PROVE  SameEntries(N)
<1> DEFINE e == Both(l, r)
<1>1. l \in Pages /\ r \in Pages /\ l # r /\ node[r].is_leaf = node[l].is_leaf
  BY DEF Brothers
<1>2. /\ Typed(N) /\ Len(N[l].rids) = k /\ Len(N[r].rids) = e - k
      /\ \A j \in 1 .. k : N[l].rids[j] = RidOf(l, r, j)
      /\ \A j \in 1 .. e - k : N[r].rids[j] = RidOf(l, r, k + j)
      /\ \A q \in Pages \ {l, r} : N[q].rids = node[q].rids
      /\ \A q \in Pages : N[q].is_leaf = node[q].is_leaf
      /\ node[l].is_leaf => /\ \A j \in 1 .. k : N[l].keys[j] = KeyOf(l, r, j)
                            /\ \A j \in 1 .. e - k : N[r].keys[j] = KeyOf(l, r, k + j)
      /\ \A q \in Pages \ {l, r} : node[q].is_leaf => N[q].keys = node[q].keys
  BY DEF Shifted
<1>3. e \in Nat /\ k \in 1 .. e - 1
  <2> DEFINE a == Len(node[l].rids)
             d == Len(node[r].rids)
  <2>1. a \in Nat /\ d \in Nat
    BY <1>1, PageIs
  <2>2. e = a + d /\ k \in 1 .. e - 1
    BY DEF Both
  <2> HIDE DEF a, d, e
  <2> QED BY <2>1, <2>2
<1>4. DOMAIN N[l].rids = 1 .. k /\ DOMAIN N[r].rids = 1 .. e - k
  BY <1>1, <1>2, PageIs
<1>5. ASSUME NEW q \in {l, r}, NEW j \in DOMAIN node[q].rids
      PROVE  \E u \in 1 .. e : RidOf(l, r, u) = node[q].rids[j] /\ KeyOf(l, r, u) = node[q].keys[j]
  BY <1>1, FromBoth
<1>6. ASSUME NEW u \in 1 .. e
      PROVE  \E q \in {l, r} : \E j \in DOMAIN node[q].rids :
               RidOf(l, r, u) = node[q].rids[j] /\ KeyOf(l, r, u) = node[q].keys[j]
  BY <1>1, PlacesOf
<1> HIDE DEF e
<1>7. ASSUME NEW x, NEW y, Has(N, x, y) PROVE Has(node, x, y)
  <2>1. PICK q \in Pages : N[q].is_leaf /\ \E j \in DOMAIN N[q].rids : N[q].keys[j] = x /\ N[q].rids[j] = y
    BY <1>7 DEF Has
  <2>2. PICK j \in DOMAIN N[q].rids : N[q].keys[j] = x /\ N[q].rids[j] = y
    BY <2>1
  <2>3. node[q].is_leaf
    BY <1>2, <2>1
  <2>4. CASE q \in {l, r}
    <3>1. node[l].is_leaf /\ node[r].is_leaf
      BY <1>1, <2>3, <2>4
    <3>2. \E u \in 1 .. e : RidOf(l, r, u) = y /\ KeyOf(l, r, u) = x
      <4>1. CASE q = l
        <5>1. j \in 1 .. k /\ j \in 1 .. e
          BY <1>3, <1>4, <4>1
        <5> QED BY <1>2, <2>2, <3>1, <4>1, <5>1
      <4>2. CASE q = r
        <5>1. j \in 1 .. e - k /\ k + j \in 1 .. e
          BY <1>3, <1>4, <4>2
        <5> QED BY <1>2, <2>2, <3>1, <4>2, <5>1
      <4> QED BY <2>4, <4>1, <4>2
    <3> QED BY <1>1, <1>6, <3>1, <3>2 DEF Has
  <2>5. CASE q \notin {l, r}
    BY <1>2, <2>1, <2>3, <2>5 DEF Has
  <2> QED BY <2>4, <2>5
<1>8. ASSUME NEW x, NEW y, Has(node, x, y) PROVE Has(N, x, y)
  <2>1. PICK q \in Pages : node[q].is_leaf /\ \E j \in DOMAIN node[q].rids : node[q].keys[j] = x /\ node[q].rids[j] = y
    BY <1>8 DEF Has
  <2>2. PICK j \in DOMAIN node[q].rids : node[q].keys[j] = x /\ node[q].rids[j] = y
    BY <2>1
  <2>3. CASE q \in {l, r}
    <3>1. node[l].is_leaf /\ N[l].is_leaf /\ N[r].is_leaf
      BY <1>1, <1>2, <2>1, <2>3
    <3>2. PICK u \in 1 .. e : RidOf(l, r, u) = y /\ KeyOf(l, r, u) = x
      BY <1>5, <2>2, <2>3
    <3>3. CASE u <= k
      <4>1. u \in 1 .. k
        BY <1>3, <3>3
      <4>2. u \in DOMAIN N[l].rids /\ N[l].keys[u] = x /\ N[l].rids[u] = y
        BY <1>2, <1>4, <3>1, <3>2, <4>1
      <4> QED BY <1>1, <3>1, <4>2 DEF Has
    <3>4. CASE ~(u <= k)
      <4>1. u - k \in 1 .. e - k /\ k + (u - k) = u
        BY <1>3, <3>4
      <4>2. u - k \in DOMAIN N[r].rids /\ N[r].keys[u - k] = x /\ N[r].rids[u - k] = y
        BY <1>2, <1>4, <3>1, <3>2, <4>1
      <4> QED BY <1>1, <3>1, <4>2 DEF Has
    <3> QED BY <3>3, <3>4
  <2>4. CASE q \notin {l, r}
    <3>1. N[q].is_leaf /\ N[q].rids = node[q].rids /\ N[q].keys = node[q].keys
      BY <1>2, <2>1, <2>4
    <3> QED BY <2>2, <3>1 DEF Has
  <2> QED BY <2>3, <2>4
<1> QED
  BY <1>7, <1>8 DEF SameEntries

LEMMA ShiftStep ==
  ASSUME NEW T, NEW lev, NEW nxt, NEW fl, Index(node, hdr, work, T, lev, nxt, fl),
         NEW p, NEW i, NEW l, NEW r, Brothers(T, lev, nxt, p, i, l, r),
         NEW n, n = l \/ n = r, work = [todo |-> "underflow", page |-> n],
         NEW k \in 1 .. Both(l, r) - 1, NEW N, Shifted(N, T, l, r, k),
         MinOf(hdr) <= k, k <= hdr.btree_order,
         MinOf(hdr) <= Both(l, r) - k, Both(l, r) - k <= hdr.btree_order
  PROVE  Index(N, hdr, Idle, T, lev, nxt, fl)
<1> DEFINE a == Len(node[l].rids)
           d == Len(node[r].rids)
           e == Both(l, r)
           root == hdr.root_page
<1>1. /\ Typed(node) /\ hdr \in Header /\ work \in Works /\ FreeList(node, hdr, T, fl)
      /\ Blank(node, T) /\ Shape(T, lev, nxt) /\ Links(node, hdr.root_page, T, lev, nxt)
      /\ RingOK(node, hdr.last_leaf, T, nxt) /\ KeysOK(node, T, NDX_NO_PAGE)
      /\ Filled(node, hdr, T, work) /\ Ascending(node, T, nxt) /\ EntriesOK(node, T)
  BY DEF Index
<1>2. /\ p \in T /\ l \in T /\ r \in T /\ p \in Pages /\ l \in Pages /\ r \in Pages
      /\ l # r /\ l # p /\ r # p /\ l # root /\ r # root
      /\ node[l].parent = p /\ node[r].parent = p
      /\ lev[l] \in Nat /\ lev[r] = lev[l] /\ lev[p] = lev[l] + 1
      /\ node[r].is_leaf = node[l].is_leaf
      /\ nxt[l] = r /\ nxt[r] # l /\ nxt[r] # r
  BY DEF Brothers
<1>3. /\ Typed(N)
      /\ Len(N[l].rids) = k /\ Len(N[r].rids) = e - k
      /\ \A j \in 1 .. k : N[l].rids[j] = RidOf(l, r, j)
      /\ \A j \in 1 .. e - k : N[r].rids[j] = RidOf(l, r, k + j)
      /\ \A q \in Pages \ {l, r} : N[q].rids = node[q].rids
      /\ \A q \in Pages : /\ N[q].is_leaf = node[q].is_leaf /\ N[q].next_free = node[q].next_free
                          /\ N[q].next_leaf = node[q].next_leaf /\ N[q].prev_leaf = node[q].prev_leaf
      /\ \A q \in Pages \ T : N[q] = node[q]
      /\ KeysOK(N, T, NDX_NO_PAGE)
  BY DEF Shifted
<1>4. /\ node[l].is_leaf =>
           /\ \A j \in 1 .. k : N[l].keys[j] = KeyOf(l, r, j)
           /\ \A j \in 1 .. e - k : N[r].keys[j] = KeyOf(l, r, k + j)
      /\ \A q \in Pages \ {l, r} : node[q].is_leaf => N[q].keys = node[q].keys
      /\ node[l].is_leaf => \A q \in Pages : N[q].parent = node[q].parent
      /\ ~node[l].is_leaf =>
           /\ \A j \in 1 .. e : N[RidOf(l, r, j)].parent = IF j <= k THEN l ELSE r
           /\ \A q \in Pages : (\A j \in 1 .. e : RidOf(l, r, j) # q) => N[q].parent = node[q].parent
  BY DEF Shifted
<1>5. /\ a \in Nat /\ d \in Nat /\ a >= 1 /\ d >= 1 /\ e = a + d
      /\ DOMAIN node[l].rids = 1 .. a /\ DOMAIN node[r].rids = 1 .. d
      /\ DOMAIN node[l].keys = 1 .. a /\ DOMAIN node[r].keys = 1 .. d
      /\ Len(node[l].keys) = a /\ Len(node[r].keys) = d
  <2>1. T \subseteq Pages
    BY <1>1 DEF Shape
  <2> QED BY <1>1, <1>2, <2>1, NotEmpty, PageIs DEF Both
<1>6. /\ DOMAIN N[l].rids = 1 .. k /\ DOMAIN N[r].rids = 1 .. e - k
      /\ DOMAIN N[l].keys = 1 .. k /\ DOMAIN N[r].keys = 1 .. e - k
      /\ Len(N[l].keys) = k /\ Len(N[r].keys) = e - k
  BY <1>2, <1>3, PageIs
<1>7. /\ RidOf(l, r, 1) = node[l].rids[1] /\ KeyOf(l, r, 1) = node[l].keys[1]
      /\ KeyOf(l, r, e) = Last(node[r].keys)
      /\ \A j \in 1 .. a : RidOf(l, r, j) = node[l].rids[j]
      /\ \A j \in 1 .. d : a + j \in 1 .. e /\ RidOf(l, r, a + j) = node[r].rids[j]
  <2> DEFINE b == a
  <2>1. \A j : /\ RidOf(l, r, j) = IF j <= b THEN node[l].rids[j] ELSE node[r].rids[j - b]
               /\ KeyOf(l, r, j) = IF j <= b THEN node[l].keys[j] ELSE node[r].keys[j - b]
    BY DEF RidOf, KeyOf
  <2>2. Last(node[r].keys) = node[r].keys[d]
    BY <1>5 DEF Last
  <2>3. b = a
    OBVIOUS
  <2> HIDE DEF a, b, d, e
  <2>4. \A j \in 1 .. d : a + j \in 1 .. e /\ ~(a + j <= b) /\ (a + j) - b = j
    BY <1>5, <2>3
  <2>5. 1 <= b /\ ~(e <= b) /\ e - b = d
    BY <1>5, <2>3
  <2> QED BY <2>1, <2>2, <2>3, <2>4, <2>5
<1> HIDE DEF a, d, e, root
<1>8. k \in Nat /\ k >= 1 /\ k < e /\ e \in Nat /\ k \in 1 .. e /\ 1 \in 1 .. k /\ k + 1 \in 1 .. e /\ 1 \in 1 .. e - k
  <2>1. k \in 1 .. e - 1
    BY DEF e
  <2> QED BY <1>5, <2>1
<1>9. /\ lev \in [Pages -> Nat] /\ T \subseteq Pages /\ root \in T /\ nxt[root] = NDX_NO_PAGE
      /\ \A q \in T : q \in Pages /\ q # NDX_NO_PAGE /\ (node[q].is_leaf <=> lev[q] = 0)
  BY <1>1, Constants DEF Shape, Links, ParentOK, root
\* The children of the two.
<1>10. ASSUME ~node[l].is_leaf, NEW j \in 1 .. e
       PROVE  LET q == RidOf(l, r, j) IN
              /\ q \in T /\ q \in Pages /\ q # l /\ q # r /\ q # root
              /\ node[q].parent = l \/ node[q].parent = r
              /\ nxt[q] = IF j < e THEN RidOf(l, r, j + 1) ELSE FirstOfNext(node, nxt, r)
              /\ \A j2 \in 1 .. e : RidOf(l, r, j2) = q => j2 = j
              /\ N[q].parent = IF j <= k THEN l ELSE r
  <2>1. j \in 1 .. Both(l, r)
    BY DEF e
  <2>2. N[RidOf(l, r, j)].parent = IF j <= k THEN l ELSE r
    BY <1>4, <1>10
  <2>3. LET q == RidOf(l, r, j) IN
        /\ q \in T /\ q \in Pages /\ q # l /\ q # r /\ q # root
        /\ node[q].parent = (IF j <= Len(node[l].rids) THEN l ELSE r)
        /\ nxt[q] = IF j < e THEN RidOf(l, r, j + 1) ELSE FirstOfNext(node, nxt, r)
        /\ \A j2 \in 1 .. e : RidOf(l, r, j2) = q => j2 = j
    BY <1>1, <1>10, <2>1, BothChildren DEF e, root
  <2> QED BY <2>2, <2>3
<1>11. ASSUME NEW q \in Pages, node[q].parent # l, node[q].parent # r PROVE N[q].parent = node[q].parent
  BY <1>4, <1>10, <1>11
\* The first child of the next node.
<1>12. /\ FirstOfNext(N, nxt, l) = RidOf(l, r, k + 1)
       /\ \A q \in T : q # l /\ ~node[q].is_leaf => FirstOfNext(N, nxt, q) = FirstOfNext(node, nxt, q)
  <2>1. FirstOfNext(N, nxt, l) = RidOf(l, r, k + 1)
    BY <1>2, <1>3, <1>8, <1>9 DEF FirstOfNext
  <2>2. ASSUME NEW q \in T, q # l PROVE FirstOfNext(N, nxt, q) = FirstOfNext(node, nxt, q)
    <3>1. nxt[q] # NDX_NO_PAGE => nxt[q] \in Pages /\ nxt[q] # r
      <4>1. nxt[q] # NDX_NO_PAGE => nxt[q] \in Pages
        BY <1>1, InnerIs
      <4>2. nxt[q] # r
        BY <1>1, <1>2, <1>9, <2>2 DEF Shape
      <4> QED BY <4>1, <4>2
    <3>2. N[l].rids[1] = node[l].rids[1]
      BY <1>3, <1>7, <1>8
    <3>3. nxt[q] # NDX_NO_PAGE => N[nxt[q]].rids[1] = node[nxt[q]].rids[1]
      BY <1>3, <3>1, <3>2
    <3> QED BY <3>3 DEF FirstOfNext
  <2> QED BY <2>1, <2>2
<1>13. ASSUME NEW q \in T PROVE ParentOK(N, root, T, lev, q)
  <2> DEFINE x == node[q].parent
  <2>1. ParentOK(node, root, T, lev, q)
    BY <1>1 DEF Links, root
  <2>2. CASE q = root
    <3>1. x = NDX_NO_PAGE
      BY <2>1, <2>2 DEF ParentOK
    <3>2. N[q].parent = NDX_NO_PAGE
      BY <1>2, <1>9, <1>11, <3>1
    <3> QED BY <1>3, <1>9, <2>1, <2>2, <3>2 DEF ParentOK
  <2>3. CASE q # root
    <3>1. x \in T /\ ~node[x].is_leaf /\ lev[x] = lev[q] + 1 /\ q \in ToSet(node[x].rids)
      BY <2>1, <2>3 DEF ParentOK
    <3>2. \E y \in T : N[q].parent = y /\ ~N[y].is_leaf /\ lev[y] = lev[x] /\ q \in ToSet(N[y].rids)
      <4>1. CASE x # l /\ x # r
        <5>1. N[q].parent = x
          BY <1>9, <1>11, <4>1
        <5>2. N[x].rids = node[x].rids /\ N[x].is_leaf = node[x].is_leaf
          BY <1>3, <1>9, <3>1, <4>1
        <5> QED BY <3>1, <5>1, <5>2
      <4>2. CASE x = l \/ x = r
        <5>1. ~node[l].is_leaf /\ ~node[r].is_leaf /\ lev[x] = lev[l]
          BY <1>2, <3>1, <4>2
        <5>2. node[l].rids \in Seq(Pages) /\ node[r].rids \in Seq(Pages)
          BY <1>1, <1>2, <5>1, PageIs
        <5>3. \E j \in 1 .. e : RidOf(l, r, j) = q
          <6>1. CASE x = l
            <7>1. PICK j \in 1 .. a : node[l].rids[j] = q
              BY <3>1, <5>2, <6>1, InToSet DEF a
            <7> QED BY <1>5, <1>7, <7>1
          <6>2. CASE x = r
            <7>1. PICK j \in 1 .. d : node[r].rids[j] = q
              BY <3>1, <5>2, <6>2, InToSet DEF d
            <7> QED BY <1>7, <7>1
          <6> QED BY <4>2, <6>1, <6>2
        <5>4. PICK j \in 1 .. e : RidOf(l, r, j) = q
          BY <5>3
        <5>5. CASE j <= k
          <6>1. j \in 1 .. k /\ N[l].rids[j] = q /\ N[q].parent = l
            BY <1>3, <1>8, <1>10, <5>1, <5>4, <5>5
          <6>2. q \in ToSet(N[l].rids)
            BY <1>6, <6>1 DEF ToSet
          <6> QED BY <1>2, <1>3, <5>1, <6>1, <6>2
        <5>6. CASE ~(j <= k)
          <6> DEFINE z == j - k
          <6>1. z \in 1 .. e - k /\ k + z = j
            BY <1>8, <5>6
          <6> HIDE DEF z
          <6>2. N[r].rids[z] = q /\ N[q].parent = r
            BY <1>3, <1>10, <5>1, <5>4, <5>6, <6>1
          <6>3. q \in ToSet(N[r].rids)
            BY <1>6, <6>1, <6>2 DEF ToSet
          <6> QED BY <1>2, <1>3, <5>1, <6>2, <6>3
        <5> QED BY <5>5, <5>6
      <4> QED BY <4>1, <4>2
    <3> HIDE DEF x
    <3> QED BY <1>3, <1>9, <2>1, <2>3, <3>1, <3>2 DEF ParentOK
  <2> QED BY <2>2, <2>3
<1>14. ASSUME NEW x \in T, ~N[x].is_leaf PROVE ChildrenOK(N, T, nxt, x)
  <2>1. ~node[x].is_leaf /\ x \in Pages
    BY <1>3, <1>9, <1>14
  <2>2. CASE x = l
    <3>1. N[l].rids # << >>
      <4>1. 1 \in DOMAIN N[l].rids
        BY <1>6, <1>8
      <4> QED BY <4>1
    <3>2. IsInjective(N[l].rids)
      <4>1. \A j \in 1 .. k : j \in 1 .. e
        BY <1>8
      <4>2. ASSUME NEW j \in 1 .. k, NEW j2 \in 1 .. k, N[l].rids[j] = N[l].rids[j2] PROVE j = j2
        BY <1>3, <1>10, <2>1, <2>2, <4>1, <4>2
      <4> QED BY <1>6, <4>2 DEF IsInjective
    <3>3. ASSUME NEW j \in 1 .. k
          PROVE  LET c == N[l].rids[j] IN
                 /\ c \in T /\ N[c].parent = l
                 /\ nxt[c] = IF j < k THEN N[l].rids[j + 1] ELSE FirstOfNext(N, nxt, l)
      <4>1. j \in 1 .. e /\ j < e /\ j <= k /\ N[l].rids[j] = RidOf(l, r, j)
        BY <1>3, <1>8
      <4>2. (j < k => j + 1 \in 1 .. k) /\ (~(j < k) => j + 1 = k + 1)
        BY <1>8
      <4> QED BY <1>3, <1>10, <1>12, <2>1, <2>2, <4>1, <4>2
    <3> QED BY <1>3, <1>6, <2>2, <3>1, <3>2, <3>3 DEF ChildrenOK
  <2>3. CASE x = r
    <3>0. ~node[l].is_leaf
      BY <1>2, <2>1, <2>3
    <3>1. N[r].rids # << >>
      <4>1. 1 \in DOMAIN N[r].rids
        BY <1>6, <1>8
      <4> QED BY <4>1
    <3>2. IsInjective(N[r].rids)
      <4>1. \A j \in 1 .. e - k : k + j \in 1 .. e
        BY <1>8
      <4>2. ASSUME NEW j \in 1 .. e - k, NEW j2 \in 1 .. e - k, N[r].rids[j] = N[r].rids[j2] PROVE j = j2
        <5>1. k + j = k + j2
          BY <1>3, <1>10, <3>0, <4>1, <4>2
        <5> QED BY <1>8, <5>1
      <4> QED BY <1>6, <4>2 DEF IsInjective
    <3>3. ASSUME NEW j \in 1 .. e - k
          PROVE  LET c == N[r].rids[j] IN
                 /\ c \in T /\ N[c].parent = r
                 /\ nxt[c] = IF j < e - k THEN N[r].rids[j + 1] ELSE FirstOfNext(N, nxt, r)
      <4> DEFINE z == k + j
      <4>1. /\ z \in 1 .. e /\ ~(z <= k) /\ (z < e <=> j < e - k)
            /\ (j < e - k => j + 1 \in 1 .. e - k /\ k + (j + 1) = z + 1)
        BY <1>8
      <4>2. N[r].rids[j] = RidOf(l, r, z)
        BY <1>3
      <4>3. j < e - k => N[r].rids[j + 1] = RidOf(l, r, z + 1)
        <5> SUFFICES ASSUME j < e - k PROVE N[r].rids[j + 1] = RidOf(l, r, z + 1)
          OBVIOUS
        <5> HIDE DEF z
        <5>1. N[r].rids[j + 1] = RidOf(l, r, k + (j + 1))
          BY <1>3, <4>1
        <5> QED BY <4>1, <5>1
      <4>4. FirstOfNext(N, nxt, r) = FirstOfNext(node, nxt, r)
        BY <1>2, <1>12, <2>1, <2>3
      <4> HIDE DEF z
      <4> QED BY <1>10, <3>0, <4>1, <4>2, <4>3, <4>4
    <3> QED BY <1>3, <1>6, <2>3, <3>1, <3>2, <3>3 DEF ChildrenOK
  <2>4. CASE x # l /\ x # r
    <3>1. N[x].rids = node[x].rids
      BY <1>3, <2>1, <2>4
    <3>2. ChildrenOK(node, T, nxt, x)
      BY <1>1, <2>1 DEF Links
    <3>3. FirstOfNext(N, nxt, x) = FirstOfNext(node, nxt, x)
      BY <1>12, <2>1, <2>4
    <3>4. ASSUME NEW j \in DOMAIN node[x].rids
          PROVE  LET q == node[x].rids[j] IN q \in T /\ N[q].parent = x
      BY <1>9, <1>11, <2>4, <3>2 DEF ChildrenOK
    <3> QED BY <3>1, <3>2, <3>3, <3>4 DEF ChildrenOK
  <2> QED BY <2>2, <2>3, <2>4
<1>15. Links(N, root, T, lev, nxt)
  BY <1>9, <1>13, <1>14 DEF Links
<1>16. RingOK(N, hdr.last_leaf, T, nxt)
  <2>1. /\ first_leaf \in T /\ node[first_leaf].is_leaf
        /\ node[first_leaf].prev_leaf = NDX_LEAF_HEADER_PAGE
        /\ hdr.last_leaf \in T /\ node[hdr.last_leaf].is_leaf /\ nxt[hdr.last_leaf] = NDX_NO_PAGE
        /\ \A q \in T : node[q].is_leaf => LeafOK(node, hdr.last_leaf, T, nxt, q)
        /\ node[NDX_LEAF_HEADER_PAGE] = IndexPageHeader(NDX_NO_PAGE, TRUE, hdr.last_leaf, first_leaf)
    BY <1>1 DEF RingOK
  <2>2. NDX_LEAF_HEADER_PAGE \in Pages \ T
    BY <1>1, Constants DEF Shape
  <2>3. ASSUME NEW q \in T, N[q].is_leaf PROVE LeafOK(N, hdr.last_leaf, T, nxt, q)
    <3>1. LeafOK(node, hdr.last_leaf, T, nxt, q)
      BY <1>3, <1>9, <2>1, <2>3
    <3>2. nxt[q] # NDX_NO_PAGE => nxt[q] \in Pages
      BY <1>1, InnerIs
    <3> QED BY <1>3, <1>9, <3>1, <3>2 DEF LeafOK
  <2> QED BY <1>3, <1>9, <2>1, <2>2, <2>3 DEF RingOK
<1>17. Blank(N, T) /\ FreeList(N, hdr, T, fl)
  <2>1. fl \in Seq(Pages)
    BY <1>1 DEF FreeList
  <2>2. \A j \in DOMAIN fl : N[fl[j]].next_free = node[fl[j]].next_free
    BY <1>3, <2>1
  <2>3. FreeList(N, hdr, T, fl)
    BY <1>1, <1>3, <2>2 DEF FreeList
  <2> QED BY <1>1, <1>3, <2>3 DEF Blank
<1>18. Filled(N, hdr, T, Idle)
  <2>1. /\ \A q : Extra(work, "overflow", q) = 0
        /\ \A q : q # n => Extra(work, "underflow", q) = 0
    BY DEF Extra
  <2>2. \A q \in T : q # l /\ q # r => N[q].rids = node[q].rids /\ Len(node[q].rids) \in Nat
    BY <1>1, <1>3, <1>9, PageIs
  <2>3. hdr.btree_order \in Nat /\ MinOf(hdr) \in Nat
    BY <1>1, Fill
  <2>4. \A q \in T : q # l /\ q # r => Len(node[q].rids) <= hdr.btree_order + 0
    BY <1>1, <2>1 DEF Filled
  <2>5. \A q \in T \ {root} : q # l /\ q # r => Len(node[q].rids) >= MinOf(hdr) - 0
    BY <1>1, <2>1 DEF Filled, root
  <2>6. /\ k <= hdr.btree_order /\ e - k <= hdr.btree_order /\ MinOf(hdr) <= k /\ MinOf(hdr) <= e - k
    BY DEF e
  <2>7. \A q \in T : Len(N[q].rids) <= hdr.btree_order + 0
    <3> SUFFICES ASSUME NEW q \in T PROVE Len(N[q].rids) <= hdr.btree_order + 0
      OBVIOUS
    <3>1. CASE q # l /\ q # r
      BY <2>2, <2>4, <3>1
    <3>2. CASE q = l \/ q = r
      BY <1>3, <1>8, <2>3, <2>6, <3>2
    <3> QED BY <3>1, <3>2
  <2>8. \A q \in T \ {root} : Len(N[q].rids) >= MinOf(hdr) - 0
    <3> SUFFICES ASSUME NEW q \in T \ {root} PROVE Len(N[q].rids) >= MinOf(hdr) - 0
      OBVIOUS
    <3>1. CASE q # l /\ q # r
      BY <2>2, <2>5, <3>1
    <3>2. CASE q = l \/ q = r
      BY <1>3, <1>8, <2>3, <2>6, <3>2
    <3> QED BY <3>1, <3>2
  <2>9. ~(~N[root].is_leaf /\ Len(N[root].rids) < 2)
    <3>1. root # l /\ root # r /\ n # root
      BY <1>2
    <3>2. ~(~node[root].is_leaf /\ Len(node[root].rids) < 2)
      BY <1>1, <3>1 DEF Filled, root
    <3> QED BY <1>3, <1>9, <2>2, <3>1, <3>2
  <2> QED BY <2>7, <2>8, <2>9, IdleIs DEF Filled, root
\* The leaves.
<1>19. ASSUME node[l].is_leaf
       PROVE  /\ \A j, j2 \in 1 .. e : j < j2 => KeyOf(l, r, j) <= KeyOf(l, r, j2)
              /\ \A j \in 1 .. k : N[l].keys[j] = KeyOf(l, r, j)
              /\ \A j \in 1 .. e - k : N[r].keys[j] = KeyOf(l, r, k + j)
              /\ Last(N[l].keys) = KeyOf(l, r, k) /\ Last(N[r].keys) = Last(node[r].keys)
              /\ N[l].keys[1] = node[l].keys[1]
  <2>1. \A j, j2 \in 1 .. e : j < j2 => KeyOf(l, r, j) <= KeyOf(l, r, j2)
    BY <1>1, <1>5, <1>19, BothAscend DEF e, a, d
  <2>2. k \in 1 .. k /\ e - k \in 1 .. e - k /\ k + (e - k) = e
    BY <1>8
  <2>3. N[r].keys[e - k] = KeyOf(l, r, k + (e - k))
    BY <1>4, <1>19, <2>2
  <2> QED BY <1>4, <1>6, <1>7, <1>8, <1>19, <2>1, <2>2, <2>3 DEF Last
<1>20. Ascending(N, T, nxt)
  <2> SUFFICES ASSUME NEW x \in T, N[x].is_leaf
               PROVE  /\ \A j, j2 \in DOMAIN N[x].keys : j < j2 => N[x].keys[j] <= N[x].keys[j2]
                      /\ nxt[x] # NDX_NO_PAGE => Last(N[x].keys) <= N[nxt[x]].keys[1]
    BY DEF Ascending
  <2>0. node[x].is_leaf
    BY <1>3, <1>9
  <2>1. ASSUME NEW q \in T, node[q].is_leaf, q # r PROVE N[q].keys[1] = node[q].keys[1]
    BY <1>4, <1>9, <1>19, <2>1
  <2>2. ASSUME nxt[x] # NDX_NO_PAGE, x # l PROVE N[nxt[x]].keys[1] = node[nxt[x]].keys[1]
    <3>1. nxt[x] \in T /\ lev[nxt[x]] = lev[x]
      BY <1>1, <2>2 DEF Shape
    <3>2. nxt[x] # r
      BY <1>1, <1>2, <1>9, <2>2 DEF Shape
    <3> QED BY <1>9, <2>0, <2>1, <3>1, <3>2
  <2>3. CASE x = l
    <3>1. \A j, j2 \in 1 .. k : j < j2 => N[l].keys[j] <= N[l].keys[j2]
      BY <1>8, <1>19, <2>0, <2>3
    <3>2. KeyOf(l, r, k) <= KeyOf(l, r, k + 1) /\ N[r].keys[1] = KeyOf(l, r, k + 1)
      BY <1>8, <1>19, <2>0, <2>3
    <3> QED BY <1>2, <1>6, <1>19, <2>0, <2>3, <3>1, <3>2
  <2>4. CASE x = r
    <3>0. node[l].is_leaf
      BY <1>2, <2>0, <2>4
    <3>1. ASSUME NEW j \in 1 .. e - k, NEW j2 \in 1 .. e - k, j < j2 PROVE N[r].keys[j] <= N[r].keys[j2]
      <4>1. k + j \in 1 .. e /\ k + j2 \in 1 .. e /\ k + j < k + j2
        BY <1>8, <3>1
      <4> QED BY <1>19, <3>0, <4>1
    <3>2. nxt[r] # NDX_NO_PAGE => Last(node[r].keys) <= node[nxt[r]].keys[1]
      BY <1>1, <2>0, <2>4 DEF Ascending
    <3> QED BY <1>2, <1>6, <1>19, <2>2, <2>4, <3>0, <3>1, <3>2
  <2>5. CASE x # l /\ x # r
    <3>1. N[x].keys = node[x].keys
      BY <1>4, <1>9, <2>0, <2>5
    <3> QED BY <1>1, <2>0, <2>2, <2>5, <3>1 DEF Ascending
  <2> QED BY <2>3, <2>4, <2>5
<1>21. EntriesOK(N, T)
  <2> DEFINE at(x, j) == IF x = l THEN PlaceOf(l, r, j)[1] ELSE IF x = r THEN PlaceOf(l, r, k + j)[1] ELSE x
             to(x, j) == IF x = l THEN PlaceOf(l, r, j)[2] ELSE IF x = r THEN PlaceOf(l, r, k + j)[2] ELSE j
  <2>0. ASSUME NEW j \in 1 .. e
        PROVE  LET o == PlaceOf(l, r, j) IN
               /\ o = <<o[1], o[2]>>
               /\ o[1] = l \/ o[1] = r
               /\ o[2] \in DOMAIN node[o[1]].rids
               /\ RidOf(l, r, j) = node[o[1]].rids[o[2]] /\ KeyOf(l, r, j) = node[o[1]].keys[o[2]]
               /\ \A j2 \in 1 .. e : PlaceOf(l, r, j2) = o => j2 = j
    <3>1. j \in 1 .. Both(l, r)
      BY DEF e
    <3>2. PlaceOf(l, r, j) = <<PlaceOf(l, r, j)[1], PlaceOf(l, r, j)[2]>>
      BY DEF PlaceOf
    <3> QED BY <1>1, <1>2, <3>1, <3>2, PlacesOf DEF e
  <2>1. ASSUME NEW x \in T, N[x].is_leaf, NEW j \in DOMAIN N[x].rids
        PROVE  /\ at(x, j) \in T /\ node[at(x, j)].is_leaf /\ to(x, j) \in DOMAIN node[at(x, j)].rids
               /\ N[x].rids[j] = node[at(x, j)].rids[to(x, j)]
               /\ N[x].keys[j] = node[at(x, j)].keys[to(x, j)]
               /\ (x = l \/ x = r) <=> (at(x, j) = l \/ at(x, j) = r)
    <3>0. node[x].is_leaf /\ x \in Pages
      BY <1>3, <1>9, <2>1
    <3>1. CASE x = l
      <4>1. j \in 1 .. k /\ j \in 1 .. e
        BY <1>6, <1>8, <2>1, <3>1
      <4>2. N[l].rids[j] = RidOf(l, r, j) /\ N[l].keys[j] = KeyOf(l, r, j)
        BY <1>3, <1>4, <3>0, <3>1, <4>1
      <4> QED BY <1>2, <2>0, <3>0, <3>1, <4>1, <4>2
    <3>2. CASE x = r
      <4>1. j \in 1 .. e - k /\ k + j \in 1 .. e /\ r # l
        BY <1>2, <1>6, <1>8, <2>1, <3>2
      <4>2. N[r].rids[j] = RidOf(l, r, k + j) /\ N[r].keys[j] = KeyOf(l, r, k + j)
        BY <1>2, <1>3, <1>4, <3>0, <3>2, <4>1
      <4> QED BY <1>2, <2>0, <3>0, <3>2, <4>1, <4>2
    <3>3. CASE x # l /\ x # r
      <4>1. N[x].rids = node[x].rids /\ N[x].keys = node[x].keys
        BY <1>3, <1>4, <3>0, <3>3
      <4> QED BY <2>1, <3>0, <3>3, <4>1
    <3> QED BY <3>1, <3>2, <3>3
  <2>2. ASSUME NEW x \in T, N[x].is_leaf, NEW j \in DOMAIN N[x].rids,
               NEW y \in T, N[y].is_leaf, NEW j2 \in DOMAIN N[y].rids,
               at(x, j) = at(y, j2), to(x, j) = to(y, j2)
        PROVE  x = y /\ j = j2
    <3>1. CASE x # l /\ x # r
      <4>1. y # l /\ y # r
        BY <2>1, <2>2, <3>1
      <4> QED BY <2>2, <3>1, <4>1
    <3>2. CASE x = l \/ x = r
      <4>0. y = l \/ y = r
        BY <2>1, <2>2, <3>2
      <4> DEFINE u == IF x = l THEN j ELSE k + j
                 v == IF y = l THEN j2 ELSE k + j2
      <4>1. /\ x = l => j \in 1 .. k
            /\ x = r => j \in 1 .. e - k
            /\ y = l => j2 \in 1 .. k
            /\ y = r => j2 \in 1 .. e - k
        BY <1>6, <2>2
      <4>2. u \in 1 .. e /\ v \in 1 .. e
        BY <1>2, <1>8, <3>2, <4>0, <4>1
      <4>3. /\ at(x, j) = PlaceOf(l, r, u)[1] /\ to(x, j) = PlaceOf(l, r, u)[2]
            /\ at(y, j2) = PlaceOf(l, r, v)[1] /\ to(y, j2) = PlaceOf(l, r, v)[2]
        BY <1>2, <3>2, <4>0
      <4>4. u = v
        <5> HIDE DEF u, v, at, to
        <5>1. PlaceOf(l, r, u) = PlaceOf(l, r, v)
          <6>1. /\ PlaceOf(l, r, u) = <<PlaceOf(l, r, u)[1], PlaceOf(l, r, u)[2]>>
                /\ PlaceOf(l, r, v) = <<PlaceOf(l, r, v)[1], PlaceOf(l, r, v)[2]>>
            BY <2>0, <4>2
          <6>2. PlaceOf(l, r, u)[1] = PlaceOf(l, r, v)[1] /\ PlaceOf(l, r, u)[2] = PlaceOf(l, r, v)[2]
            BY <2>2, <4>3
          <6> QED BY <6>1, <6>2
        <5> QED BY <2>0, <4>2, <5>1
      <4> HIDE DEF at, to
      <4> QED BY <1>2, <1>8, <3>2, <4>0, <4>1, <4>4
    <3> QED BY <3>1, <3>2
  <2> HIDE DEF at, to
  <2>3. ASSUME NEW x \in T, N[x].is_leaf, NEW j \in DOMAIN N[x].rids
        PROVE  <<N[x].keys[j], N[x].rids[j]>> \in Entry
    <3>1. <<node[at(x, j)].keys[to(x, j)], node[at(x, j)].rids[to(x, j)]>> \in Entry
      BY <1>1, <2>1, <2>3 DEF EntriesOK
    <3> QED BY <2>1, <2>3, <3>1
  <2>4. ASSUME NEW x \in T, N[x].is_leaf, NEW j \in DOMAIN N[x].rids,
               NEW y \in T, N[y].is_leaf, NEW j2 \in DOMAIN N[y].rids,
               N[x].rids[j] = N[y].rids[j2]
        PROVE  x = y /\ j = j2
    <3>1. node[at(x, j)].rids[to(x, j)] = node[at(y, j2)].rids[to(y, j2)]
      BY <2>1, <2>4
    <3>2. at(x, j) = at(y, j2) /\ to(x, j) = to(y, j2)
      BY <1>1, <2>1, <2>4, <3>1 DEF EntriesOK
    <3> QED BY <2>2, <2>4, <3>2
  <2> QED BY <2>3, <2>4 DEF EntriesOK
<1>22. Index(N, hdr, Idle, T, lev, nxt, fl)
  BY <1>1, <1>3, <1>15, <1>16, <1>17, <1>18, <1>20, <1>21, IdleIs DEF Index, root
<1> QED
  BY <1>22

\* The node that has too few entries.
LEMMA PoorIs ==
  ASSUME NEW T, NEW lev, NEW nxt, NEW fl, Index(node, hdr, work, T, lev, nxt, fl), HasUnderflow
  PROVE  LET n == work.page
             m == Len(node[n].rids)
         IN /\ n \in T /\ n \in Pages /\ n # hdr.root_page /\ node[n].parent # NDX_NO_PAGE
            /\ work = [todo |-> "underflow", page |-> n]
            /\ m \in Nat /\ m >= 1 /\ m < MinOf(hdr) /\ m + 1 >= MinOf(hdr)
            /\ MinFill = MinOf(hdr)
            /\ Parent = node[n].parent /\ Parent \in T /\ Parent \in Pages /\ ~node[Parent].is_leaf
            /\ Rank \in 1 .. Len(node[Parent].rids) /\ node[Parent].rids[Rank] = n
            /\ Len(node[Parent].rids) \in Nat
            /\ \A q \in T : q # n => /\ Len(node[q].rids) \in Nat /\ Len(node[q].rids) <= hdr.btree_order
                                     /\ q # hdr.root_page => Len(node[q].rids) >= MinOf(hdr)
<1> DEFINE n == work.page
           m == Len(node[n].rids)
<1>1. /\ Typed(node) /\ hdr \in Header /\ work \in Works /\ Shape(T, lev, nxt)
      /\ Links(node, hdr.root_page, T, lev, nxt) /\ Filled(node, hdr, T, work)
  BY DEF Index
<1>2. T \subseteq Pages /\ n \in T /\ n \in Pages /\ node[n].parent # NDX_NO_PAGE /\ work.todo = "underflow"
  BY <1>1 DEF HasUnderflow, Filled, Shape
<1>3. work = [todo |-> "underflow", page |-> n]
  BY <1>1, <1>2 DEF Works
<1>4. /\ Parent = node[n].parent /\ Parent \in T /\ Parent \in Pages /\ ~node[Parent].is_leaf
      /\ n # hdr.root_page
      /\ Rank \in 1 .. Len(node[Parent].rids) /\ node[Parent].rids[Rank] = n
  BY <1>1, <1>2, PlaceIs DEF Parent, Rank
<1>5. MinOf(hdr) \in Nat /\ MinFill = MinOf(hdr) /\ hdr.btree_order \in Nat
  BY <1>1, Fill
<1>6. m \in Nat /\ m >= 1
  BY <1>1, <1>2, <1>4, NotEmpty
<1>7. m < MinOf(hdr) /\ m + 1 >= MinOf(hdr)
  <2>1. Extra(work, "underflow", n) = 1
    BY <1>3 DEF Extra
  <2>2. m >= MinOf(hdr) - 1 /\ m < MinOf(hdr)
    BY <1>1, <1>2, <1>4, <2>1 DEF Filled
  <2> QED BY <1>5, <1>6, <2>2
<1>8. ASSUME NEW q \in T, q # n
      PROVE  /\ Len(node[q].rids) \in Nat /\ Len(node[q].rids) <= hdr.btree_order
             /\ q # hdr.root_page => Len(node[q].rids) >= MinOf(hdr)
  <2>1. Extra(work, "overflow", q) = 0 /\ Extra(work, "underflow", q) = 0
    BY <1>3, <1>8 DEF Extra
  <2>2. Len(node[q].rids) \in Nat
    BY <1>1, <1>2, PageIs
  <2>3. Len(node[q].rids) <= hdr.btree_order + 0 /\ (q # hdr.root_page => Len(node[q].rids) >= MinOf(hdr) - 0)
    BY <1>1, <2>1 DEF Filled
  <2> QED BY <1>5, <2>2, <2>3
<1>9. Len(node[Parent].rids) \in Nat
  BY <1>1, <1>4, PageIs
<1> QED
  BY <1>2, <1>3, <1>4, <1>5, <1>6, <1>7, <1>8, <1>9

LEMMA BorrowLeftStep ==
  ASSUME NEW T, NEW lev, NEW nxt, NEW fl, Index(node, hdr, work, T, lev, nxt, fl), BorrowLeft
  PROVE  IInv' /\ SameEntries(node')
<1> DEFINE r == work.page
           l == LeftBrother
           p == Parent
           i == Rank - 1
           a == Len(node[l].rids)
           d == Len(node[r].rids)
           k == a - 1
           M == [node EXCEPT ![r] = InsertPair(@, 1, node[l].keys[a], node[l].rids[a]), ![l] = ErasePair(@, a)]
<1>1. /\ Typed(node) /\ hdr \in Header /\ Shape(T, lev, nxt) /\ Links(node, hdr.root_page, T, lev, nxt)
  BY DEF Index
<1>2. HasUnderflow /\ Rank > 1 /\ a > MinFill
  BY DEF BorrowLeft, LeftIsRich
<1>3. /\ r \in T /\ work = [todo |-> "underflow", page |-> r]
      /\ d \in Nat /\ d >= 1 /\ d < MinOf(hdr) /\ d + 1 >= MinOf(hdr) /\ MinFill = MinOf(hdr)
      /\ p \in T /\ ~node[p].is_leaf /\ Rank \in 1 .. Len(node[p].rids) /\ node[p].rids[Rank] = r
      /\ Len(node[p].rids) \in Nat
  BY <1>2, PoorIs
<1>4. i \in 1 .. Len(node[p].rids) - 1 /\ i + 1 = Rank /\ node[p].rids[i] = l /\ node[p].rids[i + 1] = r
  BY <1>2, <1>3 DEF LeftBrother
<1>5. Brothers(T, lev, nxt, p, i, l, r)
  <2> HIDE DEF i, l, r, p
  <2> QED BY <1>1, <1>3, <1>4, BrothersAre
<1>6. l \in T /\ l \in Pages /\ r \in Pages /\ l # r /\ node[r].is_leaf = node[l].is_leaf /\ l # hdr.root_page
  BY <1>5 DEF Brothers
<1>7. /\ a \in Nat /\ a <= hdr.btree_order
  BY <1>2, <1>6, PoorIs
<1>8. /\ node' = Adopted(MaintainParent(M, l), r, <<node[l].rids[a]>>) /\ work' = Idle /\ hdr' = hdr
  BY DEF BorrowLeft
<1>9. hdr.btree_order \in Nat /\ MinOf(hdr) \in Nat /\ MinOf(hdr) >= 2 /\ MinOf(hdr) < hdr.btree_order
  BY <1>1, Fill
<1>10. Both(l, r) = a + d
  BY DEF Both
<1>11. RidOf(l, r, a) = node[l].rids[a]
  <2> DEFINE c == a
  <2>1. RidOf(l, r, c) = IF c <= Len(node[l].rids) THEN node[l].rids[c] ELSE node[r].rids[c - Len(node[l].rids)]
    BY DEF RidOf
  <2>2. c <= Len(node[l].rids)
    BY <1>7
  <2> QED BY <2>1, <2>2
<1>12. a >= 1
  <2> HIDE DEF a
  <2> QED BY <1>2, <1>3, <1>7, <1>9
<1>13. Shifts(M, l, r, k)
  BY <1>1, <1>6, <1>12, GivesLast
<1> HIDE DEF M, l, r, p, i
<1>14. /\ k \in 1 .. Both(l, r) - 1
       /\ MinOf(hdr) <= k /\ k <= hdr.btree_order
       /\ MinOf(hdr) <= Both(l, r) - k /\ Both(l, r) - k <= hdr.btree_order
       /\ k = Len(node[l].rids) - 1 /\ k + 1 = a
  <2>1. k = Len(node[l].rids) - 1
    OBVIOUS
  <2> HIDE DEF a, d
  <2> QED BY <1>2, <1>3, <1>7, <1>9, <1>10, <2>1
<1> HIDE DEF k
<1>15. Told(M, MaintainParent(M, l), T, lev, l)
  BY <1>5, <1>13, <1>14, ShiftTells
<1>16. Shifted(Adopted(MaintainParent(M, l), r, <<node[l].rids[a]>>), T, l, r, k)
  <2> DEFINE x == node[l].rids[a]
  <2>1. x = RidOf(l, r, k + 1)
    BY <1>11, <1>14
  <2> HIDE DEF x
  <2>2. Shifted(Adopted(MaintainParent(M, l), r, <<x>>), T, l, r, k)
    BY <1>5, <1>13, <1>14, <1>15, <2>1, ShiftAdopts
  <2> QED BY <2>2 DEF x
<1>17. Index(node', hdr', work', T, lev, nxt, fl)
  BY <1>3, <1>5, <1>8, <1>14, <1>16, ShiftStep
<1>18. SameEntries(node')
  BY <1>1, <1>5, <1>8, <1>14, <1>16, ShiftKeeps
<1> QED
  BY <1>17, <1>18 DEF IInv

LEMMA BorrowRightStep ==
  ASSUME NEW T, NEW lev, NEW nxt, NEW fl, Index(node, hdr, work, T, lev, nxt, fl), BorrowRight
  PROVE  IInv' /\ SameEntries(node')
<1> DEFINE l == work.page
           r == RightBrother
           p == Parent
           i == Rank
           a == Len(node[l].rids)
           d == Len(node[r].rids)
           k == a + 1
           M == [node EXCEPT ![l] = InsertPair(@, Len(@.rids) + 1, node[r].keys[1], node[r].rids[1]),
                             ![r] = ErasePair(@, 1)]
<1>1. /\ Typed(node) /\ hdr \in Header /\ Shape(T, lev, nxt) /\ Links(node, hdr.root_page, T, lev, nxt)
  BY DEF Index
<1>2. HasUnderflow /\ Rank < Len(node[p].rids) /\ d > MinFill
  BY DEF BorrowRight, RightIsRich
<1>3. /\ l \in T /\ work = [todo |-> "underflow", page |-> l]
      /\ a \in Nat /\ a >= 1 /\ a < MinOf(hdr) /\ a + 1 >= MinOf(hdr) /\ MinFill = MinOf(hdr)
      /\ p \in T /\ ~node[p].is_leaf /\ Rank \in 1 .. Len(node[p].rids) /\ node[p].rids[Rank] = l
      /\ Len(node[p].rids) \in Nat
  BY <1>2, PoorIs
<1>4. i \in 1 .. Len(node[p].rids) - 1 /\ node[p].rids[i] = l /\ node[p].rids[i + 1] = r
  BY <1>2, <1>3 DEF RightBrother
<1>5. Brothers(T, lev, nxt, p, i, l, r)
  <2> HIDE DEF i, l, r, p
  <2> QED BY <1>1, <1>3, <1>4, BrothersAre
<1>6. r \in T /\ l \in Pages /\ r \in Pages /\ l # r /\ node[r].is_leaf = node[l].is_leaf /\ r # hdr.root_page
  BY <1>5 DEF Brothers
<1>7. /\ d \in Nat /\ d <= hdr.btree_order
  BY <1>2, <1>6, PoorIs
<1>8. /\ node' = Adopted(MaintainParent(M, l), l, <<node[r].rids[1]>>) /\ work' = Idle /\ hdr' = hdr
  BY DEF BorrowRight
<1>9. hdr.btree_order \in Nat /\ MinOf(hdr) \in Nat /\ MinOf(hdr) >= 2 /\ MinOf(hdr) < hdr.btree_order
  BY <1>1, Fill
<1>10. Both(l, r) = a + d
  BY DEF Both
<1>11. RidOf(l, r, k) = node[r].rids[1]
  <2> DEFINE c == a
  <2>1. RidOf(l, r, c + 1) = IF c + 1 <= Len(node[l].rids) THEN node[l].rids[c + 1] ELSE node[r].rids[(c + 1) - Len(node[l].rids)]
    BY DEF RidOf
  <2>2. ~(c + 1 <= Len(node[l].rids)) /\ (c + 1) - Len(node[l].rids) = 1
    <3>1. c = Len(node[l].rids) /\ c \in Nat
      BY <1>3
    <3> HIDE DEF c
    <3> QED BY <3>1
  <2> QED BY <2>1, <2>2
<1>12. d >= 1
  <2> HIDE DEF d
  <2> QED BY <1>2, <1>3, <1>7, <1>9
<1>13. Shifts(M, l, r, k)
  BY <1>1, <1>6, <1>12, GivesFirst
<1> HIDE DEF M, l, r, p, i
<1>14. /\ k \in 1 .. Both(l, r) - 1
       /\ MinOf(hdr) <= k /\ k <= hdr.btree_order
       /\ MinOf(hdr) <= Both(l, r) - k /\ Both(l, r) - k <= hdr.btree_order
       /\ k = Len(node[l].rids) + 1
  <2>1. k = Len(node[l].rids) + 1
    OBVIOUS
  <2> HIDE DEF a, d
  <2> QED BY <1>2, <1>3, <1>7, <1>9, <1>10, <2>1
<1> HIDE DEF k
<1>15. Told(M, MaintainParent(M, l), T, lev, l)
  BY <1>5, <1>13, <1>14, ShiftTells
<1>16. Shifted(Adopted(MaintainParent(M, l), l, <<node[r].rids[1]>>), T, l, r, k)
  <2> DEFINE x == node[r].rids[1]
  <2>1. x = RidOf(l, r, k)
    BY <1>11
  <2> HIDE DEF x
  <2>2. Shifted(Adopted(MaintainParent(M, l), l, <<x>>), T, l, r, k)
    BY <1>5, <1>13, <1>14, <1>15, <2>1, ShiftAdopts
  <2> QED BY <2>2 DEF x
<1>17. Index(node', hdr', work', T, lev, nxt, fl)
  BY <1>3, <1>5, <1>8, <1>14, <1>16, ShiftStep
<1>18. SameEntries(node')
  BY <1>1, <1>5, <1>8, <1>14, <1>16, ShiftKeeps
<1> QED
  BY <1>17, <1>18 DEF IInv

\* The pages A after l took over the entries of r, the next child of p, and the
\* children that came with them know it.
Joins(A, l, r, p, i) ==
  /\ Typed(A)
  /\ Len(A[l].rids) = Both(l, r)
  /\ \A j \in 1 .. Both(l, r) : A[l].rids[j] = RidOf(l, r, j) /\ A[l].keys[j] = KeyOf(l, r, j)
  /\ Len(A[p].rids) = Len(node[p].rids) - 1
  /\ \A j \in 1 .. Len(node[p].rids) - 1 :
       /\ A[p].rids[j] = IF j <= i THEN node[p].rids[j] ELSE node[p].rids[j + 1]
       /\ j # i => A[p].keys[j] = IF j <= i THEN node[p].keys[j] ELSE node[p].keys[j + 1]
  /\ \A q \in Pages \ {l, p} : A[q].rids = node[q].rids /\ A[q].keys = node[q].keys
  /\ \A q \in Pages : /\ A[q].is_leaf = node[q].is_leaf /\ A[q].next_free = node[q].next_free
                      /\ A[q].next_leaf = node[q].next_leaf /\ A[q].prev_leaf = node[q].prev_leaf
  /\ node[l].is_leaf => \A q \in Pages : A[q].parent = node[q].parent
  /\ ~node[l].is_leaf =>
       /\ \A j \in 1 .. Both(l, r) : A[RidOf(l, r, j)].parent = l
       /\ \A q \in Pages : (\A j \in 1 .. Both(l, r) : RidOf(l, r, j) # q) => A[q].parent = node[q].parent

\* A node with the pairs of another after its own.
PairsOf(q, n, o, S) ==
  /\ q \in Nodes /\ q.rids \in Seq(S) /\ Len(q.keys) = Len(q.rids)
  /\ Len(q.rids) = Len(n.rids) + Len(o.rids)
  /\ \A j \in 1 .. Len(n.rids) + Len(o.rids) :
       /\ q.rids[j] = IF j <= Len(n.rids) THEN n.rids[j] ELSE o.rids[j - Len(n.rids)]
       /\ q.keys[j] = IF j <= Len(n.rids) THEN n.keys[j] ELSE o.keys[j - Len(n.rids)]
  /\ q.is_leaf = n.is_leaf /\ q.parent = n.parent /\ q.next_free = n.next_free
  /\ q.next_leaf = n.next_leaf /\ q.prev_leaf = n.prev_leaf

LEMMA JoinedIs ==
  ASSUME NEW n \in Nodes, Len(n.keys) = Len(n.rids), NEW S, S = Rids \/ S = Pages, n.rids \in Seq(S),
         NEW o \in Nodes, Len(o.keys) = Len(o.rids), o.rids \in Seq(S),
         NEW q, q = Joined(n, o)
  PROVE  PairsOf(q, n, o, S)
<1> DEFINE ks == n.keys \o o.keys
           rs == n.rids \o o.rids
<1>1. q = [n EXCEPT !.keys = ks, !.rids = rs]
  BY DEF Joined
<1>2. n.keys \in Seq(Keys) /\ o.keys \in Seq(Keys)
  BY DEF Nodes
<1>3. /\ ks \in Seq(Keys) /\ Len(ks) = Len(n.keys) + Len(o.keys)
      /\ \A j \in 1 .. Len(n.keys) + Len(o.keys) :
           ks[j] = IF j <= Len(n.keys) THEN n.keys[j] ELSE o.keys[j - Len(n.keys)]
  BY <1>2, ConcatIs
<1>4. /\ rs \in Seq(S) /\ Len(rs) = Len(n.rids) + Len(o.rids)
      /\ \A j \in 1 .. Len(n.rids) + Len(o.rids) :
           rs[j] = IF j <= Len(n.rids) THEN n.rids[j] ELSE o.rids[j - Len(n.rids)]
  BY ConcatIs
<1> HIDE DEF ks, rs
<1>5. rs \in Seq(Rids) \cup Seq(Pages)
  BY <1>4
<1>6. /\ q \in Nodes /\ q.keys = ks /\ q.rids = rs
      /\ q.is_leaf = n.is_leaf /\ q.parent = n.parent /\ q.next_free = n.next_free
      /\ q.next_leaf = n.next_leaf /\ q.prev_leaf = n.prev_leaf
  BY <1>1, <1>3, <1>5 DEF Nodes
<1> QED
  BY <1>3, <1>4, <1>6 DEF PairsOf

\* The parent loses the child at position i + 1, and the key at that position or
\* the one before it.
Cut(q, n, i) ==
  /\ q \in Nodes /\ q.rids \in Seq(Pages) /\ Len(q.keys) = Len(q.rids)
  /\ Len(q.rids) = Len(n.rids) - 1
  /\ \A j \in 1 .. Len(n.rids) - 1 :
       /\ q.rids[j] = IF j <= i THEN n.rids[j] ELSE n.rids[j + 1]
       /\ j # i => q.keys[j] = IF j <= i THEN n.keys[j] ELSE n.keys[j + 1]
  /\ q.is_leaf = n.is_leaf /\ q.parent = n.parent /\ q.next_free = n.next_free
  /\ q.next_leaf = n.next_leaf /\ q.prev_leaf = n.prev_leaf

LEMMA CutIs ==
  ASSUME NEW n \in Nodes, Len(n.keys) = Len(n.rids), n.rids \in Seq(Pages),
         NEW i \in Nat, i \in 1 .. Len(n.rids) - 1, NEW key_at, key_at = i \/ key_at = i + 1,
         NEW q, q = [n EXCEPT !.keys = RemoveAt(@, key_at), !.rids = RemoveAt(@, i + 1)]
  PROVE  Cut(q, n, i)
<1> DEFINE ks == RemoveAt(n.keys, key_at)
           rs == RemoveAt(n.rids, i + 1)
           c == Len(n.rids)
<1>1. n.keys \in Seq(Keys) /\ c \in Nat
  BY DEF Nodes
<1>2. i + 1 \in 1 .. c /\ key_at \in 1 .. c
  <2>1. c \in Nat /\ i \in 1 .. c - 1
    BY <1>1
  <2> HIDE DEF c
  <2> QED BY <2>1
<1>3. ks \in Seq(Keys) /\ Removes(ks, n.keys, key_at)
  BY <1>1, <1>2, RemovedIs
<1>4. rs \in Seq(Pages) /\ Removes(rs, n.rids, i + 1)
  BY <1>2, RemovedIs
<1>5. q = [n EXCEPT !.keys = ks, !.rids = rs]
  OBVIOUS
<1> HIDE DEF ks, rs
<1>6. /\ q \in Nodes /\ q.keys = ks /\ q.rids = rs
      /\ q.is_leaf = n.is_leaf /\ q.parent = n.parent /\ q.next_free = n.next_free
      /\ q.next_leaf = n.next_leaf /\ q.prev_leaf = n.prev_leaf
  BY <1>3, <1>4, <1>5 DEF Nodes
<1>7. /\ Len(ks) = c - 1 /\ Len(rs) = c - 1
      /\ \A j \in 1 .. c - 1 : rs[j] = IF j < i + 1 THEN n.rids[j] ELSE n.rids[j + 1]
      /\ \A j \in 1 .. c - 1 : ks[j] = IF j < key_at THEN n.keys[j] ELSE n.keys[j + 1]
  BY <1>3, <1>4 DEF Removes
<1> HIDE DEF c
<1>8. ASSUME NEW j \in 1 .. c - 1
      PROVE  /\ rs[j] = IF j <= i THEN n.rids[j] ELSE n.rids[j + 1]
             /\ j # i => ks[j] = IF j <= i THEN n.keys[j] ELSE n.keys[j + 1]
  <2>1. (j < i + 1 <=> j <= i) /\ (j # i => (j < key_at <=> j <= i))
    BY <1>1
  <2> QED BY <1>7, <2>1
<1> QED
  BY <1>4, <1>6, <1>7, <1>8 DEF Cut, c

\* The pages M when l has the entries of r and p no longer has r.
Moved(M, l, r, p, i) ==
  /\ M \in [Pages -> Nodes]
  /\ PairsOf(M[l], node[l], node[r], IF node[l].is_leaf THEN Rids ELSE Pages)
  /\ Cut(M[p], node[p], i)
  /\ \A q \in Pages \ {l, p} : M[q] = node[q]

LEMMA MovedIs ==
  ASSUME NEW T, NEW lev, NEW nxt, Typed(node), NEW p, NEW i, NEW l, NEW r, Brothers(T, lev, nxt, p, i, l, r),
         NEW key_at, key_at = i \/ key_at = i + 1,
         NEW M, M = [node EXCEPT ![l] = Joined(@, node[r]),
                                 ![p].keys = RemoveAt(@, key_at),
                                 ![p].rids = RemoveAt(@, FindChild(node[p], r))]
  PROVE  Moved(M, l, r, p, i)
<1> DEFINE x == Joined(node[l], node[r])
           y == [node[p] EXCEPT !.keys = RemoveAt(@, key_at), !.rids = RemoveAt(@, i + 1)]
           S == IF node[l].is_leaf THEN Rids ELSE Pages
<1>2. /\ p \in Pages /\ l \in Pages /\ r \in Pages
      /\ l # r /\ l # p /\ r # p /\ ~node[p].is_leaf
      /\ i \in Nat /\ i \in 1 .. Len(node[p].rids) - 1 /\ i + 1 \in 1 .. Len(node[p].rids)
      /\ node[p].rids[i + 1] = r
      /\ \A j \in 1 .. Len(node[p].rids) : node[p].rids[j] = r => j = i + 1
      /\ node[r].is_leaf = node[l].is_leaf
  BY DEF Brothers
<1>3. /\ node[p].rids \in Seq(Pages) /\ DOMAIN node[p].rids = 1 .. Len(node[p].rids)
      /\ Len(node[p].keys) = Len(node[p].rids)
      /\ node[l].rids \in Seq(S) /\ node[r].rids \in Seq(S) /\ (S = Rids \/ S = Pages)
      /\ Len(node[l].keys) = Len(node[l].rids) /\ Len(node[r].keys) = Len(node[r].rids)
      /\ node[p] \in Nodes /\ node[l] \in Nodes /\ node[r] \in Nodes
  BY <1>2, PageIs
<1>4. FindChild(node[p], r) = i + 1
  <2>1. r \in ToSet(node[p].rids)
    BY <1>2, <1>3 DEF ToSet
  <2>2. /\ FindChild(node[p], r) \in 1 .. Len(node[p].rids)
        /\ node[p].rids[FindChild(node[p], r)] = r
    BY <1>3, <2>1, FindChildIs
  <2> QED BY <1>2, <2>2
<1>0. node \in [Pages -> Nodes]
  BY DEF Typed
<1>5. M = [node EXCEPT ![l] = x, ![p] = y]
  BY <1>0, <1>2, <1>4
<1>7. PairsOf(x, node[l], node[r], S)
  <2>1. x = Joined(node[l], node[r])
    OBVIOUS
  <2> HIDE DEF S, x
  <2> QED BY <1>3, <2>1, JoinedIs
<1>8. Cut(y, node[p], i)
  <2>1. /\ y = [node[p] EXCEPT !.keys = RemoveAt(@, key_at), !.rids = RemoveAt(@, i + 1)]
    OBVIOUS
  <2> HIDE DEF y
  <2> QED BY <1>2, <1>3, <2>1, CutIs
<1> HIDE DEF x, y
<1>9. x \in Nodes /\ y \in Nodes
  BY <1>7, <1>8 DEF PairsOf, Cut
<1>6. /\ M \in [Pages -> Nodes] /\ M[l] = x /\ M[p] = y
      /\ \A q \in Pages \ {l, p} : M[q] = node[q]
  <2>1. M[l] = x /\ M[p] = y
    BY <1>0, <1>2, <1>5
  <2>2. \A q \in Pages \ {l, p} : M[q] = node[q]
    BY <1>0, <1>5
  <2>3. DOMAIN M = Pages
    BY <1>0, <1>5
  <2>4. \A q \in Pages : M[q] \in Nodes
    BY <1>0, <1>9, <2>1, <2>2
  <2>5. M = [q \in Pages |-> M[q]]
    BY <1>0, <1>5, <2>3
  <2> QED BY <2>1, <2>2, <2>4, <2>5
<1> QED
  BY <1>6, <1>7, <1>8 DEF Moved

LEMMA AbsorbJoins ==
  ASSUME NEW T, NEW lev, NEW nxt, NEW fl, Index(node, hdr, work, T, lev, nxt, fl),
         NEW p, NEW i, NEW l, NEW r, Brothers(T, lev, nxt, p, i, l, r),
         NEW M, Moved(M, l, r, p, i)
  PROVE  Joins(Adopted(M, l, node[r].rids), l, r, p, i)
<1> DEFINE e == Both(l, r)
           c == Len(node[p].rids)
           A == Adopted(M, l, node[r].rids)
           S == IF node[l].is_leaf THEN Rids ELSE Pages
<1>1. /\ Typed(node) /\ hdr \in Header /\ Shape(T, lev, nxt)
      /\ Links(node, hdr.root_page, T, lev, nxt) /\ KeysOK(node, T, NDX_NO_PAGE)
  BY DEF Index
<1>2. /\ p \in T /\ l \in T /\ r \in T /\ p \in Pages /\ l \in Pages /\ r \in Pages
      /\ l # r /\ l # p /\ r # p /\ ~node[p].is_leaf
      /\ i \in Nat /\ i \in 1 .. c - 1 /\ i + 1 \in 1 .. c /\ node[p].rids[i + 1] = r
      /\ \A j \in 1 .. c : node[p].rids[j] = r => j = i + 1
      /\ node[r].is_leaf = node[l].is_leaf
  BY DEF Brothers
<1>3. /\ node[p].rids \in Seq(Pages) /\ DOMAIN node[p].rids = 1 .. c /\ Len(node[p].keys) = c
      /\ node[l].rids \in Seq(S) /\ node[r].rids \in Seq(S) /\ (S = Rids \/ S = Pages)
      /\ Len(node[l].keys) = Len(node[l].rids) /\ Len(node[r].keys) = Len(node[r].rids)
      /\ node[p] \in Nodes /\ node[l] \in Nodes /\ node[r] \in Nodes
  BY <1>1, <1>2, PageIs
<1>4. /\ M \in [Pages -> Nodes]
      /\ PairsOf(M[l], node[l], node[r], S) /\ Cut(M[p], node[p], i)
      /\ \A q \in Pages \ {l, p} : M[q] = node[q]
  BY DEF Moved
<1>7. /\ M[l].rids \in Seq(S) /\ Len(M[l].keys) = Len(M[l].rids) /\ Len(M[l].rids) = e
      /\ \A j \in 1 .. e : M[l].rids[j] = RidOf(l, r, j) /\ M[l].keys[j] = KeyOf(l, r, j)
  BY <1>4 DEF PairsOf, Both, RidOf, KeyOf
<1>8. /\ M[p].rids \in Seq(Pages) /\ Len(M[p].keys) = Len(M[p].rids) /\ Len(M[p].rids) = c - 1
      /\ \A j \in 1 .. c - 1 :
           /\ M[p].rids[j] = IF j <= i THEN node[p].rids[j] ELSE node[p].rids[j + 1]
           /\ j # i => M[p].keys[j] = IF j <= i THEN node[p].keys[j] ELSE node[p].keys[j + 1]
  BY <1>4 DEF Cut
<1>9. M \in [Pages -> Nodes]
  BY <1>4
<1>10. \A q \in Pages : SameFields(M, q)
  BY <1>4 DEF SameFields, PairsOf, Cut
<1> HIDE DEF A
<1>11. /\ A \in [Pages -> Nodes]
       /\ \A q \in Pages :
            /\ A[q].keys = M[q].keys /\ A[q].rids = M[q].rids /\ A[q].is_leaf = M[q].is_leaf
            /\ A[q].next_free = M[q].next_free /\ A[q].next_leaf = M[q].next_leaf
            /\ A[q].prev_leaf = M[q].prev_leaf
            /\ A[q].parent = (IF ~node[l].is_leaf /\ q \in ToSet(node[r].rids) THEN l ELSE node[q].parent)
  <2>0. M[l].is_leaf = node[l].is_leaf
    BY <1>2, <1>10 DEF SameFields
  <2>1. CASE node[l].is_leaf
    <3>1. A = M
      BY <2>0, <2>1 DEF Adopted, A
    <3> QED BY <1>9, <1>10, <2>1, <3>1 DEF SameFields
  <2>2. CASE ~node[l].is_leaf
    <3> DEFINE C == ToSet(node[r].rids)
    <3>1. A = [q \in Pages |-> IF q \in C THEN [M[q] EXCEPT !.parent = l] ELSE M[q]]
      BY <2>0, <2>2 DEF Adopted, A
    <3> HIDE DEF C
    <3>2. l \in PageOrNone
      BY <1>2 DEF PageOrNone
    <3>3. ASSUME NEW q \in Pages
          PROVE  /\ A[q] \in Nodes
                 /\ A[q].keys = M[q].keys /\ A[q].rids = M[q].rids /\ A[q].is_leaf = M[q].is_leaf
                 /\ A[q].next_free = M[q].next_free /\ A[q].next_leaf = M[q].next_leaf
                 /\ A[q].prev_leaf = M[q].prev_leaf
                 /\ A[q].parent = (IF q \in C THEN l ELSE node[q].parent)
      <4>1. M[q] \in Nodes /\ M[q].parent = node[q].parent
        BY <1>9, <1>10 DEF SameFields
      <4>2. CASE q \in C
        <5>1. A[q] = [M[q] EXCEPT !.parent = l]
          BY <3>1, <4>2
        <5>2. /\ A[q] \in Nodes
              /\ A[q].keys = M[q].keys /\ A[q].rids = M[q].rids /\ A[q].is_leaf = M[q].is_leaf
              /\ A[q].next_free = M[q].next_free /\ A[q].next_leaf = M[q].next_leaf
              /\ A[q].prev_leaf = M[q].prev_leaf /\ A[q].parent = l
          BY <3>2, <4>1, <5>1, SetParent
        <5> QED BY <4>2, <5>2
      <4>3. CASE q \notin C
        <5>1. A[q] = M[q]
          BY <3>1, <4>3
        <5> QED BY <4>1, <4>3, <5>1
      <4> QED BY <4>2, <4>3
    <3>4. A \in [Pages -> Nodes]
      BY <3>1, <3>3
    <3> QED BY <2>2, <3>3, <3>4 DEF C
  <2> QED BY <2>1, <2>2
<1>12. \A q \in Pages : /\ A[q].is_leaf = node[q].is_leaf /\ A[q].next_free = node[q].next_free
                        /\ A[q].next_leaf = node[q].next_leaf /\ A[q].prev_leaf = node[q].prev_leaf
  BY <1>10, <1>11 DEF SameFields
<1>13. Typed(A)
  <2>1. ASSUME NEW q \in Pages
        PROVE  /\ Len(A[q].keys) = Len(A[q].rids)
               /\ A[q].rids \in IF A[q].is_leaf THEN Seq(Rids) ELSE Seq(Pages)
    <3>1. CASE q = l
      <4>1. (node[l].is_leaf => S = Rids) /\ (~node[l].is_leaf => S = Pages)
        OBVIOUS
      <4> HIDE DEF S
      <4> QED BY <1>7, <1>11, <1>12, <3>1, <4>1
    <3>2. CASE q = p
      BY <1>2, <1>8, <1>11, <1>12, <3>2
    <3>3. CASE q # l /\ q # p
      <4>1. M[q] = node[q] /\ Len(node[q].keys) = Len(node[q].rids)
        BY <1>1, <1>4, <3>3, PageIs
      <4>2. node[q].rids \in IF node[q].is_leaf THEN Seq(Rids) ELSE Seq(Pages)
        BY <1>1 DEF Typed
      <4> QED BY <1>11, <1>12, <4>1, <4>2
    <3> QED BY <3>1, <3>2, <3>3
  <2> QED BY <1>11, <2>1 DEF Typed
<1>14. \A q \in Pages \ {l, p} : A[q].rids = node[q].rids /\ A[q].keys = node[q].keys
  BY <1>4, <1>11
<1>15. ASSUME ~node[l].is_leaf
       PROVE  /\ \A j \in 1 .. e : A[RidOf(l, r, j)].parent = l
              /\ \A q \in Pages : (\A j \in 1 .. e : RidOf(l, r, j) # q) => A[q].parent = node[q].parent
  <2> DEFINE a == Len(node[l].rids)
             d == Len(node[r].rids)
  <2>1. node[r].rids \in Seq(Pages) /\ a \in Nat /\ d \in Nat
    BY <1>1, <1>2, <1>15, PageIs
  <2>2. \A q : q \in ToSet(node[r].rids) <=> \E j \in 1 .. d : node[r].rids[j] = q
    BY <2>1, InToSet
  <2>3. e = a + d
    BY DEF Both
  <2>4. \A j : RidOf(l, r, j) = IF j <= a THEN node[l].rids[j] ELSE node[r].rids[j - a]
    BY DEF RidOf
  <2>5. ASSUME NEW j \in 1 .. e
        PROVE  /\ RidOf(l, r, j) \in Pages /\ node[RidOf(l, r, j)].parent = IF j <= a THEN l ELSE r
    BY <1>1, <1>15, BothChildren
  <2> HIDE DEF a, d, e
  <2>6. ASSUME NEW j \in 1 .. e PROVE A[RidOf(l, r, j)].parent = l
    <3>1. CASE j <= a
      BY <1>11, <2>5, <3>1
    <3>2. CASE ~(j <= a)
      <4>1. j - a \in 1 .. d
        BY <2>1, <2>3, <3>2
      <4>2. RidOf(l, r, j) \in ToSet(node[r].rids)
        BY <2>2, <2>4, <3>2, <4>1
      <4> QED BY <1>11, <1>15, <2>5, <4>2
    <3> QED BY <3>1, <3>2
  <2>7. ASSUME NEW q \in Pages, \A j \in 1 .. e : RidOf(l, r, j) # q PROVE A[q].parent = node[q].parent
    <3>1. q \notin ToSet(node[r].rids)
      <4> SUFFICES ASSUME NEW j \in 1 .. d, node[r].rids[j] = q PROVE FALSE
        BY <2>2
      <4>1. a + j \in 1 .. e /\ ~(a + j <= a) /\ (a + j) - a = j
        BY <2>1, <2>3
      <4>2. RidOf(l, r, a + j) = node[r].rids[j]
        BY <2>4, <4>1
      <4> QED BY <2>7, <4>1, <4>2
    <3> QED BY <1>11, <3>1
  <2> QED BY <2>6, <2>7
<1>16. /\ Len(A[l].rids) = e
       /\ \A j \in 1 .. e : A[l].rids[j] = RidOf(l, r, j) /\ A[l].keys[j] = KeyOf(l, r, j)
       /\ Len(A[p].rids) = c - 1
       /\ \A j \in 1 .. c - 1 :
            /\ A[p].rids[j] = IF j <= i THEN node[p].rids[j] ELSE node[p].rids[j + 1]
            /\ j # i => A[p].keys[j] = IF j <= i THEN node[p].keys[j] ELSE node[p].keys[j + 1]
  <2>1. A[l].rids = M[l].rids /\ A[l].keys = M[l].keys /\ A[p].rids = M[p].rids /\ A[p].keys = M[p].keys
    BY <1>2, <1>11
  <2> HIDE DEF e, c
  <2> QED BY <1>7, <1>8, <2>1
<1>17. node[l].is_leaf => \A q \in Pages : A[q].parent = node[q].parent
  BY <1>11
<1>18. Joins(A, l, r, p, i)
  BY <1>12, <1>13, <1>14, <1>15, <1>16, <1>17 DEF Joins
<1> QED
  BY <1>18 DEF A

LEMMA AbsorbTells ==
  ASSUME NEW T, NEW lev, NEW nxt, NEW fl, Index(node, hdr, work, T, lev, nxt, fl),
         NEW p, NEW i, NEW l, NEW r, Brothers(T, lev, nxt, p, i, l, r),
         work.todo = "underflow", work.page # p,
         NEW A, Joins(A, l, r, p, i)
  PROVE  Told(A, MaintainParent(A, l), T \ {r}, lev, l)
<1> DEFINE K == lev[hdr.root_page]
           e == Both(l, r)
           c == Len(node[p].rids)
           T2 == T \ {r}
<1>1. /\ Typed(node) /\ hdr \in Header /\ Blank(node, T) /\ Shape(T, lev, nxt)
      /\ Links(node, hdr.root_page, T, lev, nxt)
      /\ RingOK(node, hdr.last_leaf, T, nxt) /\ KeysOK(node, T, NDX_NO_PAGE)
      /\ Filled(node, hdr, T, work) /\ work \in Works
  BY DEF Index
<1>2. /\ p \in T /\ l \in T /\ r \in T /\ p \in Pages /\ l \in Pages /\ r \in Pages
      /\ l # r /\ l # p /\ r # p /\ l # hdr.root_page /\ r # hdr.root_page
      /\ ~node[p].is_leaf /\ i \in Nat /\ i \in 1 .. c - 1 /\ i + 1 \in 1 .. c
      /\ node[p].rids[i] = l /\ node[p].rids[i + 1] = r
      /\ \A j \in 1 .. c : (node[p].rids[j] = l => j = i) /\ (node[p].rids[j] = r => j = i + 1)
      /\ node[l].parent = p /\ node[r].parent = p
      /\ lev[l] \in Nat /\ lev[r] = lev[l] /\ lev[p] = lev[l] + 1
      /\ node[r].is_leaf = node[l].is_leaf
  BY DEF Brothers
<1>3. /\ Typed(A)
      /\ Len(A[l].rids) = e
      /\ \A j \in 1 .. e : A[l].rids[j] = RidOf(l, r, j) /\ A[l].keys[j] = KeyOf(l, r, j)
      /\ Len(A[p].rids) = c - 1
      /\ \A j \in 1 .. c - 1 :
           /\ A[p].rids[j] = IF j <= i THEN node[p].rids[j] ELSE node[p].rids[j + 1]
           /\ j # i => A[p].keys[j] = IF j <= i THEN node[p].keys[j] ELSE node[p].keys[j + 1]
      /\ \A q \in Pages \ {l, p} : A[q].rids = node[q].rids /\ A[q].keys = node[q].keys
      /\ \A q \in Pages : A[q].is_leaf = node[q].is_leaf
      /\ node[l].is_leaf => \A q \in Pages : A[q].parent = node[q].parent
      /\ ~node[l].is_leaf =>
           /\ \A j \in 1 .. e : A[RidOf(l, r, j)].parent = l
           /\ \A q \in Pages : (\A j \in 1 .. e : RidOf(l, r, j) # q) => A[q].parent = node[q].parent
  BY DEF Joins
<1>4. c \in Nat /\ DOMAIN node[p].rids = 1 .. c /\ node[p].rids \in Seq(Pages)
  BY <1>1, <1>2, PageIs
<1>5. /\ lev \in [Pages -> Nat] /\ K \in Nat /\ T \subseteq Pages
      /\ \A q \in Pages : lev[q] <= K
      /\ \A q \in Pages : node[q].parent # NDX_NO_PAGE =>
           /\ q \in T /\ q # hdr.root_page
           /\ node[q].parent \in T /\ node[q].parent \in Pages /\ ~node[node[q].parent].is_leaf
           /\ lev[node[q].parent] = lev[q] + 1 /\ q \in ToSet(node[node[q].parent].rids)
  BY <1>1, Parents
<1>6. /\ e \in Nat /\ e >= 1 /\ DOMAIN A[l].rids = 1 .. e /\ Len(A[l].keys) = e
      /\ DOMAIN A[p].rids = 1 .. c - 1 /\ A[p].rids \in Seq(Pages) /\ Len(A[p].keys) = c - 1
      /\ \A j \in 1 .. Len(node[r].rids) : \E j2 \in 1 .. e : RidOf(l, r, j2) = node[r].rids[j]
  <2> DEFINE a == Len(node[l].rids)
             d == Len(node[r].rids)
  <2>1. a \in Nat /\ d \in Nat /\ a >= 1 /\ e = a + d
    BY <1>1, <1>2, <1>5, PageIs, NotEmpty DEF Both
  <2>2. \A j : RidOf(l, r, j) = IF j <= a THEN node[l].rids[j] ELSE node[r].rids[j - a]
    BY DEF RidOf
  <2> HIDE DEF a, e
  <2>3. ASSUME NEW j \in 1 .. d PROVE \E j2 \in 1 .. e : RidOf(l, r, j2) = node[r].rids[j]
    <3>1. d \in Nat
      BY <2>1
    <3> HIDE DEF d
    <3>2. a + j \in 1 .. e /\ ~(a + j <= a) /\ (a + j) - a = j
      BY <2>1
    <3> QED BY <2>2, <3>2
  <2>4. DOMAIN A[l].rids = 1 .. e /\ Len(A[l].keys) = e
    BY <1>2, <1>3, PageIs
  <2>5. DOMAIN A[p].rids = 1 .. c - 1 /\ A[p].rids \in Seq(Pages) /\ Len(A[p].keys) = c - 1
    <3>1. /\ ~A[p].is_leaf /\ Typed(A) /\ Len(A[p].rids) = c - 1
      BY <1>2, <1>3
    <3> QED BY <1>2, <3>1, PageIs
  <2>6. e \in Nat /\ e >= 1
    <3> HIDE DEF d
    <3> QED BY <2>1
  <2> QED BY <2>3, <2>4, <2>5, <2>6
<1> HIDE DEF K, e, c
\* The children of the two.
<1>7. ASSUME ~node[l].is_leaf, NEW j \in 1 .. e
      PROVE  LET q == RidOf(l, r, j) IN
             /\ q \in T /\ q \in Pages /\ q # l /\ q # r /\ q # p
             /\ node[q].parent = l \/ node[q].parent = r
             /\ lev[l] = lev[q] + 1 /\ lev[q] \in Nat
             /\ KeyOf(l, r, j) = Last(node[q].keys)
             /\ \A j2 \in 1 .. e : RidOf(l, r, j2) = q => j2 = j
             /\ A[q].parent = l
  <2>1. j \in 1 .. Both(l, r)
    BY DEF e
  <2>2. A[RidOf(l, r, j)].parent = l
    BY <1>3, <1>7
  <2>3. LET q == RidOf(l, r, j) IN
        /\ q \in T /\ q \in Pages /\ q # l /\ q # r /\ q # p
        /\ node[q].parent = (IF j <= Len(node[l].rids) THEN l ELSE r)
        /\ lev[l] = lev[q] + 1 /\ lev[q] \in Nat
        /\ KeyOf(l, r, j) = Last(node[q].keys)
        /\ \A j2 \in 1 .. e : RidOf(l, r, j2) = q => j2 = j
    BY <1>1, <1>7, <2>1, BothChildren DEF e
  <2> QED BY <2>2, <2>3
\* The parent of a page.
<1>8. ASSUME NEW q \in Pages
      PROVE  /\ node[q].parent # l /\ node[q].parent # r => A[q].parent = node[q].parent
             /\ node[q].parent = r => ~node[l].is_leaf /\ \E j \in 1 .. e : RidOf(l, r, j) = q
             /\ A[q].parent = node[q].parent \/ (A[q].parent = l /\ ~node[l].is_leaf /\ lev[l] = lev[q] + 1)
  <2>1. ASSUME node[q].parent # l, node[q].parent # r PROVE A[q].parent = node[q].parent
    BY <1>3, <1>7, <2>1
  <2>2. ASSUME node[q].parent = r PROVE ~node[l].is_leaf /\ \E j \in 1 .. e : RidOf(l, r, j) = q
    <3>1. q \in ToSet(node[r].rids) /\ ~node[r].is_leaf
      BY <1>2, <1>5, <2>2, Constants
    <3>2. node[r].rids \in Seq(Pages)
      BY <1>1, <1>2, <3>1, PageIs
    <3>3. \E j \in 1 .. Len(node[r].rids) : node[r].rids[j] = q
      BY <3>1, <3>2, InToSet
    <3> QED BY <1>2, <1>6, <3>1, <3>3
  <2>3. A[q].parent = node[q].parent \/ (A[q].parent = l /\ ~node[l].is_leaf /\ lev[l] = lev[q] + 1)
    BY <1>3, <1>7
  <2> QED BY <2>1, <2>2, <2>3
<1>9. \A q \in Pages : A[q].parent # NDX_NO_PAGE =>
        A[q].parent \in T2 /\ ~A[A[q].parent].is_leaf /\ lev[A[q].parent] = lev[q] + 1
  <2> SUFFICES ASSUME NEW q \in Pages, A[q].parent # NDX_NO_PAGE
               PROVE  A[q].parent \in T2 /\ ~A[A[q].parent].is_leaf /\ lev[A[q].parent] = lev[q] + 1
    OBVIOUS
  <2>1. CASE A[q].parent = l /\ ~node[l].is_leaf /\ lev[l] = lev[q] + 1
    BY <1>2, <1>3, <2>1
  <2>2. CASE A[q].parent = node[q].parent
    <3>1. CASE node[q].parent = r
      <4>1. ~node[l].is_leaf /\ \E j \in 1 .. e : RidOf(l, r, j) = q
        BY <1>8, <3>1
      <4>2. A[q].parent = l
        BY <1>7, <4>1
      <4> QED BY <1>2, <2>2, <3>1, <4>2
    <3>2. CASE node[q].parent # r
      BY <1>3, <1>5, <2>2, <3>2
    <3> QED BY <3>1, <3>2
  <2> QED BY <1>8, <2>1, <2>2
\* What p still has.
<1>10. ASSUME NEW q \in ToSet(node[p].rids), q # r PROVE q \in ToSet(A[p].rids)
  <2>1. PICK j \in 1 .. c : node[p].rids[j] = q
    BY <1>4, InToSet DEF c
  <2>2. j # i + 1
    BY <1>2, <1>10, <2>1
  <2>3. CASE j <= i
    <3>1. j \in 1 .. c - 1
      BY <1>2, <1>4, <2>3
    <3>2. A[p].rids[j] = q
      BY <1>3, <2>1, <2>3, <3>1
    <3> QED BY <1>6, <3>1, <3>2 DEF ToSet
  <2>4. CASE ~(j <= i)
    <3> DEFINE z == j - 1
    <3>1. z \in 1 .. c - 1 /\ ~(z <= i) /\ z + 1 = j
      BY <1>2, <1>4, <2>2, <2>4
    <3> HIDE DEF z
    <3>2. A[p].rids[z] = q
      BY <1>3, <2>1, <3>1
    <3> QED BY <1>6, <3>1, <3>2 DEF ToSet
  <2> QED BY <2>3, <2>4
<1>11. ASSUME NEW j \in 1 .. c - 1
       PROVE  \E z \in 1 .. c : /\ z # i + 1 /\ A[p].rids[j] = node[p].rids[z]
                                /\ z = IF j <= i THEN j ELSE j + 1
                                /\ j # i => A[p].keys[j] = node[p].keys[z]
  <2> DEFINE z == IF j <= i THEN j ELSE j + 1
  <2>1. z \in 1 .. c /\ z # i + 1
    BY <1>2, <1>4
  <2>2. A[p].rids[j] = node[p].rids[z] /\ (j # i => A[p].keys[j] = node[p].keys[z])
    BY <1>3
  <2> HIDE DEF z
  <2>3. z = IF j <= i THEN j ELSE j + 1
    BY DEF z
  <2> QED BY <2>1, <2>2, <2>3
<1>12. ASSUME NEW q \in T2, A[q].parent # NDX_NO_PAGE, lev[q] >= lev[l]
       PROVE  q \in ToSet(A[A[q].parent].rids) /\ A[q].keys # << >>
  <2> DEFINE x == node[q].parent
  <2>0. q \in T /\ q # r /\ q \in Pages /\ lev[q] \in Nat
    BY <1>5
  <2>1. A[q].parent = x
    <3>1. ~(lev[l] = lev[q] + 1)
      BY <1>2, <1>12, <2>0
    <3> QED BY <1>8, <2>0, <3>1
  <2>2. x \in Pages /\ lev[x] = lev[q] + 1 /\ q \in ToSet(node[x].rids) /\ q # hdr.root_page
    BY <1>5, <1>12, <2>0, <2>1
  <2> HIDE DEF x
  <2>3. x # l
    <3>1. x = l => lev[l] = lev[q] + 1
      BY <2>2
    <3> QED BY <1>2, <1>12, <2>0, <3>1
  <2>4. q \in ToSet(A[x].rids)
    <3>1. CASE x = p
      BY <1>10, <2>0, <2>2, <3>1
    <3>2. CASE x # p
      BY <1>3, <2>2, <2>3, <3>2
    <3> QED BY <3>1, <3>2
  <2>5. A[q].keys # << >>
    <3>1. CASE q = l
      <4>1. Len(A[l].keys) # 0
        BY <1>6
      <4> QED BY <3>1, <4>1
    <3>2. CASE q = p
      <4>1. c >= MinOf(hdr)
        <5>1. Extra(work, "underflow", p) = 0
          BY <1>1 DEF Extra
        <5>2. Len(node[p].rids) >= MinOf(hdr) - 0
          BY <1>1, <1>2, <2>2, <3>2, <5>1 DEF Filled
        <5>3. MinOf(hdr) \in Nat
          BY <1>1, Fill
        <5> QED BY <1>4, <5>2, <5>3 DEF c
      <4>2. c - 1 # 0
        <5>1. MinOf(hdr) \in Nat /\ MinOf(hdr) >= 2
          BY <1>1, Fill
        <5> QED BY <1>4, <4>1, <5>1
      <4>3. Len(A[p].keys) # 0
        BY <1>6, <4>2
      <4> QED BY <3>2, <4>3
    <3>3. CASE q # l /\ q # p
      <4>1. A[q].keys = node[q].keys
        BY <1>3, <2>0, <3>3
      <4>2. node[q].keys # << >>
        BY <1>1, <1>5, <2>0, <2>2, NotEmpty
      <4> QED BY <4>1, <4>2
    <3> QED BY <3>1, <3>2, <3>3
  <2> QED BY <2>1, <2>4, <2>5
\* The children of a node that is neither of the two.
<1>13. ASSUME NEW x \in T2, x # l, ~node[x].is_leaf, NEW j \in 1 .. Len(node[x].rids)
       PROVE  LET q == node[x].rids[j] IN
              /\ q \in T /\ q \in Pages /\ lev[q] + 1 = lev[x] /\ A[q].parent = x
              /\ (x # p => q # l /\ q # r) /\ q # NDX_NO_PAGE /\ j \in DOMAIN node[x].rids
              /\ node[x].keys[j] = Last(node[q].keys)
  <2> DEFINE q == node[x].rids[j]
  <2>1. q \in T /\ q \in Pages /\ node[q].parent = x /\ lev[x] = lev[q] + 1
    BY <1>1, <1>13, ChildIs
  <2>2. A[q].parent = x
    BY <1>8, <1>13, <2>1
  <2>3. q # NDX_NO_PAGE
    BY <2>1, Constants
  <2>4. j \in DOMAIN node[x].rids
    BY <1>1, <1>5, <1>13, PageIs
  <2>5. node[x].keys[j] = Last(node[q].keys)
    BY <1>1, <1>13, <2>3, <2>4 DEF KeysOK
  <2> QED BY <1>2, <2>1, <2>2, <2>3, <2>4, <2>5
<1>14. ASSUME NEW x \in T2, ~A[x].is_leaf
       PROVE  /\ IsInjective(A[x].rids)
              /\ \A j \in 1 .. Len(A[x].rids) :
                   LET q == A[x].rids[j] IN
                   q \in T2 /\ lev[q] + 1 = lev[x] /\ (lev[x] > lev[l] => A[q].parent = x)
  <2>0. x \in Pages /\ ~node[x].is_leaf
    BY <1>3, <1>5, <1>14
  <2>1. CASE x = l
    <3>1. IsInjective(A[l].rids)
      BY <1>3, <1>6, <1>7, <2>0, <2>1 DEF IsInjective
    <3>2. \A j \in 1 .. e : A[l].rids[j] \in T2 /\ lev[A[l].rids[j]] + 1 = lev[l]
      BY <1>3, <1>7, <2>0, <2>1
    <3>3. ~(lev[l] > lev[l])
      BY <1>2
    <3> QED BY <1>3, <2>1, <3>1, <3>2, <3>3
  <2>2. CASE x = p
    <3>1. \A j, k \in 1 .. c : node[p].rids[j] = node[p].rids[k] => j = k
      BY <1>1, <1>2, <1>4 DEF Links, ChildrenOK, IsInjective
    <3>2. IsInjective(A[p].rids)
      <4>1. ASSUME NEW j \in 1 .. c - 1, NEW k \in 1 .. c - 1, A[p].rids[j] = A[p].rids[k] PROVE j = k
        <5>1. (IF j <= i THEN j ELSE j + 1) = (IF k <= i THEN k ELSE k + 1)
          BY <1>11, <3>1, <4>1
        <5> QED BY <1>2, <1>4, <5>1
      <4> QED BY <1>6, <4>1 DEF IsInjective
    <3>3. ASSUME NEW j \in 1 .. c - 1
          PROVE  A[p].rids[j] \in T2 /\ lev[A[p].rids[j]] + 1 = lev[p] /\ A[A[p].rids[j]].parent = p
      <4>1. PICK z \in 1 .. c : z # i + 1 /\ A[p].rids[j] = node[p].rids[z]
        BY <1>11
      <4>2. node[p].rids[z] # r
        BY <1>2, <4>1
      <4>3. node[p].rids[z] \in T /\ lev[node[p].rids[z]] + 1 = lev[p] /\ A[node[p].rids[z]].parent = p
        BY <1>2, <1>13 DEF c
      <4> QED BY <4>1, <4>2, <4>3
    <3> QED BY <1>3, <2>2, <3>2, <3>3
  <2>3. CASE x # l /\ x # p
    <3>1. A[x].rids = node[x].rids
      BY <1>3, <2>0, <2>3
    <3>2. IsInjective(node[x].rids)
      BY <1>1, <2>0 DEF Links, ChildrenOK
    <3>3. \A j \in 1 .. Len(node[x].rids) :
            LET q == node[x].rids[j] IN q \in T2 /\ lev[q] + 1 = lev[x] /\ A[q].parent = x
      BY <1>13, <2>0, <2>3
    <3> QED BY <3>1, <3>2, <3>3
  <2> QED BY <2>1, <2>2, <2>3
<1>15. Climbs(A, T2, lev, K, l)
  BY <1>2, <1>3, <1>5, <1>9, <1>12, <1>14 DEF Climbs
<1>16. KeysBelow(A, T2, l)
  <2> SUFFICES ASSUME NEW x \in T2, ~A[x].is_leaf, NEW j \in DOMAIN A[x].rids,
                      A[x].rids[j] # l, A[x].rids[j] # A[l].parent
               PROVE  A[x].keys[j] = Last(A[A[x].rids[j]].keys)
    BY DEF KeysBelow
  <2>0. x \in Pages /\ ~node[x].is_leaf /\ A[l].parent = p
    BY <1>2, <1>3, <1>5, <1>8
  <2>1. CASE x = l
    <3>1. j \in 1 .. e
      BY <1>6, <2>1
    <3>2. LET q == RidOf(l, r, j) IN q \in Pages /\ q # l /\ q # p /\ KeyOf(l, r, j) = Last(node[q].keys)
      BY <1>7, <2>0, <2>1, <3>1
    <3> QED BY <1>3, <2>1, <3>1, <3>2
  <2>2. CASE x = p
    <3>1. j \in 1 .. c - 1 /\ j # i
      <4>1. j \in 1 .. c - 1
        BY <1>6, <2>2
      <4>2. A[p].rids[i] = l
        BY <1>2, <1>3
      <4> QED BY <2>2, <4>1, <4>2
    <3>2. PICK z \in 1 .. c : /\ z # i + 1 /\ A[p].rids[j] = node[p].rids[z]
                              /\ A[p].keys[j] = node[p].keys[z]
      BY <1>11, <3>1
    <3>3. node[p].rids[z] \in Pages /\ node[p].keys[z] = Last(node[node[p].rids[z]].keys)
      BY <1>2, <1>13 DEF c
    <3> QED BY <1>3, <2>0, <2>2, <3>2, <3>3
  <2>3. CASE x # l /\ x # p
    <3>1. A[x].rids = node[x].rids /\ A[x].keys = node[x].keys
      BY <1>3, <2>0, <2>3
    <3>2. j \in 1 .. Len(node[x].rids)
      BY <1>1, <2>0, <3>1, PageIs
    <3>3. node[x].rids[j] \in Pages /\ node[x].keys[j] = Last(node[node[x].rids[j]].keys)
      BY <1>13, <2>0, <2>3, <3>2
    <3> QED BY <1>3, <2>0, <3>1, <3>3
  <2> QED BY <2>1, <2>2, <2>3
<1> QED
  BY <1>15, <1>16, MaintainParentIs

\* The pages N when l has the entries of r, the way up has been told, the leaf r
\* has left the ring and the page r is free.
Merged(N, T, l, r, p, i) ==
  /\ Typed(N)
  /\ Len(N[l].rids) = Both(l, r)
  /\ \A j \in 1 .. Both(l, r) : N[l].rids[j] = RidOf(l, r, j)
  /\ Len(N[p].rids) = Len(node[p].rids) - 1
  /\ \A j \in 1 .. Len(node[p].rids) - 1 :
       N[p].rids[j] = IF j <= i THEN node[p].rids[j] ELSE node[p].rids[j + 1]
  /\ \A q \in Pages \ {l, r, p} : N[q].rids = node[q].rids
  /\ N[r] = Released(hdr.first_free)
  /\ \A q \in Pages \ {r} :
       /\ N[q].is_leaf = node[q].is_leaf /\ N[q].next_free = node[q].next_free
       /\ N[q].next_leaf = IF node[l].is_leaf /\ q = l THEN node[r].next_leaf ELSE node[q].next_leaf
       /\ N[q].prev_leaf = IF node[l].is_leaf /\ q = node[r].next_leaf THEN l ELSE node[q].prev_leaf
  /\ \A q \in Pages \ T : N[q].keys = node[q].keys /\ N[q].parent = node[q].parent
  /\ node[l].is_leaf => \A j \in 1 .. Both(l, r) : N[l].keys[j] = KeyOf(l, r, j)
  /\ \A q \in Pages \ {l, r} : node[q].is_leaf => N[q].keys = node[q].keys
  /\ node[l].is_leaf => \A q \in Pages \ {r} : N[q].parent = node[q].parent
  /\ ~node[l].is_leaf =>
       /\ \A j \in 1 .. Both(l, r) : N[RidOf(l, r, j)].parent = l
       /\ \A q \in Pages \ {r} : (\A j \in 1 .. Both(l, r) : RidOf(l, r, j) # q) => N[q].parent = node[q].parent
  /\ KeysOK(N, T \ {r}, NDX_NO_PAGE)

\* Merging two brothers changes no entry.
LEMMA MergeKeeps ==
  ASSUME NEW T, NEW lev, NEW nxt, Typed(node), hdr \in Header,
         NEW p, NEW i, NEW l, NEW r, Brothers(T, lev, nxt, p, i, l, r),
         NEW N, Merged(N, T, l, r, p, i)
  PROVE  SameEntries(N)
<1> DEFINE e == Both(l, r)
<1>1. /\ l \in Pages /\ r \in Pages /\ p \in Pages /\ l # r /\ node[r].is_leaf = node[l].is_leaf
      /\ ~node[p].is_leaf
  BY DEF Brothers
<1>2. /\ Typed(N) /\ Len(N[l].rids) = e
      /\ \A j \in 1 .. e : N[l].rids[j] = RidOf(l, r, j)
      /\ \A q \in Pages \ {l, r, p} : N[q].rids = node[q].rids
      /\ N[r] = Released(hdr.first_free)
      /\ \A q \in Pages \ {r} : N[q].is_leaf = node[q].is_leaf
      /\ node[l].is_leaf => \A j \in 1 .. e : N[l].keys[j] = KeyOf(l, r, j)
      /\ \A q \in Pages \ {l, r} : node[q].is_leaf => N[q].keys = node[q].keys
  BY DEF Merged
<1>3. DOMAIN N[l].rids = 1 .. e
  BY <1>1, <1>2, PageIs
<1>4. ~N[r].is_leaf
  <2>1. hdr.first_free \in PageOrNone
    BY DEF Header
  <2> QED BY <1>2, <2>1, ReleasedIs
<1>5. ASSUME NEW q \in {l, r}, NEW j \in DOMAIN node[q].rids
      PROVE  \E u \in 1 .. e : RidOf(l, r, u) = node[q].rids[j] /\ KeyOf(l, r, u) = node[q].keys[j]
  BY <1>1, FromBoth
<1>6. ASSUME NEW u \in 1 .. e
      PROVE  \E q \in {l, r} : \E j \in DOMAIN node[q].rids :
               RidOf(l, r, u) = node[q].rids[j] /\ KeyOf(l, r, u) = node[q].keys[j]
  BY <1>1, PlacesOf
<1> HIDE DEF e
<1>7. ASSUME NEW x, NEW y, Has(N, x, y) PROVE Has(node, x, y)
  <2>1. PICK q \in Pages : N[q].is_leaf /\ \E j \in DOMAIN N[q].rids : N[q].keys[j] = x /\ N[q].rids[j] = y
    BY <1>7 DEF Has
  <2>2. PICK j \in DOMAIN N[q].rids : N[q].keys[j] = x /\ N[q].rids[j] = y
    BY <2>1
  <2>3. q # r /\ node[q].is_leaf /\ q # p
    BY <1>1, <1>2, <1>4, <2>1
  <2>4. CASE q = l
    <3>1. node[l].is_leaf /\ node[r].is_leaf /\ j \in 1 .. e
      BY <1>1, <1>3, <2>3, <2>4
    <3>2. RidOf(l, r, j) = y /\ KeyOf(l, r, j) = x
      BY <1>2, <2>2, <2>4, <3>1
    <3> QED BY <1>1, <1>6, <3>1, <3>2 DEF Has
  <2>5. CASE q # l
    <3>1. N[q].rids = node[q].rids /\ N[q].keys = node[q].keys
      BY <1>2, <2>3, <2>5
    <3> QED BY <2>2, <2>3, <3>1 DEF Has
  <2> QED BY <2>4, <2>5
<1>8. ASSUME NEW x, NEW y, Has(node, x, y) PROVE Has(N, x, y)
  <2>1. PICK q \in Pages : node[q].is_leaf /\ \E j \in DOMAIN node[q].rids : node[q].keys[j] = x /\ node[q].rids[j] = y
    BY <1>8 DEF Has
  <2>2. PICK j \in DOMAIN node[q].rids : node[q].keys[j] = x /\ node[q].rids[j] = y
    BY <2>1
  <2>3. CASE q \in {l, r}
    <3>1. node[l].is_leaf /\ N[l].is_leaf
      BY <1>1, <1>2, <2>1, <2>3
    <3>2. PICK u \in 1 .. e : RidOf(l, r, u) = y /\ KeyOf(l, r, u) = x
      BY <1>5, <2>2, <2>3
    <3>3. u \in DOMAIN N[l].rids /\ N[l].keys[u] = x /\ N[l].rids[u] = y
      BY <1>2, <1>3, <3>1, <3>2
    <3> QED BY <1>1, <3>1, <3>3 DEF Has
  <2>4. CASE q \notin {l, r}
    <3>1. N[q].is_leaf /\ N[q].rids = node[q].rids /\ N[q].keys = node[q].keys
      BY <1>1, <1>2, <2>1, <2>4
    <3> QED BY <2>2, <3>1 DEF Has
  <2> QED BY <2>3, <2>4
<1> QED
  BY <1>7, <1>8 DEF SameEntries

\* All but the ring links of a page.
SameButRing(N, R, q) ==
  /\ N[q].keys = R[q].keys /\ N[q].rids = R[q].rids /\ N[q].is_leaf = R[q].is_leaf
  /\ N[q].next_free = R[q].next_free /\ N[q].parent = R[q].parent

LEMMA OutOfRing ==
  ASSUME NEW R \in [Pages -> Nodes], NEW l \in Pages, NEW x \in Pages, l # x,
         NEW r, R[r].is_leaf, R[r].prev_leaf = l, R[r].next_leaf = x, NEW W, W = WithoutLeaf(R, r)
  PROVE  /\ W \in [Pages -> Nodes]
         /\ \A q \in Pages : /\ SameButRing(W, R, q)
                             /\ W[q].next_leaf = IF q = l THEN x ELSE R[q].next_leaf
                             /\ W[q].prev_leaf = IF q = x THEN l ELSE R[q].prev_leaf
<1>4. W = [R EXCEPT ![l].next_leaf = x, ![x].prev_leaf = l]
  BY DEF WithoutLeaf
<1>0. l \in PageOrNone /\ x \in PageOrNone
  BY DEF PageOrNone
<1>1. /\ DOMAIN W = Pages
      /\ W[l] = [R[l] EXCEPT !.next_leaf = x] /\ W[x] = [R[x] EXCEPT !.prev_leaf = l]
      /\ \A q \in Pages \ {l, x} : W[q] = R[q]
  BY <1>4
<1>2. W = [q \in Pages |-> W[q]]
  BY <1>4
<1>3. ASSUME NEW q \in Pages
      PROVE  /\ W[q] \in Nodes /\ SameButRing(W, R, q)
             /\ W[q].next_leaf = IF q = l THEN x ELSE R[q].next_leaf
             /\ W[q].prev_leaf = IF q = x THEN l ELSE R[q].prev_leaf
  <2>0. R[q] \in Nodes
    OBVIOUS
  <2>1. CASE q = l
    BY <1>0, <1>1, <2>0, <2>1, SetNext DEF SameButRing
  <2>2. CASE q = x
    BY <1>0, <1>1, <2>0, <2>2, SetPrev DEF SameButRing
  <2>3. CASE q # l /\ q # x
    BY <1>1, <2>0, <2>3 DEF SameButRing
  <2> QED BY <2>1, <2>2, <2>3
<1> QED
  BY <1>2, <1>3

LEMMA AbsorbFrees ==
  ASSUME NEW T, NEW lev, NEW nxt, NEW fl, Index(node, hdr, work, T, lev, nxt, fl),
         NEW p, NEW i, NEW l, NEW r, Brothers(T, lev, nxt, p, i, l, r),
         NEW A, Joins(A, l, r, p, i), NEW R, Told(A, R, T \ {r}, lev, l)
  PROVE  Merged([WithoutLeaf(R, r) EXCEPT ![r] = Released(hdr.first_free)], T, l, r, p, i)
<1> DEFINE W == WithoutLeaf(R, r)
           N == [W EXCEPT ![r] = Released(hdr.first_free)]
           e == Both(l, r)
           c == Len(node[p].rids)
           x == node[r].next_leaf
<1>1. /\ Typed(node) /\ hdr \in Header /\ Shape(T, lev, nxt)
      /\ Links(node, hdr.root_page, T, lev, nxt) /\ KeysOK(node, T, NDX_NO_PAGE)
      /\ RingOK(node, hdr.last_leaf, T, nxt)
  BY DEF Index
<1>2. /\ p \in T /\ l \in T /\ r \in T /\ p \in Pages /\ l \in Pages /\ r \in Pages
      /\ l # r /\ l # p /\ r # p /\ ~node[p].is_leaf
      /\ i \in Nat /\ i \in 1 .. c - 1 /\ i + 1 \in 1 .. c /\ node[p].rids[i + 1] = r
      /\ \A j \in 1 .. c : node[p].rids[j] = r => j = i + 1
      /\ node[r].is_leaf = node[l].is_leaf /\ node[r].parent = p /\ node[l].parent = p
      /\ lev[l] \in Nat /\ nxt[l] = r /\ nxt[r] # l /\ nxt[r] # r
  BY DEF Brothers
<1>3. T \subseteq Pages /\ NDX_LEAF_HEADER_PAGE \notin T /\ NDX_LEAF_HEADER_PAGE \in Pages /\ r # NDX_NO_PAGE
  BY <1>1, <1>2, Constants DEF Shape
<1>4. /\ Typed(A)
      /\ Len(A[l].rids) = e
      /\ \A j \in 1 .. e : A[l].rids[j] = RidOf(l, r, j) /\ A[l].keys[j] = KeyOf(l, r, j)
      /\ Len(A[p].rids) = c - 1
      /\ \A j \in 1 .. c - 1 : A[p].rids[j] = IF j <= i THEN node[p].rids[j] ELSE node[p].rids[j + 1]
      /\ \A q \in Pages \ {l, p} : A[q].rids = node[q].rids /\ A[q].keys = node[q].keys
      /\ \A q \in Pages : /\ A[q].is_leaf = node[q].is_leaf /\ A[q].next_free = node[q].next_free
                          /\ A[q].next_leaf = node[q].next_leaf /\ A[q].prev_leaf = node[q].prev_leaf
      /\ node[l].is_leaf => \A q \in Pages : A[q].parent = node[q].parent
      /\ ~node[l].is_leaf =>
           /\ \A j \in 1 .. e : A[RidOf(l, r, j)].parent = l
           /\ \A q \in Pages : (\A j \in 1 .. e : RidOf(l, r, j) # q) => A[q].parent = node[q].parent
  BY DEF Joins
<1>5. /\ Typed(R) /\ KeysOK(R, T \ {r}, NDX_NO_PAGE)
      /\ \A q \in Pages : SameLinks(A, R, q)
      /\ \A q \in Pages : A[q].is_leaf \/ q \notin T \ {r} \/ lev[q] <= lev[l] => R[q] = A[q]
  BY DEF Told
<1> HIDE DEF e, c
<1>6. \A q \in Pages : /\ R[q].rids = A[q].rids /\ R[q].parent = A[q].parent
                       /\ R[q].is_leaf = node[q].is_leaf /\ R[q].next_free = node[q].next_free
                       /\ R[q].next_leaf = node[q].next_leaf /\ R[q].prev_leaf = node[q].prev_leaf
  BY <1>4, <1>5 DEF SameLinks
<1>7. R[l] = A[l] /\ \A q \in Pages : node[q].is_leaf \/ q \notin T => R[q] = A[q]
  BY <1>2, <1>4, <1>5
<1>8. R \in [Pages -> Nodes]
  BY <1>5 DEF Typed
\* The ring.
<1>9. node[l].is_leaf => node[r].prev_leaf = l /\ x \in Pages /\ x # l /\ x # r
  <2> SUFFICES ASSUME node[l].is_leaf PROVE node[r].prev_leaf = l /\ x \in Pages /\ x # l /\ x # r
    OBVIOUS
  <2>1. LeafOK(node, hdr.last_leaf, T, nxt, l) /\ LeafOK(node, hdr.last_leaf, T, nxt, r)
    BY <1>1, <1>2 DEF RingOK
  <2>2. node[r].prev_leaf = l
    BY <1>2, <1>3, <2>1 DEF LeafOK
  <2>3. x = IF nxt[r] = NDX_NO_PAGE THEN NDX_LEAF_HEADER_PAGE ELSE nxt[r]
    BY <2>1 DEF LeafOK
  <2>4. nxt[r] # NDX_NO_PAGE => nxt[r] \in Pages
    BY <1>1, <1>2, InnerIs
  <2> QED BY <1>2, <1>3, <2>2, <2>3, <2>4
<1>10. /\ W \in [Pages -> Nodes]
       /\ \A q \in Pages : /\ SameButRing(W, R, q)
                           /\ W[q].next_leaf = IF node[l].is_leaf /\ q = l THEN x ELSE node[q].next_leaf
                           /\ W[q].prev_leaf = IF node[l].is_leaf /\ q = x THEN l ELSE node[q].prev_leaf
  <2>1. CASE ~node[l].is_leaf
    <3>1. W = R
      BY <1>2, <1>6, <2>1 DEF WithoutLeaf
    <3> QED BY <1>6, <1>8, <2>1, <3>1 DEF SameButRing
  <2>2. CASE node[l].is_leaf
    <3>1. W = WithoutLeaf(R, r)
      OBVIOUS
    <3>3. /\ l \in Pages /\ x \in Pages /\ l # x
          /\ R[r].is_leaf /\ R[r].prev_leaf = l /\ R[r].next_leaf = x
      BY <1>2, <1>6, <1>9, <2>2
    <3> HIDE DEF W, x
    <3>2. /\ W \in [Pages -> Nodes]
          /\ \A q \in Pages : /\ SameButRing(W, R, q)
                              /\ W[q].next_leaf = IF q = l THEN x ELSE R[q].next_leaf
                              /\ W[q].prev_leaf = IF q = x THEN l ELSE R[q].prev_leaf
      BY <1>8, <3>1, <3>3, OutOfRing
    <3> QED BY <1>6, <2>2, <3>2
  <2> QED BY <2>1, <2>2
<1>11. hdr.first_free \in PageOrNone
  BY <1>1 DEF Header
<1> HIDE DEF W
<1>12. /\ N \in [Pages -> Nodes] /\ N[r] = Released(hdr.first_free)
       /\ \A q \in Pages \ {r} : N[q] = W[q]
  <2>1. Released(hdr.first_free) \in Nodes
    BY <1>11, ReleasedIs
  <2> QED BY <1>2, <1>10, <2>1
<1> HIDE DEF N, x
<1>13. \A q \in Pages \ {r} :
         /\ N[q].rids = A[q].rids /\ N[q].parent = A[q].parent /\ N[q].keys = R[q].keys
         /\ N[q].is_leaf = node[q].is_leaf /\ N[q].next_free = node[q].next_free
         /\ N[q].next_leaf = IF node[l].is_leaf /\ q = l THEN x ELSE node[q].next_leaf
         /\ N[q].prev_leaf = IF node[l].is_leaf /\ q = x THEN l ELSE node[q].prev_leaf
  BY <1>6, <1>10, <1>12 DEF SameButRing
<1>14. Typed(N)
  <2>1. ASSUME NEW q \in Pages
        PROVE  /\ Len(N[q].keys) = Len(N[q].rids)
               /\ N[q].rids \in IF N[q].is_leaf THEN Seq(Rids) ELSE Seq(Pages)
    <3>1. CASE q = r
      <4>1. ~N[r].is_leaf /\ N[r].keys = << >> /\ N[r].rids = << >>
        BY <1>11, <1>12, ReleasedIs
      <4>2. << >> \in Seq(Pages)
        OBVIOUS
      <4> QED BY <3>1, <4>1, <4>2
    <3>2. CASE q # r
      <4>1. /\ Len(R[q].keys) = Len(R[q].rids)
            /\ R[q].rids \in IF R[q].is_leaf THEN Seq(Rids) ELSE Seq(Pages)
        BY <1>5 DEF Typed
      <4> QED BY <1>6, <1>13, <3>2, <4>1
    <3> QED BY <3>1, <3>2
  <2> QED BY <1>12, <2>1 DEF Typed
\* No node has the child r any more.
<1>15. ASSUME NEW q \in T \ {r}, ~node[q].is_leaf, NEW j \in DOMAIN A[q].rids
       PROVE  A[q].rids[j] \in Pages /\ A[q].rids[j] # r
  <2>1. A[q].rids \in Seq(Pages) /\ j \in 1 .. Len(A[q].rids)
    <3>1. q \in Pages /\ ~A[q].is_leaf
      BY <1>3, <1>4, <1>15
    <3> QED BY <1>4, <3>1, PageIs
  <2>2. A[q].rids[j] \in Pages
    BY <2>1
  <2>3. CASE q = l
    <3>1. j \in 1 .. Both(l, r) /\ A[l].rids[j] = RidOf(l, r, j)
      BY <1>4, <2>1, <2>3 DEF e
    <3>2. RidOf(l, r, j) # r
      BY <1>1, <1>15, <2>3, <3>1, BothChildren
    <3> QED BY <2>2, <2>3, <3>1, <3>2
  <2>4. CASE q = p
    <3>1. j \in 1 .. c - 1 /\ c \in Nat
      <4>1. c \in Nat
        BY <1>1, <1>2, PageIs DEF c
      <4> QED BY <1>4, <2>1, <2>4, <4>1
    <3>2. CASE j <= i
      <4>1. A[p].rids[j] = node[p].rids[j] /\ j \in 1 .. c /\ j # i + 1
        BY <1>2, <1>4, <3>1, <3>2
      <4> QED BY <1>2, <2>2, <2>4, <4>1
    <3>3. CASE ~(j <= i)
      <4>1. A[p].rids[j] = node[p].rids[j + 1] /\ j + 1 \in 1 .. c /\ j + 1 # i + 1
        BY <1>2, <1>4, <3>1, <3>3
      <4> QED BY <1>2, <2>2, <2>4, <4>1
    <3> QED BY <3>2, <3>3
  <2>5. CASE q # l /\ q # p
    <3>1. A[q].rids = node[q].rids
      BY <1>3, <1>4, <2>5
    <3>2. node[node[q].rids[j]].parent = q
      BY <1>1, <1>15, <2>1, <3>1, ChildIs
    <3> QED BY <1>2, <2>2, <2>5, <3>1, <3>2
  <2> QED BY <2>3, <2>4, <2>5
<1>16. KeysOK(N, T \ {r}, NDX_NO_PAGE)
  <2> SUFFICES ASSUME NEW q \in T \ {r}, ~N[q].is_leaf, NEW j \in DOMAIN N[q].rids, N[q].rids[j] # NDX_NO_PAGE
               PROVE  N[q].keys[j] = Last(N[N[q].rids[j]].keys)
    BY DEF KeysOK
  <2>1. /\ q \in Pages /\ q # r /\ N[q].rids = A[q].rids /\ R[q].rids = A[q].rids /\ N[q].keys = R[q].keys
        /\ ~R[q].is_leaf /\ ~node[q].is_leaf
    BY <1>3, <1>6, <1>13
  <2>2. A[q].rids[j] \in Pages /\ A[q].rids[j] # r
    BY <1>15, <2>1
  <2>3. R[q].keys[j] = Last(R[R[q].rids[j]].keys)
    BY <1>5, <2>1 DEF KeysOK
  <2>4. N[A[q].rids[j]].keys = R[A[q].rids[j]].keys
    BY <1>13, <2>2
  <2> QED BY <2>1, <2>3, <2>4
<1>17. ASSUME NEW q \in Pages \ T PROVE N[q].keys = node[q].keys /\ N[q].parent = node[q].parent
  <2>1. q # l /\ q # r /\ q # p
    BY <1>2
  <2>2. N[q].keys = node[q].keys
    BY <1>4, <1>7, <1>13, <2>1
  <2>3. A[q].parent = node[q].parent
    <3>1. CASE node[l].is_leaf
      BY <1>4, <3>1
    <3>2. CASE ~node[l].is_leaf
      <4>1. ASSUME NEW j \in 1 .. e PROVE RidOf(l, r, j) # q
        <5>1. j \in 1 .. Both(l, r)
          BY DEF e
        <5> QED BY <1>1, <3>2, <5>1, BothChildren
      <4> QED BY <1>4, <3>2, <4>1
    <3> QED BY <3>1, <3>2
  <2> QED BY <1>13, <2>1, <2>2, <2>3
<1>18. /\ Len(N[l].rids) = e
       /\ \A j \in 1 .. e : N[l].rids[j] = RidOf(l, r, j) /\ N[l].keys[j] = KeyOf(l, r, j)
       /\ Len(N[p].rids) = c - 1
       /\ \A j \in 1 .. c - 1 : N[p].rids[j] = IF j <= i THEN node[p].rids[j] ELSE node[p].rids[j + 1]
  <2>1. N[l].rids = A[l].rids /\ N[l].keys = A[l].keys /\ N[p].rids = A[p].rids
    BY <1>2, <1>7, <1>13
  <2> QED BY <1>4, <2>1
<1>19. /\ \A q \in Pages \ {l, r, p} : N[q].rids = node[q].rids
       /\ \A q \in Pages \ {l, r} : node[q].is_leaf => N[q].keys = node[q].keys
  <2>1. ASSUME NEW q \in Pages \ {l, r}, node[q].is_leaf PROVE N[q].keys = node[q].keys
    <3>1. q # p
      BY <1>2, <2>1
    <3> QED BY <1>4, <1>7, <1>13, <2>1, <3>1
  <2> QED BY <1>4, <1>13, <2>1
<1>20. /\ node[l].is_leaf => \A q \in Pages \ {r} : N[q].parent = node[q].parent
       /\ ~node[l].is_leaf =>
            \A q \in Pages \ {r} : (\A j \in 1 .. e : RidOf(l, r, j) # q) => N[q].parent = node[q].parent
  BY <1>4, <1>13
<1>21. ASSUME ~node[l].is_leaf, NEW j \in 1 .. e PROVE N[RidOf(l, r, j)].parent = l
  <2>1. j \in 1 .. Both(l, r)
    BY DEF e
  <2>2. RidOf(l, r, j) \in Pages /\ RidOf(l, r, j) # r
    BY <1>1, <1>21, <2>1, BothChildren
  <2> QED BY <1>4, <1>13, <1>21, <2>2
<1>22. Merged(N, T, l, r, p, i)
  BY <1>12, <1>13, <1>14, <1>16, <1>17, <1>18, <1>19, <1>20, <1>21 DEF Merged, e, c, x
<1> QED
  BY <1>22 DEF N, W

LEMMA MergeStep ==
  ASSUME NEW T, NEW lev, NEW nxt, NEW fl, Index(node, hdr, work, T, lev, nxt, fl),
         NEW p, NEW i, NEW l, NEW r, Brothers(T, lev, nxt, p, i, l, r),
         NEW n, n = l \/ n = r, work = [todo |-> "underflow", page |-> n],
         NEW N, Merged(N, T, l, r, p, i), Both(l, r) < 2 * MinOf(hdr),
         NEW h, h = [hdr EXCEPT !.last_leaf = IF @ = r THEN l ELSE @, !.first_free = r],
         NEW w, w = UnderflowAt(N, p)
  PROVE  \E T2, lev2, nxt2, fl2 : Index(N, h, w, T2, lev2, nxt2, fl2)
<1> DEFINE a == Len(node[l].rids)
           d == Len(node[r].rids)
           c == Len(node[p].rids)
           e == Both(l, r)
           x1 == node[r].next_leaf
           root == hdr.root_page
           T2 == T \ {r}
           lev2 == [lev EXCEPT ![r] = 0]
           nxt2 == [nxt EXCEPT ![l] = nxt[r], ![r] = NDX_NO_PAGE]
<1>1. /\ Typed(node) /\ hdr \in Header /\ work \in Works /\ FreeList(node, hdr, T, fl)
      /\ Blank(node, T) /\ Shape(T, lev, nxt) /\ Links(node, hdr.root_page, T, lev, nxt)
      /\ RingOK(node, hdr.last_leaf, T, nxt) /\ KeysOK(node, T, NDX_NO_PAGE)
      /\ Filled(node, hdr, T, work) /\ Ascending(node, T, nxt) /\ EntriesOK(node, T)
  BY DEF Index
<1>2. /\ p \in T /\ l \in T /\ r \in T /\ p \in Pages /\ l \in Pages /\ r \in Pages
      /\ l # r /\ l # p /\ r # p /\ l # root /\ r # root
      /\ ~node[p].is_leaf /\ i \in Nat /\ i \in 1 .. c - 1 /\ i + 1 \in 1 .. c
      /\ node[p].rids[i] = l /\ node[p].rids[i + 1] = r
      /\ \A j \in 1 .. c : (node[p].rids[j] = l => j = i) /\ (node[p].rids[j] = r => j = i + 1)
      /\ node[l].parent = p /\ node[r].parent = p
      /\ lev[l] \in Nat /\ lev[r] = lev[l] /\ lev[p] = lev[l] + 1
      /\ node[r].is_leaf = node[l].is_leaf
      /\ nxt[l] = r /\ nxt[r] # l /\ nxt[r] # r
  BY DEF Brothers
<1>3. /\ Typed(N)
      /\ Len(N[l].rids) = e
      /\ \A j \in 1 .. e : N[l].rids[j] = RidOf(l, r, j)
      /\ Len(N[p].rids) = c - 1
      /\ \A j \in 1 .. c - 1 : N[p].rids[j] = IF j <= i THEN node[p].rids[j] ELSE node[p].rids[j + 1]
      /\ \A q \in Pages \ {l, r, p} : N[q].rids = node[q].rids
      /\ N[r] = Released(hdr.first_free)
      /\ \A q \in Pages \ T : N[q].keys = node[q].keys /\ N[q].parent = node[q].parent
      /\ KeysOK(N, T2, NDX_NO_PAGE)
  BY DEF Merged
<1>4. /\ node[l].is_leaf => \A j \in 1 .. e : N[l].keys[j] = KeyOf(l, r, j)
      /\ \A q \in Pages \ {l, r} : node[q].is_leaf => N[q].keys = node[q].keys
      /\ node[l].is_leaf => \A q \in Pages \ {r} : N[q].parent = node[q].parent
      /\ ~node[l].is_leaf =>
           /\ \A j \in 1 .. e : N[RidOf(l, r, j)].parent = l
           /\ \A q \in Pages \ {r} : (\A j \in 1 .. e : RidOf(l, r, j) # q) => N[q].parent = node[q].parent
  BY DEF Merged
<1>5. \A q \in Pages \ {r} :
        /\ N[q].is_leaf = node[q].is_leaf /\ N[q].next_free = node[q].next_free
        /\ N[q].next_leaf = IF node[l].is_leaf /\ q = l THEN x1 ELSE node[q].next_leaf
        /\ N[q].prev_leaf = IF node[l].is_leaf /\ q = x1 THEN l ELSE node[q].prev_leaf
  BY DEF Merged
<1>6. /\ a \in Nat /\ d \in Nat /\ a >= 1 /\ d >= 1 /\ e = a + d
      /\ DOMAIN node[l].rids = 1 .. a /\ DOMAIN node[r].rids = 1 .. d
      /\ DOMAIN node[l].keys = 1 .. a /\ DOMAIN node[r].keys = 1 .. d
      /\ Len(node[l].keys) = a /\ Len(node[r].keys) = d
      /\ c \in Nat /\ DOMAIN node[p].rids = 1 .. c /\ node[p].rids \in Seq(Pages)
  <2>1. T \subseteq Pages
    BY <1>1 DEF Shape
  <2>2. a \in Nat /\ a >= 1 /\ d \in Nat /\ d >= 1
    BY <1>1, <1>2, <2>1, NotEmpty
  <2>3. /\ DOMAIN node[l].rids = 1 .. a /\ DOMAIN node[l].keys = 1 .. a /\ Len(node[l].keys) = a
    BY <1>1, <1>2, PageIs
  <2>4. /\ DOMAIN node[r].rids = 1 .. d /\ DOMAIN node[r].keys = 1 .. d /\ Len(node[r].keys) = d
    BY <1>1, <1>2, PageIs
  <2>5. c \in Nat /\ DOMAIN node[p].rids = 1 .. c /\ node[p].rids \in Seq(Pages)
    BY <1>1, <1>2, PageIs
  <2>6. e = a + d
    BY DEF Both
  <2> QED BY <2>2, <2>3, <2>4, <2>5, <2>6
<1>7. /\ DOMAIN N[l].rids = 1 .. e /\ DOMAIN N[l].keys = 1 .. e /\ Len(N[l].keys) = e
      /\ DOMAIN N[p].rids = 1 .. c - 1
  <2>1. DOMAIN N[l].rids = 1 .. e /\ DOMAIN N[l].keys = 1 .. e /\ Len(N[l].keys) = e
    <3> HIDE DEF e
    <3> QED BY <1>2, <1>3, PageIs
  <2>2. DOMAIN N[p].rids = 1 .. c - 1
    BY <1>2, <1>3, PageIs
  <2> QED BY <2>1, <2>2
<1>8. /\ RidOf(l, r, 1) = node[l].rids[1] /\ KeyOf(l, r, 1) = node[l].keys[1]
      /\ KeyOf(l, r, e) = Last(node[r].keys)
      /\ \A j \in 1 .. a : RidOf(l, r, j) = node[l].rids[j]
      /\ \A j \in 1 .. d : a + j \in 1 .. e /\ RidOf(l, r, a + j) = node[r].rids[j]
  <2> DEFINE b == a
  <2>1. \A j : /\ RidOf(l, r, j) = IF j <= b THEN node[l].rids[j] ELSE node[r].rids[j - b]
               /\ KeyOf(l, r, j) = IF j <= b THEN node[l].keys[j] ELSE node[r].keys[j - b]
    BY DEF RidOf, KeyOf
  <2>2. Last(node[r].keys) = node[r].keys[d]
    BY <1>6 DEF Last
  <2>3. b = a
    OBVIOUS
  <2> HIDE DEF a, b, d, e
  <2>4. \A j \in 1 .. d : a + j \in 1 .. e /\ ~(a + j <= b) /\ (a + j) - b = j
    BY <1>6, <2>3
  <2>5. 1 <= b /\ ~(e <= b) /\ e - b = d
    BY <1>6, <2>3
  <2> QED BY <2>1, <2>2, <2>3, <2>4, <2>5
<1> HIDE DEF a, d, e, c, root, x1
<1>9. /\ i \in Nat /\ c \in Nat /\ e \in Nat /\ e >= 2 /\ 1 \in 1 .. e /\ e \in 1 .. e /\ 1 \in 1 .. c - 1 /\ 1 <= i /\ i < c /\ i + 1 \in Nat
      /\ \A j \in 1 .. a : j \in 1 .. e
  BY <1>2, <1>6
<1>10. /\ lev \in [Pages -> Nat] /\ T \subseteq Pages /\ root \in T /\ nxt[root] = NDX_NO_PAGE
       /\ NDX_LEAF_HEADER_PAGE \notin T
       /\ nxt \in [Pages -> T \cup {NDX_NO_PAGE}]
       /\ \A q \in Pages \ T : lev[q] = 0 /\ nxt[q] = NDX_NO_PAGE
       /\ \A q \in T : nxt[q] # NDX_NO_PAGE => lev[nxt[q]] = lev[q]
       /\ \A q, y \in T : nxt[q] = nxt[y] /\ nxt[q] # NDX_NO_PAGE => q = y
       /\ \A q \in T : q \in Pages /\ q # NDX_NO_PAGE /\ (node[q].is_leaf <=> lev[q] = 0)
  BY <1>1, Constants DEF Shape, Links, ParentOK, root
<1>11. /\ \A q : q \in T2 <=> q \in T /\ q # r
       /\ \A q \in T2 : q \in Pages \ {r} /\ q # NDX_NO_PAGE /\ N[q].is_leaf = node[q].is_leaf
       /\ l \in T2 /\ p \in T2 /\ root \in T2
  BY <1>2, <1>5, <1>10
<1>12. /\ lev2 \in [Pages -> Nat] /\ lev2[r] = 0 /\ \A q \in Pages \ {r} : lev2[q] = lev[q]
       /\ nxt2[l] = nxt[r] /\ nxt2[r] = NDX_NO_PAGE /\ DOMAIN nxt2 = Pages
       /\ \A q \in Pages \ {l, r} : nxt2[q] = nxt[q]
  BY <1>2, <1>10
<1>13. \A q \in T : q # l => nxt[q] # r
  BY <1>2, <1>10
<1> HIDE DEF T2, lev2, nxt2
<1>14. Shape(T2, lev2, nxt2)
  <2>1. \A q \in Pages : nxt2[q] \in T2 \cup {NDX_NO_PAGE}
    <3> SUFFICES ASSUME NEW q \in Pages PROVE nxt2[q] \in T2 \cup {NDX_NO_PAGE}
      OBVIOUS
    <3>1. CASE q = l
      BY <1>2, <1>10, <1>11, <1>12, <3>1
    <3>2. CASE q = r
      BY <1>12, <3>2
    <3>3. CASE q # l /\ q # r
      <4>1. nxt[q] # r
        BY <1>2, <1>10, <1>13, <3>3
      <4> QED BY <1>10, <1>11, <1>12, <3>3, <4>1
    <3> QED BY <3>1, <3>2, <3>3
  <2>2. nxt2 \in [Pages -> T2 \cup {NDX_NO_PAGE}]
    <3>1. nxt2 = [q \in Pages |-> nxt2[q]]
      BY <1>10 DEF nxt2
    <3> QED BY <2>1, <3>1
  <2>3. \A q \in Pages \ T2 : lev2[q] = 0 /\ nxt2[q] = NDX_NO_PAGE
    BY <1>2, <1>10, <1>11, <1>12
  <2>4. \A q \in T2 : nxt2[q] # NDX_NO_PAGE => lev2[nxt2[q]] = lev2[q]
    <3> SUFFICES ASSUME NEW q \in T2, nxt2[q] # NDX_NO_PAGE PROVE lev2[nxt2[q]] = lev2[q]
      OBVIOUS
    <3>1. nxt2[q] \in Pages \ {r} /\ q \in T /\ q # r
      BY <1>11, <2>1
    <3>2. lev2[nxt2[q]] = lev[nxt2[q]] /\ lev2[q] = lev[q]
      BY <1>10, <1>12, <3>1
    <3>3. CASE q = l
      BY <1>2, <1>10, <1>12, <3>2, <3>3
    <3>4. CASE q # l
      BY <1>10, <1>12, <3>1, <3>2, <3>4
    <3> QED BY <3>3, <3>4
  <2>5. ASSUME NEW q \in T2, NEW y \in T2, nxt2[q] = nxt2[y], nxt2[q] # NDX_NO_PAGE PROVE q = y
    <3>1. q \in T /\ y \in T /\ q # r /\ y # r
      BY <1>11
    <3>2. nxt2[q] = (IF q = l THEN nxt[r] ELSE nxt[q]) /\ nxt2[y] = (IF y = l THEN nxt[r] ELSE nxt[y])
      BY <1>10, <1>12, <3>1
    <3>3. CASE q = l /\ y # l
      <4>1. nxt[r] = nxt[y] /\ nxt[r] # NDX_NO_PAGE
        BY <2>5, <3>2, <3>3
      <4> QED BY <1>2, <1>10, <3>1, <4>1
    <3>4. CASE q # l /\ y = l
      <4>1. nxt[r] = nxt[q] /\ nxt[r] # NDX_NO_PAGE
        BY <2>5, <3>2, <3>4
      <4> QED BY <1>2, <1>10, <3>1, <4>1
    <3>5. CASE q # l /\ y # l
      <4>1. nxt[q] = nxt[y] /\ nxt[q] # NDX_NO_PAGE
        BY <2>5, <3>2, <3>5
      <4> QED BY <1>10, <3>1, <4>1
    <3> QED BY <3>3, <3>4, <3>5
  <2> QED BY <1>1, <1>11, <1>12, <2>2, <2>3, <2>4, <2>5 DEF Shape
\* The children of the two.
<1>15. ASSUME ~node[l].is_leaf, NEW j \in 1 .. e
       PROVE  LET q == RidOf(l, r, j) IN
              /\ q \in T2 /\ q \in Pages /\ q # l /\ q # r /\ q # root
              /\ node[q].parent = l \/ node[q].parent = r
              /\ nxt[q] = IF j < e THEN RidOf(l, r, j + 1) ELSE FirstOfNext(node, nxt, r)
              /\ \A j2 \in 1 .. e : RidOf(l, r, j2) = q => j2 = j
              /\ N[q].parent = l
  <2>1. j \in 1 .. Both(l, r)
    BY DEF e
  <2>2. N[RidOf(l, r, j)].parent = l
    BY <1>4, <1>15
  <2>3. LET q == RidOf(l, r, j) IN
        /\ q \in T /\ q \in Pages /\ q # l /\ q # r /\ q # root
        /\ node[q].parent = (IF j <= Len(node[l].rids) THEN l ELSE r)
        /\ nxt[q] = IF j < e THEN RidOf(l, r, j + 1) ELSE FirstOfNext(node, nxt, r)
        /\ \A j2 \in 1 .. e : RidOf(l, r, j2) = q => j2 = j
    BY <1>1, <1>15, <2>1, BothChildren DEF e, root
  <2> QED BY <1>11, <2>2, <2>3
<1>16. ASSUME NEW q \in Pages \ {r}, node[q].parent # l, node[q].parent # r PROVE N[q].parent = node[q].parent
  BY <1>4, <1>15, <1>16
\* The first child of the next node.
<1>17. /\ ~node[l].is_leaf => FirstOfNext(N, nxt2, l) = FirstOfNext(node, nxt, r)
       /\ \A q \in T2 : q # l /\ ~node[q].is_leaf => FirstOfNext(N, nxt2, q) = FirstOfNext(node, nxt, q)
  <2>1. ASSUME NEW y \in T2, ~node[y].is_leaf PROVE N[y].rids[1] = node[y].rids[1]
    <3>1. CASE y = l
      BY <1>3, <1>8, <1>9, <3>1
    <3>2. CASE y = p
      BY <1>3, <1>9, <3>2
    <3>3. CASE y # l /\ y # p
      BY <1>3, <1>11, <3>3
    <3> QED BY <3>1, <3>2, <3>3
  <2>2. ASSUME NEW q \in T, ~node[q].is_leaf, nxt[q] # NDX_NO_PAGE, nxt[q] # r
        PROVE  N[nxt[q]].rids[1] = node[nxt[q]].rids[1]
    <3>1. nxt[q] \in T2 /\ ~node[nxt[q]].is_leaf
      BY <1>10, <1>11, <2>2
    <3> QED BY <2>1, <3>1
  <2>3. ~node[l].is_leaf => FirstOfNext(N, nxt2, l) = FirstOfNext(node, nxt, r)
    BY <1>2, <1>12, <2>2 DEF FirstOfNext
  <2>4. ASSUME NEW q \in T2, q # l, ~node[q].is_leaf PROVE FirstOfNext(N, nxt2, q) = FirstOfNext(node, nxt, q)
    <3>1. q \in T /\ nxt2[q] = nxt[q] /\ nxt[q] # r
      BY <1>11, <1>12, <1>13, <2>4
    <3> QED BY <2>2, <2>4, <3>1 DEF FirstOfNext
  <2> QED BY <2>3, <2>4
<1>18. ASSUME NEW q \in T2 PROVE ParentOK(N, root, T2, lev2, q)
  <2> DEFINE x == node[q].parent
  <2>0. q \in T /\ q \in Pages \ {r} /\ lev2[q] = lev[q] /\ lev2[root] = lev[root] /\ N[q].is_leaf = node[q].is_leaf
    BY <1>2, <1>10, <1>11, <1>12
  <2>1. ParentOK(node, root, T, lev, q)
    BY <1>1, <2>0 DEF Links, root
  <2>2. CASE q = root
    <3>1. x = NDX_NO_PAGE
      BY <2>1, <2>2 DEF ParentOK
    <3>2. N[q].parent = NDX_NO_PAGE
      BY <1>2, <1>10, <1>16, <2>0, <3>1
    <3> QED BY <2>0, <2>1, <2>2, <3>2 DEF ParentOK
  <2>3. CASE q # root
    <3>1. x \in T /\ ~node[x].is_leaf /\ lev[x] = lev[q] + 1 /\ q \in ToSet(node[x].rids)
      BY <2>1, <2>3 DEF ParentOK
    <3>2. \E y \in T2 : N[q].parent = y /\ ~N[y].is_leaf /\ lev2[y] = lev[x] /\ q \in ToSet(N[y].rids)
      <4>1. CASE x # l /\ x # r /\ x # p
        <5>1. N[q].parent = x
          BY <1>16, <2>0, <4>1
        <5>2. N[x].rids = node[x].rids /\ x \in T2 /\ lev2[x] = lev[x] /\ N[x].is_leaf = node[x].is_leaf
          BY <1>3, <1>10, <1>11, <1>12, <3>1, <4>1
        <5> QED BY <3>1, <5>1, <5>2
      <4>2. CASE x = p
        <5>1. N[q].parent = p
          BY <1>2, <1>16, <2>0, <4>2
        <5>2. PICK j \in 1 .. c : node[p].rids[j] = q
          BY <1>6, <3>1, <4>2, InToSet DEF c
        <5>3. j # i + 1
          BY <1>2, <2>0, <5>2
        <5>4. \E k \in 1 .. c - 1 : N[p].rids[k] = q
          <6>1. CASE j <= i
            <7>1. j \in 1 .. c - 1
              BY <1>2, <1>6, <6>1
            <7> QED BY <1>3, <5>2, <6>1, <7>1
          <6>2. CASE ~(j <= i)
            <7> DEFINE k == j - 1
            <7>1. k \in 1 .. c - 1 /\ ~(k <= i) /\ k + 1 = j
              BY <1>2, <1>6, <5>3, <6>2
            <7> HIDE DEF k
            <7> QED BY <1>3, <5>2, <7>1
          <6> QED BY <6>1, <6>2
        <5>5. q \in ToSet(N[p].rids)
          BY <1>7, <5>4 DEF ToSet
        <5> QED BY <1>2, <1>11, <1>12, <4>2, <5>1, <5>5
      <4>3. CASE x = l \/ x = r
        <5>1. ~node[l].is_leaf /\ ~node[r].is_leaf /\ lev[x] = lev[l]
          BY <1>2, <3>1, <4>3
        <5>2. node[l].rids \in Seq(Pages) /\ node[r].rids \in Seq(Pages)
          BY <1>1, <1>2, <5>1, PageIs
        <5>3. \E j \in 1 .. e : RidOf(l, r, j) = q
          <6>1. CASE x = l
            <7>1. PICK j \in 1 .. a : node[l].rids[j] = q
              BY <3>1, <5>2, <6>1, InToSet DEF a
            <7> QED BY <1>8, <1>9, <7>1
          <6>2. CASE x = r
            <7>1. PICK j \in 1 .. d : node[r].rids[j] = q
              BY <3>1, <5>2, <6>2, InToSet DEF d
            <7> QED BY <1>8, <7>1
          <6> QED BY <4>3, <6>1, <6>2
        <5>4. PICK j \in 1 .. e : RidOf(l, r, j) = q
          BY <5>3
        <5>5. N[l].rids[j] = q /\ N[q].parent = l
          BY <1>3, <1>15, <5>1, <5>4
        <5>6. q \in ToSet(N[l].rids)
          BY <1>7, <5>5 DEF ToSet
        <5> QED BY <1>2, <1>11, <1>12, <5>1, <5>5, <5>6
      <4> QED BY <4>1, <4>2, <4>3
    <3> HIDE DEF x
    <3> QED BY <1>11, <2>0, <2>1, <2>3, <3>1, <3>2 DEF ParentOK
  <2> QED BY <2>2, <2>3
<1>19. ASSUME NEW x \in T2, ~N[x].is_leaf PROVE ChildrenOK(N, T2, nxt2, x)
  <2>1. ~node[x].is_leaf /\ x \in Pages \ {r} /\ x \in T
    BY <1>11, <1>19
  <2>2. CASE x = l
    <3>1. N[l].rids # << >>
      <4>1. 1 \in DOMAIN N[l].rids
        BY <1>7, <1>9
      <4> QED BY <4>1
    <3>2. IsInjective(N[l].rids)
      <4>1. ASSUME NEW j \in 1 .. e, NEW j2 \in 1 .. e, N[l].rids[j] = N[l].rids[j2] PROVE j = j2
        BY <1>3, <1>15, <2>1, <2>2, <4>1
      <4> QED BY <1>7, <4>1 DEF IsInjective
    <3>3. ASSUME NEW j \in 1 .. e
          PROVE  LET q == N[l].rids[j] IN
                 /\ q \in T2 /\ N[q].parent = l
                 /\ nxt2[q] = IF j < e THEN N[l].rids[j + 1] ELSE FirstOfNext(N, nxt2, l)
      <4> DEFINE q == RidOf(l, r, j)
      <4>1. N[l].rids[j] = q /\ (j < e => j + 1 \in 1 .. e)
        BY <1>3, <1>9
      <4>2. /\ q \in T2 /\ q \in Pages /\ q # l /\ q # r /\ N[q].parent = l
            /\ nxt[q] = IF j < e THEN RidOf(l, r, j + 1) ELSE FirstOfNext(node, nxt, r)
        BY <1>15, <2>1, <2>2
      <4> HIDE DEF q
      <4>3. nxt2[q] = nxt[q]
        BY <1>12, <4>2
      <4> QED BY <1>3, <1>17, <2>1, <2>2, <4>1, <4>2, <4>3
    <3> QED BY <1>7, <2>2, <3>1, <3>2, <3>3 DEF ChildrenOK
  <2>3. ASSUME x # l, NEW j \in 1 .. Len(node[x].rids), node[x].rids[j] # r
        PROVE  LET q == node[x].rids[j] IN
               /\ q \in T2 /\ N[q].parent = x
               /\ q # l => nxt2[q] = IF j < Len(node[x].rids) THEN node[x].rids[j + 1] ELSE FirstOfNext(N, nxt2, x)
    <3> DEFINE q == node[x].rids[j]
    <3>1. /\ q \in T /\ q \in Pages /\ node[q].parent = x
          /\ nxt[q] = IF j < Len(node[x].rids) THEN node[x].rids[j + 1] ELSE FirstOfNext(node, nxt, x)
      BY <1>1, <2>1, ChildIs
    <3>2. q # r /\ q \in T2
      BY <1>11, <2>3, <3>1
    <3>3. N[q].parent = x
      BY <1>16, <2>1, <2>3, <3>1, <3>2
    <3>4. q # l => nxt2[q] = nxt[q]
      BY <1>12, <3>1, <3>2
    <3> QED BY <1>17, <2>1, <2>3, <3>1, <3>2, <3>3, <3>4
  <2>4. IsInjective(node[x].rids) /\ node[x].rids # << >>
    BY <1>1, <2>1 DEF Links, ChildrenOK
  <2>5. CASE x = p
    <3>1. N[p].rids # << >>
      <4>1. 1 \in DOMAIN N[p].rids
        BY <1>7, <1>9
      <4> QED BY <4>1
    <3>2. \A j \in 1 .. c - 1 : LET k == IF j <= i THEN j ELSE j + 1 IN
            /\ k \in 1 .. c /\ k # i + 1 /\ N[p].rids[j] = node[p].rids[k] /\ node[p].rids[k] # r
      <4> SUFFICES ASSUME NEW j \in 1 .. c - 1
                   PROVE  LET k == IF j <= i THEN j ELSE j + 1 IN
                          /\ k \in 1 .. c /\ k # i + 1 /\ N[p].rids[j] = node[p].rids[k] /\ node[p].rids[k] # r
        OBVIOUS
      <4>1. CASE j <= i
        <5>1. j \in 1 .. c /\ j # i + 1
          BY <1>6, <1>9, <4>1
        <5> QED BY <1>2, <1>3, <4>1, <5>1
      <4>2. CASE ~(j <= i)
        <5>1. j + 1 \in 1 .. c /\ j + 1 # i + 1
          BY <1>6, <1>9, <4>2
        <5> QED BY <1>2, <1>3, <4>2, <5>1
      <4> QED BY <4>1, <4>2
    <3>3. IsInjective(N[p].rids)
      <4>1. ASSUME NEW j \in 1 .. c - 1, NEW j2 \in 1 .. c - 1, N[p].rids[j] = N[p].rids[j2] PROVE j = j2
        <5> DEFINE k == IF j <= i THEN j ELSE j + 1
                   k2 == IF j2 <= i THEN j2 ELSE j2 + 1
        <5>1. k \in 1 .. c /\ k2 \in 1 .. c /\ node[p].rids[k] = node[p].rids[k2]
          BY <3>2, <4>1
        <5>2. k = k2
          <6> HIDE DEF k, k2
          <6> QED BY <1>6, <2>4, <2>5, <5>1 DEF IsInjective
        <5>3. j \in Nat /\ j2 \in Nat
          BY <1>9
        <5> QED BY <1>9, <5>2, <5>3
      <4> QED BY <1>7, <4>1 DEF IsInjective
    <3>4. ASSUME NEW j \in 1 .. c - 1
          PROVE  LET q == N[p].rids[j] IN
                 /\ q \in T2 /\ N[q].parent = p
                 /\ nxt2[q] = IF j < c - 1 THEN N[p].rids[j + 1] ELSE FirstOfNext(N, nxt2, p)
      <4> DEFINE k == IF j <= i THEN j ELSE j + 1
                 q == node[p].rids[k]
      <4>1. k \in 1 .. c /\ k # i + 1 /\ N[p].rids[j] = q /\ q # r
        BY <3>2
      <4>2. /\ q \in T2 /\ N[q].parent = p
            /\ q # l => nxt2[q] = IF k < c THEN node[p].rids[k + 1] ELSE FirstOfNext(N, nxt2, p)
        <5> HIDE DEF k
        <5> QED BY <1>2, <2>3, <2>5, <4>1 DEF c
      <4>3. CASE j < i
        <5>1. k = j /\ k < c /\ j < c - 1 /\ j + 1 \in 1 .. c - 1 /\ j + 1 <= i /\ k # i /\ k + 1 = j + 1
          BY <1>6, <1>9, <4>3
        <5>2. q # l
          <6> HIDE DEF k
          <6> QED BY <1>2, <4>1, <5>1
        <5>3. N[p].rids[j + 1] = node[p].rids[j + 1]
          BY <1>3, <5>1
        <5> HIDE DEF q, k
        <5> QED BY <4>1, <4>2, <5>1, <5>2, <5>3
      <4>4. CASE j = i
        <5>1. k = i /\ q = l
          BY <1>2, <1>9, <4>4
        <5> DEFINE i1 == i + 1
        <5>2. /\ i1 \in 1 .. Len(node[p].rids) /\ r = node[p].rids[i1]
          BY <1>2 DEF c
        <5>3. nxt[r] = IF i1 < c THEN node[p].rids[i1 + 1] ELSE FirstOfNext(node, nxt, p)
          <6> HIDE DEF i1
          <6> QED BY <1>1, <1>2, <5>2, ChildIs DEF c
        <5>4. /\ j < c - 1 <=> i1 < c
              /\ i1 < c => j + 1 \in 1 .. c - 1 /\ ~(j + 1 <= i) /\ (j + 1) + 1 = i1 + 1
          BY <1>6, <1>9, <4>4
        <5>5. j < c - 1 => N[p].rids[j + 1] = node[p].rids[i1 + 1]
          BY <1>3, <5>4
        <5>6. nxt2[l] = nxt[r] /\ FirstOfNext(N, nxt2, p) = FirstOfNext(node, nxt, p)
          BY <1>2, <1>11, <1>12, <1>17
        <5> HIDE DEF q, k, i1
        <5> QED BY <4>1, <4>2, <5>1, <5>3, <5>4, <5>5, <5>6
      <4>5. CASE j > i
        <5>1. k = j + 1 /\ k # i /\ (k < c <=> j < c - 1)
              /\ (j < c - 1 => j + 1 \in 1 .. c - 1 /\ ~(j + 1 <= i) /\ (j + 1) + 1 = k + 1)
          BY <1>6, <1>9, <4>5
        <5>2. q # l
          <6> HIDE DEF k
          <6> QED BY <1>2, <4>1, <5>1
        <5> HIDE DEF q, k
        <5>3. j < c - 1 => N[p].rids[j + 1] = node[p].rids[k + 1]
          BY <1>3, <5>1
        <5> QED BY <4>1, <4>2, <5>1, <5>2, <5>3
      <4>6. j < i \/ j = i \/ j > i
        <5>1. j \in Nat
          BY <1>9
        <5> QED BY <1>9, <5>1
      <4> QED BY <4>3, <4>4, <4>5, <4>6
    <3> QED BY <1>3, <1>7, <2>5, <3>1, <3>3, <3>4 DEF ChildrenOK
  <2>6. CASE x # l /\ x # p
    <3>1. N[x].rids = node[x].rids
      BY <1>3, <2>1, <2>6
    <3>2. DOMAIN node[x].rids = 1 .. Len(node[x].rids)
      BY <1>1, <2>1, PageIs
    <3>3. ASSUME NEW j \in 1 .. Len(node[x].rids) PROVE node[x].rids[j] # r /\ node[x].rids[j] # l
      <4>1. node[node[x].rids[j]].parent = x
        BY <1>1, <2>1, ChildIs
      <4> QED BY <1>2, <2>6, <4>1
    <3> QED BY <2>3, <2>4, <2>6, <3>1, <3>2, <3>3 DEF ChildrenOK
  <2> QED BY <2>2, <2>5, <2>6
<1>20. Links(N, root, T2, lev2, nxt2)
  <2>1. nxt2[root] = NDX_NO_PAGE
    BY <1>2, <1>10, <1>12
  <2> QED BY <1>11, <1>18, <1>19, <2>1 DEF Links
<1>21. /\ h \in Header /\ h.root_page = root /\ h.btree_order = hdr.btree_order /\ h.first_free = r
       /\ h.num_pages = hdr.num_pages /\ h.last_leaf = IF hdr.last_leaf = r THEN l ELSE hdr.last_leaf
       /\ w \in Works
  <2>1. l \in Pages /\ r \in PageOrNone /\ p \in PageOrNone
    BY <1>2 DEF PageOrNone
  <2>2. h \in Header /\ h.root_page = root /\ h.btree_order = hdr.btree_order /\ h.first_free = r
        /\ h.num_pages = hdr.num_pages /\ h.last_leaf = IF hdr.last_leaf = r THEN l ELSE hdr.last_leaf
    BY <1>1, <2>1 DEF Header, root
  <2>3. w \in Works
    BY <2>1, IdleIs DEF UnderflowAt, Works
  <2> QED BY <2>2, <2>3
<1>22. FreeList(N, h, T2, <<r>> \o fl) /\ Blank(N, T2)
  <2>1. hdr.first_free \in PageOrNone
    BY <1>1 DEF Header
  <2>2. /\ N[r].next_free = hdr.first_free /\ N[r].parent = NDX_NO_PAGE /\ ~N[r].is_leaf
        /\ N[r].next_leaf = NDX_NO_PAGE /\ N[r].keys = << >> /\ N[r].rids = << >>
    BY <1>3, <2>1, ReleasedIs
  <2>3. \A q \in Pages : N[q].next_free = IF q = r THEN hdr.first_free ELSE node[q].next_free
    BY <1>5, <2>2
  <2>4. FreeList(N, h, T2, <<r>> \o fl)
    <3>1. FreeList(node, hdr, T, fl) /\ r \in T /\ T \subseteq Pages /\ h.first_free = r /\ h.num_pages = hdr.num_pages
      BY <1>1, <1>2, <1>10, <1>21
    <3>2. ASSUME NEW h2, h2.first_free = r, h2.num_pages = hdr.num_pages
          PROVE  FreeList(N, h2, T \ {r}, <<r>> \o fl)
      BY <2>3, <3>1, <3>2, GivePage
    <3>3. FreeList(N, h, T \ {r}, <<r>> \o fl)
      BY <3>1, <3>2
    <3> QED BY <3>3 DEF T2
  <2>5. ASSUME NEW q \in Pages \ (T2 \cup {NDX_LEAF_HEADER_PAGE})
        PROVE  /\ ~N[q].is_leaf /\ N[q].parent = NDX_NO_PAGE /\ N[q].next_leaf = NDX_NO_PAGE
               /\ N[q].keys = << >> /\ N[q].rids = << >>
    <3>1. CASE q = r
      BY <2>2, <3>1
    <3>2. CASE q # r
      <4>1. q \in Pages \ (T \cup {NDX_LEAF_HEADER_PAGE}) /\ q # l /\ q # p
        BY <1>2, <1>11, <2>5, <3>2
      <4> QED BY <1>1, <1>3, <1>5, <3>2, <4>1 DEF Blank
    <3> QED BY <3>1, <3>2
  <2> QED BY <2>4, <2>5 DEF Blank
<1>23. RingOK(N, h.last_leaf, T2, nxt2)
  <2>0. /\ NDX_LEAF_HEADER_PAGE \in Pages \ {l, r, p} /\ NDX_LEAF_HEADER_PAGE \in Pages \ T
        /\ first_leaf \in T /\ node[first_leaf].is_leaf
        /\ hdr.last_leaf \in T /\ node[hdr.last_leaf].is_leaf /\ nxt[hdr.last_leaf] = NDX_NO_PAGE
        /\ node[first_leaf].prev_leaf = NDX_LEAF_HEADER_PAGE
        /\ node[NDX_LEAF_HEADER_PAGE] = IndexPageHeader(NDX_NO_PAGE, TRUE, hdr.last_leaf, first_leaf)
    BY <1>1, <1>2, <1>10, Constants DEF RingOK
  <2>1. ASSUME NEW q \in T, node[q].is_leaf PROVE LeafOK(node, hdr.last_leaf, T, nxt, q)
    BY <1>1, <2>1 DEF RingOK
  \* The leaves l and r.
  <2>2. ASSUME node[l].is_leaf
        PROVE  /\ x1 = IF nxt[r] = NDX_NO_PAGE THEN NDX_LEAF_HEADER_PAGE ELSE nxt[r]
               /\ nxt[r] = NDX_NO_PAGE <=> r = hdr.last_leaf
               /\ nxt[r] # NDX_NO_PAGE => nxt[r] \in T
               /\ nxt[r] # first_leaf /\ r # first_leaf
    <3>1. LeafOK(node, hdr.last_leaf, T, nxt, r) /\ LeafOK(node, hdr.last_leaf, T, nxt, l)
      BY <1>2, <2>1, <2>2
    <3> QED BY <1>2, <1>10, <2>0, <3>1 DEF LeafOK, x1
  <2>3. r # first_leaf /\ (~node[l].is_leaf => hdr.last_leaf # r)
    BY <1>2, <2>0, <2>2
  \* The header of the ring.
  <2>4. N[NDX_LEAF_HEADER_PAGE] = IndexPageHeader(NDX_NO_PAGE, TRUE, h.last_leaf, first_leaf)
    <3> DEFINE x == NDX_LEAF_HEADER_PAGE
    <3>1. /\ N[x].keys = node[x].keys /\ N[x].rids = node[x].rids /\ N[x].parent = node[x].parent
          /\ N[x].is_leaf = node[x].is_leaf /\ N[x].next_free = node[x].next_free
          /\ N[x].next_leaf = node[x].next_leaf
          /\ N[x].prev_leaf = IF node[l].is_leaf /\ x = x1 THEN l ELSE node[x].prev_leaf
      BY <1>3, <1>5, <2>0
    <3>2. N[x].prev_leaf = h.last_leaf
      <4>1. node[x].prev_leaf = hdr.last_leaf
        BY <2>0 DEF IndexPageHeader
      <4>2. CASE node[l].is_leaf
        <5>1. x = x1 <=> r = hdr.last_leaf
          BY <2>0, <2>2, <4>2
        <5> QED BY <1>21, <3>1, <4>1, <4>2, <5>1
      <4>3. CASE ~node[l].is_leaf
        BY <1>21, <2>3, <3>1, <4>1, <4>3
      <4> QED BY <4>2, <4>3
    <3>4. N[x] \in Nodes
      BY <1>3, <2>0 DEF Typed
    <3> DEFINE y == IndexPageHeader(NDX_NO_PAGE, TRUE, hdr.last_leaf, first_leaf)
    <3>5. /\ y.keys = << >> /\ y.rids = << >> /\ y.is_leaf = TRUE /\ y.next_free = NDX_NO_PAGE
          /\ y.next_leaf = first_leaf /\ y.parent = NDX_NO_PAGE
      BY DEF IndexPageHeader
    <3>50. node[x] = y
      BY <2>0
    <3> HIDE DEF x, y
    <3>6. /\ N[x].keys = << >> /\ N[x].rids = << >> /\ N[x].is_leaf = TRUE /\ N[x].next_free = NDX_NO_PAGE
          /\ N[x].next_leaf = first_leaf /\ N[x].parent = NDX_NO_PAGE
      BY <3>1, <3>5, <3>50
    <3>7. N[x] = [next_free |-> NDX_NO_PAGE, parent |-> NDX_NO_PAGE, is_leaf |-> TRUE,
                  prev_leaf |-> h.last_leaf, next_leaf |-> first_leaf, keys |-> << >>, rids |-> << >>]
      BY <3>2, <3>4, <3>6 DEF Nodes
    <3> QED BY <3>7 DEF x, IndexPageHeader
  <2>5. /\ first_leaf \in T2 /\ N[first_leaf].is_leaf
        /\ N[first_leaf].prev_leaf = NDX_LEAF_HEADER_PAGE
    <3>1. first_leaf \in T2 /\ first_leaf \in Pages \ {r}
      BY <1>11, <2>0, <2>3
    <3>2. ~(node[l].is_leaf /\ first_leaf = x1)
      BY <2>0, <2>2
    <3> QED BY <1>5, <2>0, <3>1, <3>2
  <2>6. h.last_leaf \in T2 /\ N[h.last_leaf].is_leaf /\ nxt2[h.last_leaf] = NDX_NO_PAGE
    <3>1. CASE hdr.last_leaf = r
      BY <1>2, <1>5, <1>11, <1>12, <1>21, <2>0, <2>3, <3>1
    <3>2. CASE hdr.last_leaf # r
      <4>1. hdr.last_leaf # l
        BY <1>2, <1>10, <2>0
      <4> QED BY <1>5, <1>10, <1>11, <1>12, <1>21, <2>0, <3>2, <4>1
    <3> QED BY <3>1, <3>2
  <2>7. ASSUME NEW q \in T2, N[q].is_leaf PROVE LeafOK(N, h.last_leaf, T2, nxt2, q)
    <3>0. q \in T /\ q # r /\ q \in Pages \ {r} /\ node[q].is_leaf /\ nxt[q] # q
      <4>1. q \in T
        BY <1>11
      <4> QED BY <1>1, <1>11, <2>7, <4>1, NextOther
    <3>1. LeafOK(node, hdr.last_leaf, T, nxt, q)
      BY <2>1, <3>0
    \* The leaf before it.
    <3>2. ASSUME q # first_leaf, ~(node[l].is_leaf /\ q = x1)
          PROVE  N[q].prev_leaf \in T2 /\ nxt2[N[q].prev_leaf] = q
      <4> DEFINE z == node[q].prev_leaf
      <4>1. N[q].prev_leaf = z
        BY <1>5, <3>0, <3>2
      <4>2. z \in T /\ nxt[z] = q
        BY <3>1, <3>2 DEF LeafOK
      <4>3. z # r
        <5> SUFFICES ASSUME z = r PROVE FALSE
          OBVIOUS
        <5>1. nxt[r] = q /\ q # NDX_NO_PAGE
          BY <1>10, <3>0, <4>2
        <5>2. node[l].is_leaf
          <6>1. lev[q] = lev[r] /\ lev[q] = 0
            BY <1>2, <1>10, <3>0, <5>1
          <6> QED BY <1>2, <1>10, <6>1
        <5> QED BY <2>2, <3>2, <5>1, <5>2
      <4>4. z # l
        BY <1>2, <3>0, <4>2
      <4> HIDE DEF z
      <4>5. z \in T2 /\ nxt2[z] = nxt[z]
        BY <1>10, <1>11, <1>12, <4>2, <4>3, <4>4
      <4> QED BY <4>1, <4>2, <4>5
    <3>3. CASE q = l
      <4>1. node[l].is_leaf
        BY <3>0, <3>3
      <4>2. N[l].next_leaf = x1 /\ nxt2[l] = nxt[r] /\ x1 # l
        BY <1>2, <1>5, <1>10, <1>12, <2>0, <2>2, <4>1
      <4>3. nxt[r] # NDX_NO_PAGE => N[nxt[r]].prev_leaf = l
        BY <1>2, <1>5, <1>10, <2>2, <4>1
      <4> QED BY <1>21, <2>2, <3>2, <3>3, <4>1, <4>2, <4>3 DEF LeafOK
    <3>4. CASE q # l
      <4>1. nxt2[q] = nxt[q] /\ nxt[q] # r
        BY <1>12, <1>13, <3>0, <3>4
      <4>2. N[q].next_leaf = node[q].next_leaf
        BY <1>5, <3>0, <3>4
      <4>3. nxt[q] = NDX_NO_PAGE => q = h.last_leaf
        BY <1>21, <3>0, <3>1 DEF LeafOK
      <4>4. nxt[q] # NDX_NO_PAGE => N[nxt[q]].prev_leaf = q
        <5> SUFFICES ASSUME nxt[q] # NDX_NO_PAGE PROVE N[nxt[q]].prev_leaf = q
          OBVIOUS
        <5>1. nxt[q] \in T /\ nxt[q] \in Pages \ {r} /\ node[nxt[q]].prev_leaf = q
          BY <1>10, <3>0, <3>1, <4>1 DEF LeafOK
        <5>2. ~(node[l].is_leaf /\ nxt[q] = x1)
          <6> SUFFICES ASSUME node[l].is_leaf, nxt[q] = x1 PROVE FALSE
            OBVIOUS
          <6>1. nxt[q] = nxt[r]
            BY <1>10, <2>2, <5>1
          <6> QED BY <1>2, <1>10, <3>0, <6>1
        <5> QED BY <1>5, <5>1, <5>2
      <4>5. q # first_leaf => N[q].prev_leaf \in T2 /\ nxt2[N[q].prev_leaf] = q
        <5>1. CASE ~(node[l].is_leaf /\ q = x1)
          BY <3>2, <5>1
        <5>2. CASE node[l].is_leaf /\ q = x1
          <6>1. q = nxt[r]
            BY <1>10, <2>2, <3>0, <5>2
          <6>2. N[q].prev_leaf = l
            BY <1>5, <3>0, <5>2
          <6> QED BY <1>11, <1>12, <6>1, <6>2
        <5> QED BY <5>1, <5>2
      <4> QED BY <3>1, <4>1, <4>2, <4>3, <4>4, <4>5 DEF LeafOK
    <3> QED BY <3>3, <3>4
  <2> QED BY <2>4, <2>5, <2>6, <2>7 DEF RingOK
<1>24. Filled(N, h, T2, w)
  <2> DEFINE mm == MinOf(hdr)
             o == hdr.btree_order
  <2>1. /\ \A q : Extra(work, "overflow", q) = 0
        /\ \A q : q # n => Extra(work, "underflow", q) = 0
        /\ \A q : Extra(w, "overflow", q) = 0
        /\ \A q : Extra(w, "underflow", q) \in {0, 1}
    <3>1. w = Idle \/ w.todo = "underflow"
      BY DEF UnderflowAt
    <3> QED BY <3>1 DEF Extra, Idle
  <2>2. /\ mm \in Nat /\ mm >= 2 /\ o \in Nat /\ 2 * mm <= o + 1 /\ MinOf(h) = mm /\ MinFill = mm
    BY <1>1, <1>21, Fill DEF MinOf
  <2>3. \A q \in T : q \in Pages /\ Len(node[q].rids) \in Nat
    BY <1>1, <1>10, PageIs
  <2>4. /\ \A q \in T : Len(node[q].rids) <= o + 0
        /\ \A q \in T \ {root} : q # n => Len(node[q].rids) >= mm - 0
        /\ Len(node[n].rids) >= mm - Extra(work, "underflow", n)
    BY <1>1, <1>2, <2>1 DEF Filled, root
  <2>5. Extra(work, "underflow", n) = 1
    BY DEF Extra
  <2>6. e < 2 * mm
    BY DEF e
  <2>7. a >= mm - 1 /\ d >= mm - 1 /\ (a >= mm \/ d >= mm)
    <3>1. n = l \/ n = r
      OBVIOUS
    <3>2. \A q \in {l, r} : q # n => Len(node[q].rids) >= mm
      BY <1>2, <2>2, <2>3, <2>4
    <3>3. Len(node[n].rids) >= mm - 1
      BY <2>4, <2>5
    <3>4. (n = l => a >= mm - 1 /\ d >= mm) /\ (n = r => d >= mm - 1 /\ a >= mm)
      BY <1>2, <3>2, <3>3 DEF a, d
    <3> HIDE DEF mm
    <3> QED BY <1>6, <2>2, <3>1, <3>4
  <2> HIDE DEF mm, o
  <2>8. mm <= e /\ e <= o
    BY <1>6, <1>9, <2>2, <2>6, <2>7
  <2>9. c <= o /\ (p # root => c >= mm)
    BY <1>2, <2>2, <2>3, <2>4, <1>6 DEF c
  <2>10. ASSUME NEW q \in T2 PROVE Len(N[q].rids) <= o + 0
    <3>1. CASE q = l
      BY <1>3, <1>9, <2>2, <2>8, <3>1
    <3>2. CASE q = p
      BY <1>3, <1>6, <2>2, <2>9, <3>2
    <3>3. CASE q # l /\ q # p
      <4>1. N[q].rids = node[q].rids /\ q \in T
        BY <1>3, <1>11, <3>3
      <4> QED BY <2>4, <4>1
    <3> QED BY <3>1, <3>2, <3>3
  <2>11. c - 1 < mm => w = [todo |-> "underflow", page |-> p]
    BY <1>3, <2>2 DEF UnderflowAt
  <2>12. ASSUME NEW q \in T2, q # root PROVE Len(N[q].rids) >= mm - Extra(w, "underflow", q)
    <3>0. Extra(w, "underflow", q) \in {0, 1}
      BY <2>1
    <3>1. CASE q = l
      BY <1>3, <1>9, <2>2, <2>8, <3>0, <3>1
    <3>2. CASE q = p
      <4>1. c >= mm /\ Len(N[p].rids) = c - 1
        BY <1>3, <2>9, <2>12, <3>2
      <4>2. CASE c - 1 < mm
        <5>1. Extra(w, "underflow", p) = 1
          BY <2>11, <4>2 DEF Extra
        <5> QED BY <1>6, <2>2, <3>2, <4>1, <5>1
      <4>3. CASE ~(c - 1 < mm)
        BY <1>6, <2>2, <3>0, <3>2, <4>1, <4>3
      <4> QED BY <4>2, <4>3
    <3>3. CASE q # l /\ q # p
      <4>1. N[q].rids = node[q].rids /\ q \in T
        BY <1>3, <1>11, <3>3
      <4>2. q # n
        BY <1>11, <3>3
      <4>3. Len(node[q].rids) >= mm - 0 /\ Len(node[q].rids) \in Nat
        BY <2>3, <2>4, <2>12, <4>1, <4>2
      <4> QED BY <2>2, <3>0, <4>1, <4>3
    <3> QED BY <3>1, <3>2, <3>3
  <2>13. /\ w.todo # "nothing" => w = [todo |-> "underflow", page |-> p] /\ Len(N[p].rids) < mm
         /\ w.todo = "nothing" => w = Idle
    BY <2>2, IdleIs DEF UnderflowAt
  <2>14. ~N[root].is_leaf /\ Len(N[root].rids) < 2 => w.todo = "underflow" /\ w.page = root
    <3> SUFFICES ASSUME ~N[root].is_leaf, Len(N[root].rids) < 2 PROVE w.todo = "underflow" /\ w.page = root
      OBVIOUS
    <3>1. CASE root = p
      <4>1. c - 1 < mm
        BY <1>3, <1>6, <2>2, <3>1
      <4> QED BY <2>11, <3>1, <4>1
    <3>2. CASE root # p
      <4>1. N[root].rids = node[root].rids /\ ~node[root].is_leaf
        BY <1>2, <1>3, <1>10, <1>11, <3>2
      <4>2. work.todo = "underflow" /\ work.page = n /\ n # root
        BY <1>2
      <4> QED BY <1>1, <4>1, <4>2 DEF Filled, root
    <3> QED BY <3>1, <3>2
  <2>15. /\ \A q \in T2 : Len(N[q].rids) <= h.btree_order + Extra(w, "overflow", q)
         /\ \A q \in T2 \ {h.root_page} : Len(N[q].rids) >= MinOf(h) - Extra(w, "underflow", q)
    BY <1>21, <2>1, <2>2, <2>10, <2>12 DEF o
  <2>16. w.todo # "overflow"
    BY <2>13
  <2> QED BY <1>11, <1>21, <2>2, <2>13, <2>14, <2>15, <2>16 DEF Filled
\* The leaves.
<1>25. ASSUME node[l].is_leaf
       PROVE  /\ \A j, j2 \in 1 .. e : j < j2 => N[l].keys[j] <= N[l].keys[j2]
              /\ \A j \in 1 .. e : N[l].keys[j] = KeyOf(l, r, j)
              /\ Last(N[l].keys) = Last(node[r].keys)
              /\ N[l].keys[1] = node[l].keys[1]
  <2>1. \A j, j2 \in 1 .. e : j < j2 => KeyOf(l, r, j) <= KeyOf(l, r, j2)
    BY <1>1, <1>6, <1>25, BothAscend DEF e, a, d
  <2> QED BY SMTT(30), <1>4, <1>7, <1>8, <1>9, <1>25, <2>1 DEF Last
<1>26. Ascending(N, T2, nxt2)
  <2> SUFFICES ASSUME NEW x \in T2, N[x].is_leaf
               PROVE  /\ \A j, j2 \in DOMAIN N[x].keys : j < j2 => N[x].keys[j] <= N[x].keys[j2]
                      /\ nxt2[x] # NDX_NO_PAGE => Last(N[x].keys) <= N[nxt2[x]].keys[1]
    BY DEF Ascending
  <2>0. node[x].is_leaf /\ x \in T /\ x # r /\ x \in Pages
    BY <1>11
  <2>1. ASSUME NEW q \in T, node[q].is_leaf, q # r PROVE N[q].keys[1] = node[q].keys[1]
    BY <1>4, <1>10, <1>25, <2>1
  <2>2. ASSUME NEW q \in T, node[q].is_leaf, nxt[q] # NDX_NO_PAGE, nxt[q] # r
        PROVE  Last(node[q].keys) <= N[nxt[q]].keys[1]
    <3>1. nxt[q] \in T /\ node[nxt[q]].is_leaf
      BY <1>10, <2>2
    <3> QED BY <1>1, <2>1, <2>2, <3>1 DEF Ascending
  <2>3. CASE x = l
    BY SMTT(30), <1>2, <1>7, <1>12, <1>25, <2>0, <2>2, <2>3
  <2>4. CASE x # l
    <3>1. N[x].keys = node[x].keys /\ nxt2[x] = nxt[x] /\ nxt[x] # r
      BY <1>4, <1>12, <1>13, <2>0, <2>4
    <3> QED BY <1>1, <2>0, <2>2, <3>1 DEF Ascending
  <2> QED BY <2>3, <2>4
<1>27. EntriesOK(N, T2)
  <2> DEFINE at(x, j) == IF x = l THEN PlaceOf(l, r, j)[1] ELSE x
             to(x, j) == IF x = l THEN PlaceOf(l, r, j)[2] ELSE j
  <2>0. ASSUME NEW j \in 1 .. e
        PROVE  LET o == PlaceOf(l, r, j) IN
               /\ o = <<o[1], o[2]>>
               /\ o[1] = l \/ o[1] = r
               /\ o[2] \in DOMAIN node[o[1]].rids
               /\ RidOf(l, r, j) = node[o[1]].rids[o[2]] /\ KeyOf(l, r, j) = node[o[1]].keys[o[2]]
               /\ \A j2 \in 1 .. e : PlaceOf(l, r, j2) = o => j2 = j
    <3>1. j \in 1 .. Both(l, r)
      BY DEF e
    <3>2. PlaceOf(l, r, j) = <<PlaceOf(l, r, j)[1], PlaceOf(l, r, j)[2]>>
      BY DEF PlaceOf
    <3> QED BY <1>1, <1>2, <3>1, <3>2, PlacesOf DEF e
  <2>1. ASSUME NEW x \in T2, N[x].is_leaf, NEW j \in DOMAIN N[x].rids
        PROVE  /\ at(x, j) \in T /\ node[at(x, j)].is_leaf /\ to(x, j) \in DOMAIN node[at(x, j)].rids
               /\ N[x].rids[j] = node[at(x, j)].rids[to(x, j)]
               /\ N[x].keys[j] = node[at(x, j)].keys[to(x, j)]
               /\ x = l <=> (at(x, j) = l \/ at(x, j) = r)
    <3>0. node[x].is_leaf /\ x \in Pages \ {r} /\ x \in T /\ x # p
      BY <1>2, <1>11, <2>1
    <3>1. CASE x = l
      <4>1. j \in 1 .. e
        BY <1>7, <2>1, <3>1
      <4>2. N[l].rids[j] = RidOf(l, r, j) /\ N[l].keys[j] = KeyOf(l, r, j)
        BY <1>3, <1>4, <3>0, <3>1, <4>1
      <4> QED BY <1>2, <2>0, <3>0, <3>1, <4>1, <4>2
    <3>2. CASE x # l
      <4>1. N[x].rids = node[x].rids /\ N[x].keys = node[x].keys
        BY <1>3, <1>4, <3>0, <3>2
      <4> QED BY <2>1, <3>0, <3>2, <4>1
    <3> QED BY <3>1, <3>2
  <2>2. ASSUME NEW x \in T2, N[x].is_leaf, NEW j \in DOMAIN N[x].rids,
               NEW y \in T2, N[y].is_leaf, NEW j2 \in DOMAIN N[y].rids,
               at(x, j) = at(y, j2), to(x, j) = to(y, j2)
        PROVE  x = y /\ j = j2
    <3>1. CASE x # l
      <4>1. y # l
        BY <2>1, <2>2, <3>1
      <4> QED BY <2>2, <3>1, <4>1
    <3>2. CASE x = l
      <4>0. y = l
        BY <2>1, <2>2, <3>2
      <4>1. j \in 1 .. e /\ j2 \in 1 .. e
        BY <1>7, <2>2, <3>2, <4>0
      <4>3. /\ at(x, j) = PlaceOf(l, r, j)[1] /\ to(x, j) = PlaceOf(l, r, j)[2]
            /\ at(y, j2) = PlaceOf(l, r, j2)[1] /\ to(y, j2) = PlaceOf(l, r, j2)[2]
        BY <3>2, <4>0
      <4>4. j = j2
        <5> HIDE DEF at, to
        <5>1. PlaceOf(l, r, j) = PlaceOf(l, r, j2)
          <6>1. /\ PlaceOf(l, r, j) = <<PlaceOf(l, r, j)[1], PlaceOf(l, r, j)[2]>>
                /\ PlaceOf(l, r, j2) = <<PlaceOf(l, r, j2)[1], PlaceOf(l, r, j2)[2]>>
            BY <2>0, <4>1
          <6>2. PlaceOf(l, r, j)[1] = PlaceOf(l, r, j2)[1] /\ PlaceOf(l, r, j)[2] = PlaceOf(l, r, j2)[2]
            BY <2>2, <4>3
          <6> QED BY <6>1, <6>2
        <5> QED BY <2>0, <4>1, <5>1
      <4> QED BY <3>2, <4>0, <4>4
    <3> QED BY <3>1, <3>2
  <2> HIDE DEF at, to
  <2>3. ASSUME NEW x \in T2, N[x].is_leaf, NEW j \in DOMAIN N[x].rids
        PROVE  <<N[x].keys[j], N[x].rids[j]>> \in Entry
    <3>1. <<node[at(x, j)].keys[to(x, j)], node[at(x, j)].rids[to(x, j)]>> \in Entry
      BY <1>1, <2>1, <2>3 DEF EntriesOK
    <3> QED BY <2>1, <2>3, <3>1
  <2>4. ASSUME NEW x \in T2, N[x].is_leaf, NEW j \in DOMAIN N[x].rids,
               NEW y \in T2, N[y].is_leaf, NEW j2 \in DOMAIN N[y].rids,
               N[x].rids[j] = N[y].rids[j2]
        PROVE  x = y /\ j = j2
    <3>1. node[at(x, j)].rids[to(x, j)] = node[at(y, j2)].rids[to(y, j2)]
      BY <2>1, <2>4
    <3>2. at(x, j) = at(y, j2) /\ to(x, j) = to(y, j2)
      BY <1>1, <2>1, <2>4, <3>1 DEF EntriesOK
    <3> QED BY <2>2, <2>4, <3>2
  <2> QED BY <2>3, <2>4 DEF EntriesOK
<1>28. Index(N, h, w, T2, lev2, nxt2, <<r>> \o fl)
  BY <1>3, <1>14, <1>20, <1>21, <1>22, <1>23, <1>24, <1>26, <1>27 DEF Index
<1> QED
  BY <1>28

LEMMA AbsorbStep ==
  ASSUME NEW T, NEW lev, NEW nxt, NEW fl, Index(node, hdr, work, T, lev, nxt, fl),
         NEW p, NEW i, NEW l, NEW r, Brothers(T, lev, nxt, p, i, l, r),
         NEW n, n = l \/ n = r, work = [todo |-> "underflow", page |-> n],
         Both(l, r) < 2 * MinOf(hdr),
         NEW key_at, key_at = i \/ key_at = i + 1, Absorb(l, r, key_at)
  PROVE  IInv' /\ SameEntries(node')
<1>1. Typed(node) /\ hdr \in Header
  BY DEF Index
<1>2. node[l].parent = p /\ l # p /\ r # p
  BY DEF Brothers
<1> DEFINE N(M) == [WithoutLeaf(MaintainParent(Adopted(M, l, node[r].rids), l), r) EXCEPT ![r] = Released(hdr.first_free)]
<1>3. PICK M : /\ M = [node EXCEPT ![l] = Joined(@, node[r]),
                                   ![p].keys = RemoveAt(@, key_at),
                                   ![p].rids = RemoveAt(@, FindChild(node[p], r))]
               /\ node' = N(M) /\ work' = UnderflowAt(N(M), p)
               /\ hdr' = [hdr EXCEPT !.last_leaf = IF @ = r THEN l ELSE @, !.first_free = r]
  BY <1>2 DEF Absorb
<1>4. Moved(M, l, r, p, i)
  BY <1>1, <1>3, MovedIs
<1> DEFINE A == Adopted(M, l, node[r].rids)
           R == MaintainParent(A, l)
<1>5. Joins(A, l, r, p, i)
  BY <1>4, AbsorbJoins
<1>6. work.todo = "underflow" /\ work.page # p
  BY <1>2
<1>7. Told(A, R, T \ {r}, lev, l)
  <2> HIDE DEF A
  <2> QED BY <1>5, <1>6, AbsorbTells
<1>8. Merged(N(M), T, l, r, p, i)
  <2> DEFINE B == Released(hdr.first_free)
             C == [WithoutLeaf(R, r) EXCEPT ![r] = B]
  <2>1. C = N(M)
    OBVIOUS
  <2> HIDE DEF N, A, R
  <2>2. Merged(C, T, l, r, p, i)
    BY <1>5, <1>7, AbsorbFrees
  <2> QED BY <2>1, <2>2
<1> HIDE DEF N
<1>9. \E T2, lev2, nxt2, fl2 : Index(node', hdr', work', T2, lev2, nxt2, fl2)
  <2> DEFINE K == N(M)
             h == hdr'
             w == work'
  <2>1. /\ h = [hdr EXCEPT !.last_leaf = IF @ = r THEN l ELSE @, !.first_free = r]
        /\ w = UnderflowAt(K, p) /\ node' = K /\ Merged(K, T, l, r, p, i)
    BY <1>3, <1>8
  <2> HIDE DEF K, h, w
  <2>2. \E T2, lev2, nxt2, fl2 : Index(K, h, w, T2, lev2, nxt2, fl2)
    BY <2>1, MergeStep
  <2> QED BY <2>1, <2>2 DEF h, w
<1>10. SameEntries(node')
  BY <1>1, <1>3, <1>8, MergeKeeps
<1> QED
  BY <1>9, <1>10 DEF IInv

\* The node and a brother that is not rich fit into one.
LEMMA MergeLeftStep ==
  ASSUME NEW T, NEW lev, NEW nxt, NEW fl, Index(node, hdr, work, T, lev, nxt, fl), MergeLeft
  PROVE  IInv' /\ SameEntries(node')
<1> DEFINE r == work.page
           l == LeftBrother
           p == Parent
           i == Rank - 1
           a == Len(node[l].rids)
           d == Len(node[r].rids)
<1>1. /\ Typed(node) /\ hdr \in Header /\ Shape(T, lev, nxt) /\ Links(node, hdr.root_page, T, lev, nxt)
  BY DEF Index
<1>2. HasUnderflow /\ Rank > 1 /\ ~(a > MinFill) /\ Absorb(l, r, Rank)
  BY DEF MergeLeft, LeftIsRich
<1>3. /\ r \in T /\ work = [todo |-> "underflow", page |-> r]
      /\ d \in Nat /\ d < MinOf(hdr) /\ MinFill = MinOf(hdr)
      /\ p \in T /\ ~node[p].is_leaf /\ Rank \in 1 .. Len(node[p].rids) /\ node[p].rids[Rank] = r
      /\ Len(node[p].rids) \in Nat
  BY <1>2, PoorIs
<1>4. i \in 1 .. Len(node[p].rids) - 1 /\ i + 1 = Rank /\ node[p].rids[i] = l /\ node[p].rids[i + 1] = r
  BY <1>2, <1>3 DEF LeftBrother
<1>5. Brothers(T, lev, nxt, p, i, l, r)
  <2> HIDE DEF i, l, r, p
  <2> QED BY <1>1, <1>3, <1>4, BrothersAre
<1>6. l \in T /\ l # r
  BY <1>5 DEF Brothers
<1>7. a \in Nat
  BY <1>2, <1>6, PoorIs
<1>8. Both(l, r) < 2 * MinOf(hdr)
  <2>1. Both(l, r) = a + d
    BY DEF Both
  <2>2. MinOf(hdr) \in Nat
    BY <1>1, Fill
  <2> HIDE DEF a, d
  <2> QED BY <1>2, <1>3, <1>7, <2>1, <2>2
<1> DEFINE key_at == Rank
<1>9. key_at = i \/ key_at = i + 1
  BY <1>4
<1>10. Absorb(l, r, key_at)
  BY <1>2
<1> HIDE DEF i, l, r, p, key_at
<1> QED
  BY <1>3, <1>5, <1>8, <1>9, <1>10, AbsorbStep

LEMMA MergeRightStep ==
  ASSUME NEW T, NEW lev, NEW nxt, NEW fl, Index(node, hdr, work, T, lev, nxt, fl), MergeRight
  PROVE  IInv' /\ SameEntries(node')
<1> DEFINE l == work.page
           r == RightBrother
           p == Parent
           i == Rank
           a == Len(node[l].rids)
           d == Len(node[r].rids)
<1>1. /\ Typed(node) /\ hdr \in Header /\ Shape(T, lev, nxt) /\ Links(node, hdr.root_page, T, lev, nxt)
      /\ Filled(node, hdr, T, work)
  BY DEF Index
<1>2. HasUnderflow /\ Rank = 1 /\ Absorb(l, r, Rank)
  BY DEF MergeRight
<1>3. /\ l \in T /\ work = [todo |-> "underflow", page |-> l] /\ l # hdr.root_page
      /\ a \in Nat /\ a < MinOf(hdr) /\ MinFill = MinOf(hdr)
      /\ p \in T /\ ~node[p].is_leaf /\ Rank \in 1 .. Len(node[p].rids) /\ node[p].rids[Rank] = l
      /\ Len(node[p].rids) \in Nat /\ node[l].parent = p
      /\ p # l => (p # hdr.root_page => Len(node[p].rids) >= MinOf(hdr))
  BY <1>2, PoorIs
\* The parent has another child.
<1>4. Len(node[p].rids) >= 2
  <2>1. p # l
    <3>1. ParentOK(node, hdr.root_page, T, lev, l) /\ lev[l] \in Nat
      BY <1>1, <1>3 DEF Links, Shape
    <3>2. lev[p] = lev[l] + 1
      BY <1>3, <3>1 DEF ParentOK
    <3> QED BY <3>1, <3>2
  <2>2. MinOf(hdr) \in Nat /\ MinOf(hdr) >= 2
    BY <1>1, Fill
  <2>3. CASE p = hdr.root_page
    BY <1>1, <1>3, <2>3 DEF Filled
  <2>4. CASE p # hdr.root_page
    BY <1>3, <2>1, <2>2, <2>4
  <2> QED BY <2>3, <2>4
<1>5. ~(d > MinFill)
  BY <1>2, <1>3, <1>4 DEF MergeRight, RightIsRich
<1>6. i \in 1 .. Len(node[p].rids) - 1 /\ node[p].rids[i] = l /\ node[p].rids[i + 1] = r
  BY <1>2, <1>3, <1>4 DEF RightBrother
<1>7. Brothers(T, lev, nxt, p, i, l, r)
  <2> HIDE DEF i, l, r, p
  <2> QED BY <1>1, <1>3, <1>6, BrothersAre
<1>8. r \in T /\ l # r
  BY <1>7 DEF Brothers
<1>9. d \in Nat
  BY <1>2, <1>8, PoorIs
<1>10. Both(l, r) < 2 * MinOf(hdr)
  <2>1. Both(l, r) = a + d
    BY DEF Both
  <2>2. MinOf(hdr) \in Nat
    BY <1>1, Fill
  <2> HIDE DEF a, d
  <2> QED BY <1>3, <1>5, <1>9, <2>1, <2>2
<1>11. Absorb(l, r, i)
  BY <1>2
<1> HIDE DEF i, l, r, p
<1> QED
  BY <1>3, <1>7, <1>10, <1>11, AbsorbStep
=============================================================================
