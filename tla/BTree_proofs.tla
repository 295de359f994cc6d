----------------------------- MODULE BTree_proofs -----------------------------
(***************************************************************************)
(* Proofs about BTree: the searches, insert_entry and delete_entry keep    *)
(* the invariant of BTreeRebalance_proofs, as the rebalancing does, and    *)
(* what the properties say of the whole tree follows from it.              *)
(***************************************************************************)
EXTENDS BTreeRebalance_proofs

-----------------------------------------------------------------------------
(* The order of the keys.                                                  *)

LEMMA KeysAreInts == Keys \subseteq Int
BY EntryAssumption DEF Keys

LEMMA IntKeys ==
  ASSUME NEW s \in Seq(Keys)
  PROVE  s \in Seq(Int)
<1>1. \A i \in 1 .. Len(s) : s[i] \in Int
  <2>1. \A i \in 1 .. Len(s) : s[i] \in Keys
    BY ElementOfSeq
  <2> QED BY <2>1, KeysAreInts
<1>2. s = [i \in 1 .. Len(s) |-> s[i]] /\ Len(s) \in Nat
  OBVIOUS
<1> DEFINE n == Len(s)
<1>3. n \in Nat /\ [i \in 1 .. n |-> s[i]] \in [1 .. n -> Int]
  BY <1>1, <1>2
<1> HIDE DEF n
<1>4. [i \in 1 .. n |-> s[i]] \in Seq(Int)
  BY <1>3
<1> QED
  BY <1>2, <1>4 DEF n

\* What holds of every two neighbours holds of every two.
LEMMA Ascends ==
  ASSUME NEW s \in Seq(Int), \A j \in 1 .. Len(s) - 1 : s[j] <= s[j + 1]
  PROVE  \A i, j \in 1 .. Len(s) : i < j => s[i] <= s[j]
<1> SUFFICES ASSUME NEW i \in 1 .. Len(s) PROVE \A j \in 1 .. Len(s) : i < j => s[i] <= s[j]
  OBVIOUS
<1> DEFINE m == Len(s)
           Bad == {j \in 1 .. m : i < j /\ ~(s[i] <= s[j])}
<1>1. m \in Nat /\ i \in 1 .. m /\ \A j \in 1 .. m : s[j] \in Int
  OBVIOUS
<1>2. \A j \in 1 .. m - 1 : s[j] <= s[j + 1]
  OBVIOUS
<1> HIDE DEF m
<1>3. Bad = {}
  <2> SUFFICES ASSUME Bad # {} PROVE FALSE
    OBVIOUS
  <2>1. Bad \subseteq Nat
    BY <1>1
  <2>2. PICK j \in Bad : \A k \in Bad : j <= k
    <3> HIDE DEF Bad
    <3> QED BY <2>1, Least
  <2> DEFINE k == j - 1
  <2>3. k \in 1 .. m - 1 /\ k + 1 = j /\ i <= k /\ k \in 1 .. m /\ ~(j <= k)
    BY <1>1
  <2>4. s[k] <= s[j]
    BY <1>2, <2>3
  <2>5. k # i => s[i] <= s[k]
    BY <1>1, <2>2, <2>3
  <2>6. s[i] \in Int /\ s[k] \in Int /\ s[j] \in Int
    BY <1>1, <2>3
  <2> HIDE DEF k
  <2> QED BY <2>4, <2>5, <2>6
<1> QED
  BY <1>3 DEF m

\* A set of keys with all those below it.
DownTo(B) == \A x, y \in Int : x <= y /\ y \in B => x \in B

Ascend(s) == \A i, j \in DOMAIN s : i < j => s[i] <= s[j]

\* The search of a node finds where its keys leave such a set.
LEMMA SlotIs ==
  ASSUME NEW s \in Seq(Int), Ascend(s), NEW B, DownTo(B),
         NEW n, n = Cardinality({i \in DOMAIN s : s[i] \in B})
  PROVE  n \in 0 .. Len(s) /\ \A i \in 1 .. Len(s) : s[i] \in B <=> i <= n
<1> DEFINE m == Len(s)
           U == {k \in 0 .. m : \A i \in 1 .. m : i > k => s[i] \notin B}
<1>1. m \in Nat /\ DOMAIN s = 1 .. m /\ \A i \in 1 .. m : s[i] \in Int
  OBVIOUS
<1> HIDE DEF m
<1>2. m \in U /\ U \subseteq Nat
  BY <1>1
<1>3. PICK k \in U : \A j \in U : k <= j
  <2> HIDE DEF U
  <2> QED BY <1>2, Least
<1>4. k \in 0 .. m /\ \A i \in 1 .. m : i > k => s[i] \notin B
  OBVIOUS
<1>5. ASSUME NEW i \in 1 .. m, i <= k PROVE s[i] \in B
  <2> SUFFICES ASSUME s[i] \notin B PROVE FALSE
    OBVIOUS
  <2> DEFINE g == i - 1
  <2>1. g \in 0 .. m /\ ~(k <= g) /\ \A j \in 1 .. m : j > g => j = i \/ i < j
    BY <1>1, <1>4, <1>5
  <2>2. \A j \in 1 .. m : i < j => s[j] \notin B
    BY <1>1 DEF Ascend, DownTo
  <2>3. g \in U
    BY <2>1, <2>2
  <2> QED BY <1>3, <2>1, <2>3
<1> HIDE DEF U
<1>6. {i \in DOMAIN s : s[i] \in B} = 1 .. k
  BY <1>1, <1>4, <1>5
<1>7. Cardinality(1 .. k) = k
  BY <1>1, <1>4, FS_Interval
<1>8. n = k
  BY <1>6, <1>7
<1>9. \A i \in 1 .. m : s[i] \in B <=> i <= k
  BY <1>4, <1>5, <1>1
<1> QED
  BY <1>4, <1>8, <1>9 DEF m

\* Two neighbours of a level have one parent, or neighbours.
LEMMA NeighboursAre ==
  ASSUME NEW T, NEW lev, NEW nxt, Typed(node), Shape(T, lev, nxt), Links(node, hdr.root_page, T, lev, nxt),
         NEW y \in T, nxt[y] # NDX_NO_PAGE,
         NEW z \in T, ~node[z].is_leaf, NEW i \in 1 .. Len(node[z].rids), node[z].rids[i] = nxt[y]
  PROVE  LET x == node[y].parent IN
         /\ i > 1 => y = node[z].rids[i - 1]
         /\ i = 1 => x \in T /\ ~node[x].is_leaf /\ nxt[x] = z /\ y = node[x].rids[Len(node[x].rids)]
<1> DEFINE x == node[y].parent
           c == Len(node[x].rids)
           m == Len(node[z].rids)
<1>1. y # hdr.root_page /\ ParentOK(node, hdr.root_page, T, lev, y)
  BY DEF Links
<1>2. x \in T /\ ~node[x].is_leaf /\ y \in ToSet(node[x].rids) /\ x \in Pages /\ z \in Pages
  <2>1. x \in T /\ ~node[x].is_leaf /\ y \in ToSet(node[x].rids)
    BY <1>1 DEF ParentOK
  <2> QED BY <2>1, InnerIs
<1>3. node[x].rids \in Seq(Pages) /\ c \in Nat /\ m \in Nat /\ DOMAIN node[z].rids = 1 .. m
  BY <1>2, PageIs
<1>4. PICK j \in 1 .. c : node[x].rids[j] = y
  BY <1>2, <1>3, InToSet
<1>5. nxt[y] = IF j < c THEN node[x].rids[j + 1] ELSE FirstOfNext(node, nxt, x)
  BY <1>2, <1>4, ChildIs
<1>6. node[nxt[y]].parent = z /\ nxt[y] \in T /\ IsInjective(node[z].rids)
  <2>1. IsInjective(node[z].rids)
    BY DEF Links, ChildrenOK
  <2>2. node[node[z].rids[i]].parent = z /\ node[z].rids[i] \in T
    BY ChildIs
  <2> QED BY <2>1, <2>2
<1> HIDE DEF x, c, m
<1>7. \A k, k2 \in 1 .. m : node[z].rids[k] = node[z].rids[k2] => k = k2
  BY <1>3, <1>6 DEF IsInjective
<1>8. i \in 1 .. m
  BY DEF m
<1>9. CASE j < c
  <2> DEFINE k == j + 1
  <2>1. k \in 1 .. c /\ k - 1 = j /\ k > 1 /\ node[x].rids[k] = nxt[y]
    BY <1>3, <1>5, <1>9
  <2> HIDE DEF k
  <2>2. node[nxt[y]].parent = x
    <3>1. node[node[x].rids[k]].parent = x
      BY <1>2, <2>1, ChildIs DEF c
    <3> QED BY <2>1, <3>1
  <2>3. x = z /\ c = m
    BY <1>6, <2>2 DEF c, m
  <2>4. k = i
    BY <1>7, <1>8, <2>1, <2>3
  <2> QED BY <1>4, <2>1, <2>3, <2>4
<1>10. CASE ~(j < c)
  <2>1. j = c
    BY <1>3, <1>10
  <2>2. nxt[y] = FirstOfNext(node, nxt, x)
    BY <1>5, <1>10
  <2>3. nxt[x] # NDX_NO_PAGE /\ nxt[y] = node[nxt[x]].rids[1]
    BY <2>2 DEF FirstOfNext
  <2>4. nxt[x] \in T /\ ~node[nxt[x]].is_leaf
    BY <1>2, <2>3, InnerIs DEF Shape, Links, ParentOK
  <2>5. 1 \in 1 .. Len(node[nxt[x]].rids)
    BY <2>4, InnerIs
  <2>6. node[node[nxt[x]].rids[1]].parent = nxt[x]
    BY <2>4, <2>5, ChildIs
  <2>7. nxt[x] = z
    BY <1>6, <2>3, <2>6
  <2>8. i = 1
    BY <1>7, <1>8, <2>3, <2>5, <2>7 DEF m
  <2>9. i > 1 <=> FALSE
    BY <2>8
  <2>10. y = node[x].rids[c]
    BY <1>4, <2>1
  <2> QED BY <1>2, <2>7, <2>8, <2>9, <2>10 DEF x, c
<1> QED
  BY <1>9, <1>10 DEF x

\* The keys of every level ascend.
InOrder(nxt, p) ==
  /\ Ascend(node[p].keys)
  /\ nxt[p] # NDX_NO_PAGE => Last(node[p].keys) <= node[nxt[p]].keys[1]

LEMMA LevelOrder ==
  ASSUME NEW T, NEW lev, NEW nxt, NEW fl, Index(node, hdr, work, T, lev, nxt, fl), NEW p \in T
  PROVE  InOrder(nxt, p)
<1>1. /\ Typed(node) /\ hdr \in Header /\ Shape(T, lev, nxt) /\ Links(node, hdr.root_page, T, lev, nxt)
      /\ KeysOK(node, T, NDX_NO_PAGE) /\ Filled(node, hdr, T, work) /\ Ascending(node, T, nxt)
  BY DEF Index
<1> DEFINE Bad == {q \in T : ~InOrder(nxt, q)}
<1>2. Bad = {}
  <2> SUFFICES ASSUME Bad # {} PROVE FALSE
    OBVIOUS
  <2>1. \A q \in Bad : lev[q] \in Nat
    BY <1>1, InnerIs
  <2>2. PICK q \in Bad : \A y \in Bad : lev[q] <= lev[y]
    <3> HIDE DEF Bad
    <3> QED BY <2>1, LeastRank
  <2>3. q \in T /\ q \in Pages /\ lev[q] \in Nat /\ ~InOrder(nxt, q)
    BY <1>1, InnerIs
  <2>4. \A y \in T : lev[y] < lev[q] => InOrder(nxt, y)
    BY <1>1, <2>2, <2>3, InnerIs
  <2>5. ~node[q].is_leaf
    <3> SUFFICES ASSUME node[q].is_leaf PROVE FALSE
      OBVIOUS
    <3>1. InOrder(nxt, q)
      BY <1>1, <2>3 DEF Ascending, InOrder, Ascend
    <3> QED BY <2>3, <3>1
  <2> HIDE DEF Bad
  <2> DEFINE m == Len(node[q].rids)
             ks == node[q].keys
  <2>6. m \in Nat /\ DOMAIN ks = 1 .. m /\ Len(ks) = m /\ ks \in Seq(Int) /\ DOMAIN node[q].rids = 1 .. m /\ 1 \in 1 .. m
    <3>1. m \in Nat /\ DOMAIN ks = 1 .. m /\ Len(ks) = m /\ ks \in Seq(Keys) /\ DOMAIN node[q].rids = 1 .. m
      BY <1>1, <2>3, PageIs
    <3>2. 1 \in 1 .. m
      BY <1>1, <2>3, <2>5, InnerIs
    <3> QED BY <3>1, <3>2, IntKeys
  <2>7. ASSUME NEW x \in T, ~node[x].is_leaf, lev[x] = lev[q], NEW i \in 1 .. Len(node[x].rids)
        PROVE  LET c == node[x].rids[i] IN
               /\ c \in T /\ InOrder(nxt, c) /\ node[x].keys[i] = Last(node[c].keys)
               /\ node[c].keys[1] <= Last(node[c].keys) /\ node[c].keys[1] \in Int /\ Last(node[c].keys) \in Int
               /\ nxt[c] = IF i < Len(node[x].rids) THEN node[x].rids[i + 1] ELSE FirstOfNext(node, nxt, x)
    <3> DEFINE c == node[x].rids[i]
    <3>1. /\ c \in T /\ c \in Pages /\ x \in Pages /\ c # hdr.root_page /\ lev[x] = lev[c] + 1 /\ lev[c] \in Nat
          /\ nxt[c] = IF i < Len(node[x].rids) THEN node[x].rids[i + 1] ELSE FirstOfNext(node, nxt, x)
      BY <1>1, <2>7, ChildIs
    <3>2. InOrder(nxt, c)
      BY <2>3, <2>4, <2>7, <3>1
    <3>3. c # NDX_NO_PAGE /\ i \in DOMAIN node[x].rids
      BY <1>1, <3>1, PageIs, Constants
    <3>4. node[x].keys[i] = Last(node[c].keys)
      BY <1>1, <2>7, <3>3 DEF KeysOK
    <3>5. T \subseteq Pages
      BY <1>1 DEF Shape
    <3> HIDE DEF c
    <3>6. node[c].keys # << >> /\ node[c].keys \in Seq(Keys) /\ Len(node[c].keys) \in Nat /\ Len(node[c].keys) >= 1
      <4>1. node[c].keys # << >> /\ Len(node[c].rids) >= 1 /\ Len(node[c].rids) \in Nat /\ Len(node[c].keys) = Len(node[c].rids)
        BY <1>1, <3>1, <3>5, NotEmpty
      <4>2. node[c].keys \in Seq(Keys)
        BY <1>1, <3>1, PageIs
      <4> QED BY <4>1, <4>2
    <3> DEFINE s == node[c].keys
               e == Len(s)
    <3>7. Last(s) = s[e] /\ 1 \in DOMAIN s /\ e \in DOMAIN s /\ e \in Nat /\ e >= 1 /\ s[1] \in Int /\ s[e] \in Int
      <4>1. s \in Seq(Int)
        BY <3>6, IntKeys
      <4> QED BY <3>6, <4>1 DEF Last
    <3>8. Ascend(s)
      BY <3>2 DEF InOrder
    <3> HIDE DEF s, e
    <3>9. s[1] <= s[e]
      BY <3>7, <3>8 DEF Ascend
    <3> QED BY <3>1, <3>2, <3>4, <3>7, <3>9 DEF c, s
  <2>8. \A i \in 1 .. m - 1 : ks[i] <= ks[i + 1]
    <3> SUFFICES ASSUME NEW i \in 1 .. m - 1 PROVE ks[i] <= ks[i + 1]
      OBVIOUS
    <3> DEFINE j == i + 1
               c == node[q].rids[i]
               d == node[q].rids[j]
    <3>1. i \in 1 .. m /\ j \in 1 .. m /\ i < m
      BY <2>6
    <3>2. /\ InOrder(nxt, c) /\ ks[i] = Last(node[c].keys) /\ Last(node[c].keys) \in Int /\ nxt[c] = d
      <4> HIDE DEF j
      <4>1. /\ InOrder(nxt, c) /\ ks[i] = Last(node[c].keys) /\ Last(node[c].keys) \in Int
            /\ nxt[c] = IF i < Len(node[q].rids) THEN node[q].rids[i + 1] ELSE FirstOfNext(node, nxt, q)
        BY <2>3, <2>5, <2>7, <3>1
      <4> QED BY <3>1, <4>1 DEF j
    <3>3. /\ d \in T /\ ks[j] = Last(node[d].keys) /\ node[d].keys[1] <= Last(node[d].keys)
          /\ node[d].keys[1] \in Int /\ Last(node[d].keys) \in Int
      <4> HIDE DEF j
      <4> QED BY <2>3, <2>5, <2>7, <3>1
    <3>4. d # NDX_NO_PAGE
      BY <1>1, <3>3, InnerIs, Constants
    <3> HIDE DEF j, c, d
    <3>5. Last(node[c].keys) <= node[d].keys[1]
      BY <3>2, <3>4 DEF InOrder
    <3> QED BY <3>2, <3>3, <3>5 DEF j
  <2>9. Ascend(ks)
    <3> HIDE DEF ks, m
    <3> QED BY <2>6, <2>8, Ascends DEF Ascend
  <2>10. ASSUME nxt[q] # NDX_NO_PAGE PROVE Last(ks) <= node[nxt[q]].keys[1]
    <3> DEFINE x == nxt[q]
    <3>1. x \in T /\ lev[x] = lev[q] /\ ~node[x].is_leaf
      <4>1. x \in T /\ lev[x] = lev[q]
        BY <1>1, <2>3, <2>10, InnerIs
      <4> QED BY <1>1, <2>3, <2>5, <4>1, InnerIs
    <3>2. 1 \in 1 .. Len(node[x].rids) /\ m \in 1 .. m /\ ~(m < m) /\ Last(ks) = ks[m]
      <4>1. 1 \in 1 .. Len(node[x].rids)
        BY <1>1, <3>1, InnerIs
      <4> QED BY <2>6, <4>1 DEF Last
    <3> DEFINE c == node[q].rids[m]
               d == node[x].rids[1]
    <3>3. InOrder(nxt, c) /\ ks[m] = Last(node[c].keys) /\ Last(node[c].keys) \in Int /\ nxt[c] = FirstOfNext(node, nxt, q)
      BY <2>3, <2>5, <2>7, <3>2
    <3>4. /\ d \in T /\ node[x].keys[1] = Last(node[d].keys) /\ node[d].keys[1] <= Last(node[d].keys)
          /\ node[d].keys[1] \in Int /\ Last(node[d].keys) \in Int
      BY <2>7, <3>1, <3>2
    <3>5. nxt[c] = d /\ d # NDX_NO_PAGE
      <4>1. nxt[c] = d
        BY <2>10, <3>3 DEF FirstOfNext
      <4> QED BY <1>1, <3>4, <4>1, InnerIs, Constants
    <3> HIDE DEF c, d, m
    <3>6. Last(node[c].keys) <= node[d].keys[1]
      BY <3>3, <3>5 DEF InOrder
    <3> QED BY <3>2, <3>3, <3>4, <3>6
  <2> QED BY <2>3, <2>9, <2>10 DEF InOrder
<1> QED
  BY <1>2

-----------------------------------------------------------------------------
(* The order of the leaves.                                                *)

\* Nodes of one level with all the nodes before them.
FromLeft(S, T, lev, nxt) ==
  /\ S \subseteq T /\ S # {}
  /\ \A x, y \in S : lev[x] = lev[y]
  /\ \A x \in S : \A y \in T : nxt[y] = x => y \in S

HasStart(S, T, nxt) == \E x \in S : \A y \in T : nxt[y] # x

LEMMA FirstToo ==
  ASSUME NEW T, NEW lev, NEW nxt, Typed(node), Shape(T, lev, nxt), Links(node, hdr.root_page, T, lev, nxt),
         NEW S, FromLeft(S, T, lev, nxt), NEW p \in T, ~node[p].is_leaf,
         NEW x \in S, node[x].parent = p
  PROVE  1 \in 1 .. Len(node[p].rids) /\ node[p].rids[1] \in S
<1> DEFINE m == Len(node[p].rids)
           U == {i \in 1 .. m : node[p].rids[i] \in S}
<1>1. p \in Pages /\ m \in Nat /\ node[p].rids \in Seq(Pages) /\ 1 \in 1 .. m
  <2>1. p \in Pages /\ 1 \in 1 .. m
    BY InnerIs
  <2> QED BY <2>1, PageIs
<1>2. x \in T /\ x \in ToSet(node[p].rids)
  <2>1. x \in T
    BY DEF FromLeft
  <2>2. x # hdr.root_page
    <3>1. p # NDX_NO_PAGE
      BY <1>1, Constants
    <3> QED BY <2>1, <3>1 DEF Links, ParentOK
  <2> QED BY <2>1, <2>2 DEF Links, ParentOK
<1>3. U # {} /\ U \subseteq Nat
  BY <1>1, <1>2, InToSet
<1>4. PICK i \in U : \A j \in U : i <= j
  <2> HIDE DEF U
  <2> QED BY <1>3, Least
<1>5. i \in 1 .. m /\ node[p].rids[i] \in S
  OBVIOUS
<1>6. CASE i > 1
  <2> DEFINE j == i - 1
  <2>1. j \in 1 .. m /\ j < m /\ j + 1 = i /\ ~(i <= j)
    BY <1>1, <1>5, <1>6
  <2> HIDE DEF j
  <2>2. node[p].rids[j] \in T /\ nxt[node[p].rids[j]] = node[p].rids[i]
    <3>1. /\ node[p].rids[j] \in T
          /\ nxt[node[p].rids[j]] = IF j < Len(node[p].rids) THEN node[p].rids[j + 1] ELSE FirstOfNext(node, nxt, p)
      BY <2>1, ChildIs
    <3> QED BY <2>1, <3>1
  <2>3. node[p].rids[j] \in S
    BY <1>5, <2>2 DEF FromLeft
  <2>4. j \in U
    BY <2>1, <2>3
  <2> QED BY <1>4, <2>1, <2>4
<1>7. CASE ~(i > 1)
  BY <1>1, <1>5, <1>7
<1> QED
  BY <1>6, <1>7

\* No level goes round in a ring.
LEMMA LevelStarts ==
  ASSUME NEW T, NEW lev, NEW nxt, Typed(node), Shape(T, lev, nxt), Links(node, hdr.root_page, T, lev, nxt),
         NEW S, FromLeft(S, T, lev, nxt)
  PROVE  HasStart(S, T, nxt)
<1> DEFINE K == lev[hdr.root_page]
           rank == [X \in SUBSET T |-> K - lev[CHOOSE x : x \in X]]
           Bad == {X \in SUBSET T : FromLeft(X, T, lev, nxt) /\ ~HasStart(X, T, nxt)}
<1>1. /\ K \in Nat /\ \A x \in T : lev[x] \in Nat /\ lev[x] <= K
  BY InnerIs DEF Links
<1> HIDE DEF K
<1>2. ASSUME NEW X \in SUBSET T, FromLeft(X, T, lev, nxt), NEW x \in X PROVE rank[X] = K - lev[x] /\ rank[X] \in Nat
  <2> DEFINE c == CHOOSE y : y \in X
  <2>1. c \in X
    OBVIOUS
  <2>2. rank[X] = K - lev[c]
    OBVIOUS
  <2> HIDE DEF c, rank
  <2>3. lev[c] = lev[x] /\ x \in T
    BY <1>2, <2>1 DEF FromLeft
  <2> QED BY <1>1, <2>2, <2>3
<1>3. Bad = {}
  <2> SUFFICES ASSUME Bad # {} PROVE FALSE
    OBVIOUS
  <2>1. \A X \in Bad : rank[X] \in Nat
    <3> SUFFICES ASSUME NEW X \in Bad PROVE rank[X] \in Nat
      OBVIOUS
    <3>1. X \in SUBSET T /\ FromLeft(X, T, lev, nxt)
      OBVIOUS
    <3>2. PICK x : x \in X
      BY <3>1 DEF FromLeft
    <3> HIDE DEF Bad, rank
    <3> QED BY <1>2, <3>1, <3>2
  <2>2. PICK X \in Bad : \A Y \in Bad : rank[X] <= rank[Y]
    <3> HIDE DEF Bad, rank
    <3> QED BY <2>1, LeastRank
  <2>3. X \in SUBSET T /\ FromLeft(X, T, lev, nxt) /\ ~HasStart(X, T, nxt)
    OBVIOUS
  <2> DEFINE P == {node[x].parent : x \in X}
  <2>4. ASSUME NEW x \in X
        PROVE  /\ x \in T /\ node[x].parent \in T /\ ~node[node[x].parent].is_leaf
               /\ lev[node[x].parent] = lev[x] + 1
    <3>1. x \in T
      BY <2>3
    <3>2. x # hdr.root_page
      <4> SUFFICES ASSUME x = hdr.root_page PROVE FALSE
        OBVIOUS
      <4>1. PICK y \in T : nxt[y] = x
        BY <2>3, <2>4 DEF HasStart
      <4>2. lev[y] = K
        <5>1. x # NDX_NO_PAGE
          BY <3>1, InnerIs, Constants
        <5> QED BY <4>1, <5>1, InnerIs DEF K
      <4>3. y # hdr.root_page
        BY <3>1, <4>1, InnerIs, Constants DEF Links
      <4>4. node[y].parent \in T /\ lev[node[y].parent] = lev[y] + 1
        BY <4>1, <4>3 DEF Links, ParentOK
      <4> QED BY <1>1, <4>2, <4>4
    <3> QED BY <3>1, <3>2 DEF Links, ParentOK
  <2>5. FromLeft(P, T, lev, nxt)
    <3>1. P \subseteq T /\ P # {}
      BY <2>3, <2>4 DEF FromLeft
    <3>2. ASSUME NEW p \in P, NEW q \in P PROVE lev[p] = lev[q]
      <4>1. PICK x \in X, y \in X : p = node[x].parent /\ q = node[y].parent
        OBVIOUS
      <4>2. lev[x] = lev[y]
        BY <2>3 DEF FromLeft
      <4> QED BY <2>4, <4>1, <4>2
    <3>3. ASSUME NEW p \in P, NEW y \in T, nxt[y] = p PROVE y \in P
      <4>1. PICK x \in X : p = node[x].parent
        OBVIOUS
      <4>2. p \in T /\ ~node[p].is_leaf
        BY <2>4, <4>1
      <4> HIDE DEF P, Bad, rank
      <4>3. 1 \in 1 .. Len(node[p].rids) /\ node[p].rids[1] \in X
        BY <2>3, <4>1, <4>2, FirstToo
      <4>4. p # NDX_NO_PAGE
        BY <4>2, InnerIs, Constants
      <4>5. ~node[y].is_leaf
        BY <3>3, <4>2, <4>4, InnerIs
      <4> DEFINE m == Len(node[y].rids)
      <4>6. m \in 1 .. m
        BY <4>5, InnerIs
      <4>7. ~(m < m)
        BY <4>6
      <4> DEFINE w == node[y].rids[m]
      <4>8. w \in T /\ node[w].parent = y /\ nxt[w] = FirstOfNext(node, nxt, y)
        BY <4>5, <4>6, <4>7, ChildIs
      <4>9. nxt[w] = node[p].rids[1]
        BY <3>3, <4>4, <4>8 DEF FirstOfNext
      <4>10. w \in X
        BY <2>3, <4>3, <4>8, <4>9 DEF FromLeft
      <4> QED BY <4>8, <4>10 DEF P
    <3> QED BY <3>1, <3>2, <3>3 DEF FromLeft
  <2>6. P \notin Bad
    <3>1. PICK x : x \in X
      BY <2>3 DEF FromLeft
    <3>2. rank[X] = K - lev[x]
      <4> HIDE DEF rank, Bad
      <4> QED BY <1>2, <2>3, <3>1
    <3>3. P \in SUBSET T /\ node[x].parent \in P
      BY <2>4, <3>1
    <3>4. rank[P] = K - lev[node[x].parent]
      <4> HIDE DEF rank, Bad, P
      <4> QED BY <1>2, <2>5, <3>3
    <3>5. ~(rank[X] <= rank[P])
      <4> HIDE DEF rank, Bad, P
      <4>1. lev[node[x].parent] = lev[x] + 1 /\ lev[x] \in Nat /\ lev[node[x].parent] \in Nat
        BY <1>1, <2>4, <3>1
      <4> QED BY <1>1, <3>2, <3>4, <4>1
    <3> HIDE DEF rank, Bad, P
    <3> QED BY <2>2, <3>5
  <2>7. HasStart(P, T, nxt)
    <3>1. P \in SUBSET T
      BY <2>4
    <3> QED BY <2>5, <2>6, <3>1
  <2>8. PICK x \in X : \A y \in T : nxt[y] # node[x].parent
    BY <2>7 DEF HasStart
  <2> DEFINE p == node[x].parent
  <2>9. p \in T /\ ~node[p].is_leaf
    BY <2>4
  <2> HIDE DEF P, Bad, rank
  <2>10. 1 \in 1 .. Len(node[p].rids) /\ node[p].rids[1] \in X
    <3> HIDE DEF p
    <3>1. node[x].parent = p
      BY DEF p
    <3> QED BY <2>3, <2>9, <3>1, FirstToo
  <2>11. PICK y \in T : nxt[y] = node[p].rids[1]
    BY <2>3, <2>10 DEF HasStart
  <2>12. nxt[y] # NDX_NO_PAGE
    <3>1. nxt[y] \in T
      BY <2>3, <2>10, <2>11
    <3> QED BY <3>1, InnerIs, Constants
  <2>13. node[y].parent \in T /\ nxt[node[y].parent] = p
    <3> DEFINE one == 1
    <3>1. one \in 1 .. Len(node[p].rids) /\ node[p].rids[one] = nxt[y] /\ one = 1
      BY <2>10, <2>11
    <3> HIDE DEF p, one
    <3> QED BY <2>9, <2>12, <3>1, NeighboursAre
  <2> QED BY <2>8, <2>13
<1> QED
  BY <1>3 DEF FromLeft

\* The leaves, from left to right.
LeafOrder(L, T, nxt) ==
  /\ L \in Seq(T) /\ Len(L) \in Nat /\ Len(L) >= 1 /\ IsInjective(L)
  /\ \A p \in T : node[p].is_leaf => \E i \in 1 .. Len(L) : L[i] = p
  /\ \A i \in 1 .. Len(L) : L[i] \in T /\ L[i] \in Pages /\ node[L[i]].is_leaf
  /\ L[1] = first_leaf /\ L[Len(L)] = hdr.last_leaf
  /\ \A i \in 1 .. Len(L) : nxt[L[i]] = IF i < Len(L) THEN L[i + 1] ELSE NDX_NO_PAGE

\* The walk from the first leaf on.
Walk(f, nxt) ==
  f = [n \in Nat |-> IF n = 0 THEN first_leaf
                     ELSE IF f[n - 1] = NDX_NO_PAGE THEN NDX_NO_PAGE ELSE nxt[f[n - 1]]]

LEMMA WalkExists ==
  ASSUME NEW T, NEW lev, NEW nxt, Shape(T, lev, nxt)
  PROVE  \E f \in [Nat -> PageOrNone] : Walk(f, nxt)
<1> DEFINE S == Nat
           V == PageOrNone
           rank == [n \in S |-> n]
           G == [a \in S \X [S -> V] |->
                   IF a[1] = 0 THEN first_leaf
                   ELSE IF a[2][a[1] - 1] = NDX_NO_PAGE THEN NDX_NO_PAGE ELSE nxt[a[2][a[1] - 1]]]
<1>1. rank \in [S -> Nat]
  OBVIOUS
<1>2. V # {} /\ first_leaf \in V /\ NDX_NO_PAGE \in V
  BY Constants DEF PageOrNone, first_leaf
<1>3. ASSUME NEW n \in S, NEW f \in [S -> V]
      PROVE  G[<<n, f>>] = IF n = 0 THEN first_leaf
                           ELSE IF f[n - 1] = NDX_NO_PAGE THEN NDX_NO_PAGE ELSE nxt[f[n - 1]]
  OBVIOUS
<1>4. ASSUME NEW x \in V, x # NDX_NO_PAGE PROVE nxt[x] \in V
  BY <1>4 DEF PageOrNone, Shape
<1>5. G \in [S \X [S -> V] -> V]
  <2> SUFFICES ASSUME NEW a \in S \X [S -> V]
               PROVE  (IF a[1] = 0 THEN first_leaf
                       ELSE IF a[2][a[1] - 1] = NDX_NO_PAGE THEN NDX_NO_PAGE ELSE nxt[a[2][a[1] - 1]]) \in V
    OBVIOUS
  <2>1. a[1] \in Nat /\ a[2] \in [Nat -> V]
    OBVIOUS
  <2>2. a[1] # 0 => a[2][a[1] - 1] \in V
    BY <2>1
  <2> HIDE DEF V
  <2> QED BY <1>2, <1>4, <2>2
<1>6. Below(S, V, rank, G)
  <2> SUFFICES ASSUME NEW x \in S, NEW f \in [S -> V], NEW g \in [S -> V],
                      \A y \in S : rank[y] < rank[x] => f[y] = g[y]
               PROVE  G[<<x, f>>] = G[<<x, g>>]
    BY DEF Below
  <2>1. x # 0 => f[x - 1] = g[x - 1]
    OBVIOUS
  <2>2. G[<<x, f>>] = IF x = 0 THEN first_leaf
                      ELSE IF f[x - 1] = NDX_NO_PAGE THEN NDX_NO_PAGE ELSE nxt[f[x - 1]]
    BY <1>3
  <2>3. G[<<x, g>>] = IF x = 0 THEN first_leaf
                      ELSE IF g[x - 1] = NDX_NO_PAGE THEN NDX_NO_PAGE ELSE nxt[g[x - 1]]
    BY <1>3
  <2> HIDE DEF G
  <2> QED BY <2>1, <2>2, <2>3
<1> HIDE DEF G, rank, S, V
<1>00. Recurs(S, V, rank, G)
  BY <1>1, <1>2, <1>5, <1>6 DEF Recurs
<1>0. \E f \in [S -> V] : f = [x \in S |-> G[<<x, f>>]]
  BY <1>00, Recursion
<1> USE DEF S, V
<1>7. PICK f \in [S -> V] : f = [x \in S |-> G[<<x, f>>]]
  BY <1>0
<1>8. \A n \in Nat : f[n] = G[<<n, f>>]
  BY <1>7
<1>9. \A n \in Nat : f[n] = IF n = 0 THEN first_leaf
                            ELSE IF f[n - 1] = NDX_NO_PAGE THEN NDX_NO_PAGE ELSE nxt[f[n - 1]]
  BY <1>3, <1>8
<1>10. f = [n \in Nat |-> f[n]]
  BY <1>7
<1>11. Walk(f, nxt)
  BY <1>9, <1>10 DEF Walk
<1> QED
  BY <1>7, <1>11

LEMMA LeavesInOrder ==
  ASSUME NEW T, NEW lev, NEW nxt, NEW fl, Index(node, hdr, work, T, lev, nxt, fl)
  PROVE  \E L : LeafOrder(L, T, nxt)
<1>1. /\ Typed(node) /\ hdr \in Header /\ Shape(T, lev, nxt) /\ Links(node, hdr.root_page, T, lev, nxt)
      /\ RingOK(node, hdr.last_leaf, T, nxt)
  BY DEF Index
<1> DEFINE last == hdr.last_leaf
           Lf == {p \in T : node[p].is_leaf}
<1>2. PICK f \in [Nat -> PageOrNone] : Walk(f, nxt)
  BY <1>1, WalkExists
<1>3. /\ f[0] = first_leaf
      /\ \A n \in Nat : f[n + 1] = IF f[n] = NDX_NO_PAGE THEN NDX_NO_PAGE ELSE nxt[f[n]]
  BY <1>2 DEF Walk
<1>4. /\ first_leaf \in Lf /\ last \in Lf /\ nxt[last] = NDX_NO_PAGE
      /\ \A p \in Lf : p # NDX_NO_PAGE /\ p \in Pages /\ nxt[p] # first_leaf
      /\ \A p \in Lf : nxt[p] = NDX_NO_PAGE => p = last
      /\ \A p \in Lf : p # first_leaf => \E q \in T : nxt[q] = p
  <2>1. \A p \in Lf : LeafOK(node, hdr.last_leaf, T, nxt, p) /\ p \in Pages /\ p # NDX_NO_PAGE
    BY <1>1, InnerIs, Constants DEF RingOK
  <2>2. first_leaf \in Lf /\ last \in Lf /\ nxt[last] = NDX_NO_PAGE
    BY <1>1 DEF RingOK
  <2>3. \A p \in Lf : /\ nxt[p] # first_leaf
                      /\ nxt[p] = NDX_NO_PAGE => p = last
                      /\ p # first_leaf => node[p].prev_leaf \in T /\ nxt[node[p].prev_leaf] = p
    BY <2>1 DEF LeafOK
  <2> QED BY <2>1, <2>2, <2>3
<1>5. /\ \A p \in Lf : nxt[p] # NDX_NO_PAGE => nxt[p] \in Lf
      /\ \A p \in T : nxt[p] \in Lf => p \in Lf
      /\ \A p, q \in Lf : lev[p] = lev[q]
      /\ \A p, q \in Lf : nxt[p] = nxt[q] /\ nxt[p] # NDX_NO_PAGE => p = q
  <2>1. \A p \in T : /\ node[p].is_leaf <=> lev[p] = 0
                     /\ nxt[p] # NDX_NO_PAGE => nxt[p] \in T /\ lev[nxt[p]] = lev[p]
    BY <1>1, InnerIs
  <2>2. \A p, q \in T : nxt[p] = nxt[q] /\ nxt[p] # NDX_NO_PAGE => p = q
    BY <1>1 DEF Shape
  <2>3. \A p \in Lf : nxt[p] # NDX_NO_PAGE => nxt[p] \in Lf
    BY <2>1
  <2>4. \A p \in T : nxt[p] \in Lf => p \in Lf
    <3> SUFFICES ASSUME NEW p \in T, nxt[p] \in Lf PROVE lev[p] = 0
      BY <2>1
    <3> QED BY <1>4, <2>1
  <2> QED BY <2>1, <2>2, <2>3, <2>4
<1> HIDE DEF Lf, last
\* Every leaf is met.
<1> DEFINE Rest == {p \in Lf : \A n \in Nat : f[n] # p}
<1>6. Rest = {}
  <2> SUFFICES ASSUME Rest # {} PROVE FALSE
    OBVIOUS
  <2>1. \A x \in Rest : \A y \in T : nxt[y] = x => y \in Rest
    <3> SUFFICES ASSUME NEW x \in Rest, NEW y \in T, nxt[y] = x, NEW n \in Nat, f[n] = y PROVE FALSE
      BY <1>5
    <3>1. y \in Lf
      BY <1>5
    <3>2. f[n + 1] = x /\ n + 1 \in Nat
      BY <1>3, <1>4, <3>1
    <3> QED BY <3>2
  <2>2. Rest \subseteq T
    BY DEF Lf
  <2>3. FromLeft(Rest, T, lev, nxt)
    BY <1>5, <2>1, <2>2 DEF FromLeft
  <2> HIDE DEF Rest
  <2>4. PICK x \in Rest : \A y \in T : nxt[y] # x
    BY <1>1, <2>3, LevelStarts DEF HasStart
  <2> USE DEF Rest
  <2>5. x = first_leaf
    BY <1>4, <2>4
  <2> QED BY <1>3, <2>5
<1> DEFINE U == {n \in Nat : f[n] = last}
<1>7. U # {} /\ U \subseteq Nat
  BY <1>4, <1>6
<1>8. PICK k \in U : \A n \in U : k <= n
  <2> HIDE DEF U
  <2> QED BY <1>7, Least
<1>9. k \in Nat /\ f[k] = last /\ \A n \in Nat : n < k => f[n] # last
  BY <1>8
<1> HIDE DEF U, Rest
\* Up to the last leaf there is nothing else.
<1>10. \A i \in 0 .. k : f[i] \in Lf
  <2> DEFINE Bad == {i \in 0 .. k : f[i] \notin Lf}
  <2> SUFFICES ASSUME Bad # {} PROVE FALSE
    OBVIOUS
  <2>1. Bad \subseteq Nat
    BY <1>9
  <2>2. PICK i \in Bad : \A j \in Bad : i <= j
    <3> HIDE DEF Bad
    <3> QED BY <2>1, Least
  <2> DEFINE j == i - 1
  <2>3. i # 0
    BY <1>3, <1>4
  <2>4. j \in Nat /\ j \in 0 .. k /\ j < k /\ j + 1 = i /\ ~(i <= j)
    BY <1>9, <2>3
  <2> HIDE DEF j
  <2>5. f[j] \in Lf /\ f[j] # last
    BY <1>9, <2>2, <2>4
  <2>6. f[j + 1] \in Lf
    BY <1>3, <1>4, <1>5, <2>4, <2>5
  <2> QED BY <2>4, <2>6
<1>11. \A n \in Nat : n > k => f[n] = NDX_NO_PAGE
  <2> DEFINE Bad == {i \in Nat : i > k /\ f[i] # NDX_NO_PAGE}
  <2> SUFFICES ASSUME Bad # {} PROVE FALSE
    OBVIOUS
  <2>2. PICK i \in Bad : \A j \in Bad : i <= j
    <3>1. Bad \subseteq Nat
      OBVIOUS
    <3> HIDE DEF Bad
    <3> QED BY <3>1, Least
  <2> DEFINE j == i - 1
  <2>3. j \in Nat /\ j + 1 = i /\ ~(i <= j) /\ (j = k \/ j > k)
    BY <1>9
  <2> HIDE DEF j
  <2>4. CASE j = k
    BY <1>3, <1>4, <1>9, <2>3, <2>4
  <2>5. CASE j > k
    <3>1. f[j] = NDX_NO_PAGE
      BY <2>2, <2>3, <2>5
    <3> QED BY <1>3, <2>3, <3>1
  <2> QED BY <2>3, <2>4, <2>5
<1>12. \A i, j \in 0 .. k : i < j => f[i] # f[j]
  <2> DEFINE Bad == {i \in 0 .. k : \E j \in 0 .. k : i < j /\ f[i] = f[j]}
  <2> SUFFICES ASSUME Bad # {} PROVE FALSE
    OBVIOUS
  <2>1. Bad \subseteq Nat
    BY <1>9
  <2>2. PICK i \in Bad : \A j \in Bad : i <= j
    <3> HIDE DEF Bad
    <3> QED BY <2>1, Least
  <2>3. PICK j \in 0 .. k : i < j /\ f[i] = f[j]
    OBVIOUS
  <2> DEFINE h == j - 1
             g == i - 1
  <2>4. h \in 0 .. k /\ h \in Nat /\ h + 1 = j /\ h < k
    BY <1>9, <2>3
  <2> HIDE DEF h
  <2>5. f[h] \in Lf /\ f[j] = nxt[f[h]]
    BY <1>3, <1>4, <1>10, <2>4
  <2>6. i # 0
    BY <1>3, <1>4, <2>3, <2>5
  <2>7. g \in 0 .. k /\ g \in Nat /\ g + 1 = i /\ g < h /\ ~(i <= g)
    BY <1>9, <2>3, <2>4, <2>6
  <2> HIDE DEF g
  <2>8. f[g] \in Lf /\ f[i] = nxt[f[g]]
    BY <1>3, <1>4, <1>10, <2>7
  <2>9. f[i] # NDX_NO_PAGE
    BY <1>4, <1>10
  <2>10. f[g] = f[h]
    BY <1>5, <2>3, <2>5, <2>8, <2>9
  <2>11. g \in Bad
    BY <2>4, <2>7, <2>10
  <2> QED BY <2>2, <2>7, <2>11
<1> DEFINE m == k + 1
           L == [i \in 1 .. m |-> f[i - 1]]
<1>13. m \in Nat /\ m >= 1 /\ \A i \in 1 .. m : i - 1 \in 0 .. k /\ i - 1 \in Nat
  BY <1>9
<1>14. L \in Seq(T) /\ Len(L) = m /\ DOMAIN L = 1 .. m /\ \A i \in 1 .. m : L[i] = f[i - 1]
  <2>1. \A i \in 1 .. m : f[i - 1] \in T
    BY <1>10, <1>13 DEF Lf
  <2> HIDE DEF m
  <2> QED BY <1>13, <2>1
<1>15. L[1] = first_leaf /\ L[m] = last
  <2>1. m - 1 = k /\ 1 - 1 = 0 /\ 1 \in 1 .. m /\ m \in 1 .. m
    BY <1>9
  <2> HIDE DEF L, m
  <2> QED BY <1>3, <1>9, <1>14, <2>1
<1> HIDE DEF L
<1>16. IsInjective(L)
  <2>1. \A i, j \in 1 .. m : L[i] = L[j] => i = j
    <3> SUFFICES ASSUME NEW i \in 1 .. m, NEW j \in 1 .. m, L[i] = L[j], i < j PROVE FALSE
      BY <1>13
    <3> QED BY <1>12, <1>13, <1>14
  <2> QED BY <1>14, <2>1 DEF IsInjective
<1>17. ASSUME NEW i \in 1 .. m PROVE nxt[L[i]] = IF i < m THEN L[i + 1] ELSE NDX_NO_PAGE
  <2> DEFINE j == i - 1
  <2>1. j \in Nat /\ j \in 0 .. k /\ j + 1 = i /\ (i < m => i + 1 \in 1 .. m /\ (i + 1) - 1 = i) /\ (~(i < m) => i = m)
    BY <1>9, <1>13
  <2>2. L[i] = f[j]
    BY <1>14
  <2> HIDE DEF j, m
  <2>3. i < m => L[i + 1] = f[i]
    BY <1>14, <2>1
  <2>4. f[i] = nxt[f[j]]
    BY <1>3, <1>4, <1>10, <2>1
  <2> QED BY <1>4, <1>15, <2>1, <2>2, <2>3, <2>4
<1>18. ASSUME NEW p \in Lf PROVE \E i \in 1 .. m : L[i] = p
  <2>1. PICK n \in Nat : f[n] = p
    BY <1>6 DEF Rest
  <2>2. ~(n > k)
    BY <1>4, <1>11, <2>1
  <2> DEFINE i == n + 1
  <2>3. i \in 1 .. m /\ i - 1 = n
    BY <1>9, <2>2
  <2> HIDE DEF i, m
  <2>4. L[i] = p
    BY <1>14, <2>1, <2>3
  <2> QED BY <2>3, <2>4
<1>19. \A i \in 1 .. m : L[i] \in Lf /\ L[i] \in Pages
  BY <1>4, <1>10, <1>13, <1>14
<1> HIDE DEF m
<1>20. LeafOrder(L, T, nxt)
  <2>1. \A p \in T : node[p].is_leaf => \E i \in 1 .. Len(L) : L[i] = p
    BY <1>14, <1>18 DEF Lf
  <2>2. \A i \in 1 .. Len(L) : L[i] \in T /\ L[i] \in Pages /\ node[L[i]].is_leaf
    BY <1>14, <1>19 DEF Lf
  <2> QED BY <1>13, <1>14, <1>15, <1>16, <1>17, <2>1, <2>2 DEF LeafOrder, last
<1> QED
  BY <1>20

-----------------------------------------------------------------------------
(* The searches.                                                           *)

LEMMA KeysAre ==
  ASSUME NEW T, NEW lev, NEW nxt, NEW fl, Index(node, hdr, work, T, lev, nxt, fl), NEW p \in Pages
  PROVE  LET s == node[p].keys IN
         /\ s \in Seq(Int) /\ Ascend(s) /\ Len(s) \in Nat /\ Len(s) = Len(node[p].rids)
         /\ DOMAIN s = 1 .. Len(s) /\ \A i \in 1 .. Len(s) : s[i] \in Int
         /\ p \notin T => s = << >> /\ Len(s) = 0
         /\ p \in T /\ (p # hdr.root_page \/ ~node[p].is_leaf) => s # << >>
         /\ s # << >> => Len(s) >= 1 /\ Last(s) = s[Len(s)] /\ 1 \in 1 .. Len(s) /\ Len(s) \in 1 .. Len(s)
<1> DEFINE s == node[p].keys
<1>1. /\ Typed(node) /\ hdr \in Header /\ Shape(T, lev, nxt) /\ Links(node, hdr.root_page, T, lev, nxt)
      /\ RingOK(node, hdr.last_leaf, T, nxt) /\ Blank(node, T) /\ Filled(node, hdr, T, work) /\ T \subseteq Pages
  BY DEF Index, Shape
<1>2. s \in Seq(Keys) /\ Len(s) = Len(node[p].rids)
  BY <1>1, PageIs
<1>3. s \in Seq(Int)
  BY <1>2, IntKeys
<1>4. p \notin T => s = << >>
  <2>1. node[NDX_LEAF_HEADER_PAGE].keys = << >>
    BY <1>1 DEF RingOK, IndexPageHeader
  <2>2. p \notin T /\ p # NDX_LEAF_HEADER_PAGE => s = << >>
    BY <1>1 DEF Blank
  <2> QED BY <2>1, <2>2
<1>5. p \in T => Ascend(s)
  BY LevelOrder DEF InOrder
<1>6. p \in T /\ p # hdr.root_page => s # << >>
  BY <1>1, NotEmpty
<1>7. p \in T /\ ~node[p].is_leaf => s # << >>
  <2> SUFFICES ASSUME p \in T, ~node[p].is_leaf PROVE s # << >>
    OBVIOUS
  <2>1. 1 \in 1 .. Len(node[p].rids)
    BY <1>1, InnerIs
  <2> QED BY <1>2, <2>1
<1> HIDE DEF s
<1>8. Ascend(s)
  <2>1. s = << >> => Ascend(s)
    BY DEF Ascend
  <2> QED BY <1>4, <1>5, <2>1
<1>9. /\ Len(s) \in Nat /\ DOMAIN s = 1 .. Len(s) /\ \A i \in 1 .. Len(s) : s[i] \in Int
      /\ s # << >> => Len(s) >= 1 /\ Last(s) = s[Len(s)] /\ 1 \in 1 .. Len(s) /\ Len(s) \in 1 .. Len(s)
      /\ s = << >> => Len(s) = 0
  BY <1>3 DEF Last
<1> QED
  BY <1>2, <1>3, <1>4, <1>6, <1>7, <1>8, <1>9 DEF s

LEMMA NoneBeforeRoot ==
  ASSUME NEW T, NEW lev, NEW nxt, Typed(node), Shape(T, lev, nxt), Links(node, hdr.root_page, T, lev, nxt)
  PROVE  \A y \in T : nxt[y] # hdr.root_page
<1> SUFFICES ASSUME NEW y \in T, nxt[y] = hdr.root_page PROVE FALSE
  OBVIOUS
<1>1. hdr.root_page \in T /\ nxt[hdr.root_page] = NDX_NO_PAGE /\ hdr.root_page # NDX_NO_PAGE
  BY InnerIs, Constants DEF Links
<1>2. lev[y] = lev[hdr.root_page] /\ lev[y] \in Nat /\ y # hdr.root_page
  BY <1>1, InnerIs
<1>3. node[y].parent \in T /\ lev[node[y].parent] = lev[y] + 1
  BY <1>2 DEF Links, ParentOK
<1>4. lev[node[y].parent] <= lev[hdr.root_page]
  BY <1>3, InnerIs
<1> QED
  BY <1>2, <1>3, <1>4

\* A key of an inner node is the greatest of its child.
LEMMA KeyIs ==
  ASSUME NEW T, NEW lev, NEW nxt, NEW fl, Index(node, hdr, work, T, lev, nxt, fl),
         NEW p \in T, ~node[p].is_leaf, NEW i \in 1 .. Len(node[p].rids)
  PROVE  node[p].keys[i] = Last(node[node[p].rids[i]].keys)
<1>1. /\ Typed(node) /\ Shape(T, lev, nxt) /\ Links(node, hdr.root_page, T, lev, nxt) /\ KeysOK(node, T, NDX_NO_PAGE)
  BY DEF Index
<1>2. node[p].rids[i] \in Pages /\ p \in Pages
  BY <1>1, ChildIs
<1>3. i \in DOMAIN node[p].rids
  BY <1>1, <1>2, PageIs
<1> QED
  BY <1>1, <1>2, <1>3, Constants DEF KeysOK

\* The greatest key of the tree is that of its last leaf.
LEMMA LastUp ==
  ASSUME NEW T, NEW lev, NEW nxt, NEW fl, Index(node, hdr, work, T, lev, nxt, fl), NEW p \in T, nxt[p] = NDX_NO_PAGE
  PROVE  Last(node[p].keys) = Last(node[hdr.root_page].keys)
<1>1. /\ Typed(node) /\ hdr \in Header /\ Shape(T, lev, nxt) /\ Links(node, hdr.root_page, T, lev, nxt)
  BY DEF Index
<1> DEFINE K == lev[hdr.root_page]
           rank == [q \in T |-> K - lev[q]]
           Bad == {q \in T : nxt[q] = NDX_NO_PAGE /\ Last(node[q].keys) # Last(node[hdr.root_page].keys)}
<1>2. Bad = {}
  <2> SUFFICES ASSUME Bad # {} PROVE FALSE
    OBVIOUS
  <2>0. \A q \in T : lev[q] \in Nat /\ K \in Nat /\ lev[q] <= K
    BY <1>1, InnerIs
  <2>1. \A q \in Bad : rank[q] \in Nat
    BY <2>0
  <2>2. PICK q \in Bad : \A y \in Bad : rank[q] <= rank[y]
    <3> HIDE DEF Bad, rank
    <3> QED BY <2>1, LeastRank
  <2>3. q \in T /\ nxt[q] = NDX_NO_PAGE /\ q # hdr.root_page
    OBVIOUS
  <2> DEFINE x == node[q].parent
             c == Len(node[x].rids)
  <2>4. x \in T /\ ~node[x].is_leaf /\ lev[x] = lev[q] + 1 /\ q \in ToSet(node[x].rids)
    BY <1>1, <2>3 DEF Links, ParentOK
  <2> HIDE DEF Bad
  <2>5. x \in Pages /\ c \in Nat /\ node[x].rids \in Seq(Pages)
    <3>1. x \in Pages
      BY <1>1, <2>4, InnerIs
    <3> QED BY <1>1, <2>4, <3>1, PageIs
  <2>6. PICK j \in 1 .. c : node[x].rids[j] = q
    BY <2>4, <2>5, InToSet
  <2> HIDE DEF x
  <2>7. nxt[q] = IF j < c THEN node[x].rids[j + 1] ELSE FirstOfNext(node, nxt, x)
    BY <1>1, <2>4, <2>6, ChildIs
  <2>8. ~(j < c)
    <3> SUFFICES ASSUME j < c PROVE FALSE
      OBVIOUS
    <3> DEFINE k == j + 1
    <3>1. k \in 1 .. Len(node[x].rids)
      BY <2>5
    <3> HIDE DEF k
    <3>2. node[x].rids[k] \in Pages
      BY <1>1, <2>4, <3>1, ChildIs
    <3> QED BY <2>3, <2>7, <3>2, Constants DEF k
  <2>9. nxt[x] = NDX_NO_PAGE
    <3> SUFFICES ASSUME nxt[x] # NDX_NO_PAGE PROVE FALSE
      OBVIOUS
    <3> DEFINE z == nxt[x]
    <3>1. z \in T /\ ~node[z].is_leaf
      <4>1. z \in T /\ lev[z] = lev[x]
        BY <1>1, <2>4, InnerIs
      <4> QED BY <1>1, <2>4, <4>1, InnerIs
    <3>2. 1 \in 1 .. Len(node[z].rids)
      BY <1>1, <3>1, InnerIs
    <3>3. node[z].rids[1] \in Pages
      BY <1>1, <3>1, <3>2, ChildIs
    <3> QED BY <2>3, <2>7, <2>8, <3>3, Constants DEF FirstOfNext
  <2>10. node[x].keys[j] = Last(node[q].keys)
    BY <2>4, <2>6, KeyIs
  <2>11. Last(node[x].keys) = node[x].keys[j]
    <3>1. j = c
      BY <2>5, <2>8
    <3>2. node[x].keys # << >> /\ Last(node[x].keys) = node[x].keys[Len(node[x].keys)] /\ Len(node[x].keys) = c
      BY <2>4, <2>5, KeysAre
    <3> QED BY <3>1, <3>2
  <2>12. ~(rank[q] <= rank[x])
    <3>1. rank[q] = K - lev[q] /\ rank[x] = K - lev[x]
      BY <2>3, <2>4
    <3> HIDE DEF rank, K
    <3> QED BY <2>0, <2>3, <2>4, <3>1
  <2>13. x \notin Bad
    <3> HIDE DEF rank
    <3> QED BY <2>2, <2>12
  <2>14. Last(node[x].keys) = Last(node[hdr.root_page].keys)
    BY <2>4, <2>9, <2>13 DEF Bad
  <2> QED BY <2>10, <2>11, <2>14 DEF Bad
<1> QED
  BY <1>2

\* The place of the first key that is not in B, or the end of the leaves.
CutAt(T, nxt, B, q, s) ==
  /\ q \in T /\ node[q].is_leaf /\ s \in 0 .. Len(node[q].keys)
  /\ \A j \in 1 .. Len(node[q].keys) : node[q].keys[j] \in B <=> j <= s
  /\ \A y \in T : nxt[y] = q => Last(node[y].keys) \in B
  /\ s = Len(node[q].keys) => q = hdr.last_leaf

\* Where the search of every node ends.
Slots(slot, B) ==
  \A p \in Pages : /\ slot[p] \in 0 .. Len(node[p].keys)
                   /\ \A i \in 1 .. Len(node[p].keys) : node[p].keys[i] \in B <=> i <= slot[p]

LEMMA EndIs ==
  ASSUME NEW T, NEW lev, NEW nxt, NEW fl, Index(node, hdr, work, T, lev, nxt, fl),
         NEW B, DownTo(B), NEW slot, Slots(slot, B),
         slot[hdr.root_page] = Len(node[hdr.root_page].keys)
  PROVE  CutAt(T, nxt, B, hdr.last_leaf, Len(node[hdr.last_leaf].keys))
<1>1. /\ Typed(node) /\ hdr \in Header /\ Shape(T, lev, nxt) /\ Links(node, hdr.root_page, T, lev, nxt)
      /\ RingOK(node, hdr.last_leaf, T, nxt)
  BY DEF Index
<1> DEFINE q == hdr.last_leaf
           root == hdr.root_page
           m == Len(node[q].keys)
<1>2. q \in T /\ node[q].is_leaf /\ nxt[q] = NDX_NO_PAGE /\ q \in Pages /\ root \in T /\ root \in Pages
  BY <1>1, InnerIs DEF RingOK, Links
<1>3. m \in Nat /\ \A i \in 1 .. m : node[q].keys[i] \in Int
  BY <1>2, KeysAre
<1>4. \A j \in 1 .. m : node[q].keys[j] \in B
  <2>1. CASE q = root
    BY <1>2, <1>3, <2>1 DEF Slots
  <2>2. CASE q # root
    <3>1. node[q].keys # << >> /\ Last(node[q].keys) = node[q].keys[m] /\ m \in 1 .. m /\ Ascend(node[q].keys)
          /\ DOMAIN node[q].keys = 1 .. m
      BY <1>2, <2>2, KeysAre
    <3>2. ~node[root].is_leaf
      <4>1. lev[q] = 0 /\ node[q].parent \in T /\ lev[node[q].parent] = lev[q] + 1
        BY <1>1, <1>2, <2>2 DEF Links, ParentOK
      <4>2. lev[root] # 0
        <5>1. lev[node[q].parent] <= lev[root]
          BY <1>1, <4>1, InnerIs
        <5> QED BY <4>1, <5>1
      <4> QED BY <1>1, <1>2, <4>2, InnerIs
    <3>3. Last(node[root].keys) \in B
      <4> DEFINE n == Len(node[root].keys)
      <4>1. Last(node[root].keys) = node[root].keys[n] /\ n \in 1 .. n /\ n \in Nat
        BY <1>2, <3>2, KeysAre
      <4>2. n <= slot[root]
        BY <4>1
      <4> QED BY <1>2, <4>1, <4>2 DEF Slots
    <3>4. node[q].keys[m] \in B
      BY <1>2, <3>1, <3>3, LastUp
    <3> SUFFICES ASSUME NEW j \in 1 .. m PROVE node[q].keys[j] \in B
      OBVIOUS
    <3>5. j = m \/ j < m
      BY <1>3
    <3>6. j < m => node[q].keys[j] <= node[q].keys[m]
      BY <3>1 DEF Ascend
    <3>7. node[q].keys[j] \in Int /\ node[q].keys[m] \in Int
      BY <1>3, <3>1
    <3> QED BY <3>4, <3>5, <3>6, <3>7 DEF DownTo
  <2> QED BY <2>1, <2>2
<1>5. ASSUME NEW y \in T, nxt[y] = q PROVE Last(node[y].keys) \in B
  <2>1. q # root
    BY <1>1, <1>5, NoneBeforeRoot
  <2>2. y # root /\ y \in Pages /\ q # NDX_NO_PAGE
    <3>1. y \in Pages /\ q # NDX_NO_PAGE
      BY <1>1, <1>2, InnerIs, Constants
    <3> QED BY <1>1, <1>5, <3>1 DEF Links
  <2>3. node[q].keys[1] \in B /\ node[q].keys[1] \in Int
    <3>1. 1 \in 1 .. m
      BY <1>2, <2>1, KeysAre
    <3> QED BY <1>3, <1>4, <3>1
  <2>4. Last(node[y].keys) \in Int
    <3> DEFINE n == Len(node[y].keys)
    <3>1. Last(node[y].keys) = node[y].keys[n] /\ n \in 1 .. n /\ \A i \in 1 .. n : node[y].keys[i] \in Int
      BY <2>2, KeysAre
    <3> QED BY <3>1
  <2>5. InOrder(nxt, y)
    BY LevelOrder
  <2>6. Last(node[y].keys) <= node[q].keys[1]
    BY <1>5, <2>2, <2>5 DEF InOrder
  <2> QED BY <2>3, <2>4, <2>6 DEF DownTo
<1>6. m \in 0 .. m /\ \A j \in 1 .. m : j <= m
  BY <1>3
<1> QED
  BY <1>2, <1>4, <1>5, <1>6 DEF CutAt

\* The recursion of Search.
FromOf(slot, from) ==
  [p \in Pages |->
     LET found == slot[p] < Len(node[p].keys) IN
     IF ~node[p].is_leaf
     THEN IF found THEN from[node[p].rids[slot[p] + 1]] ELSE LeafEnd
     ELSE IF found THEN <<p, slot[p]>>
          ELSE IF node[p].next_leaf \in {NDX_LEAF_HEADER_PAGE, NDX_NO_PAGE} THEN LeafEnd
               ELSE <<node[p].next_leaf, 0>>]

LEMMA FromExists ==
  ASSUME NEW T, NEW lev, NEW nxt, NEW fl, Index(node, hdr, work, T, lev, nxt, fl),
         NEW slot, NEW B, Slots(slot, B)
  PROVE  \E from : from = FromOf(slot, from)
<1> DEFINE S == Pages
           V == Pages \X Nat
           Down(p) == ~node[p].is_leaf /\ slot[p] < Len(node[p].keys)
           child(p) == node[p].rids[slot[p] + 1]
           Here(p) == IF node[p].is_leaf /\ slot[p] < Len(node[p].keys) THEN <<p, slot[p]>>
                      ELSE IF ~node[p].is_leaf \/ node[p].next_leaf \in {NDX_LEAF_HEADER_PAGE, NDX_NO_PAGE}
                           THEN LeafEnd ELSE <<node[p].next_leaf, 0>>
           G == [a \in S \X [S -> V] |-> IF Down(a[1]) THEN a[2][child(a[1])] ELSE Here(a[1])]
<1>1. /\ Typed(node) /\ hdr \in Header /\ Shape(T, lev, nxt) /\ Links(node, hdr.root_page, T, lev, nxt)
      /\ lev \in [Pages -> Nat]
  BY DEF Index, Shape
<1>2. LeafEnd \in V
  <2>1. hdr.last_leaf \in Pages
    BY <1>1 DEF Header
  <2>2. Len(node[hdr.last_leaf].keys) \in Nat
    BY <2>1, KeysAre
  <2> QED BY <2>1, <2>2 DEF LeafEnd
<1>3. \A p \in Pages : slot[p] \in Nat /\ node[p].next_leaf \in PageOrNone
  <2>1. \A p \in Pages : node[p].next_leaf \in PageOrNone
    BY <1>1, PageIs
  <2> QED BY <2>1 DEF Slots
<1>4. \A p \in Pages : Here(p) \in V
  BY <1>2, <1>3 DEF PageOrNone
<1>5. ASSUME NEW p \in Pages, Down(p) PROVE child(p) \in Pages /\ lev[child(p)] < lev[p]
  <2> DEFINE i == slot[p] + 1
  <2>1. Len(node[p].keys) \in Nat /\ Len(node[p].keys) = Len(node[p].rids) /\ (p \notin T => Len(node[p].keys) = 0)
    BY KeysAre
  <2>2. i \in 1 .. Len(node[p].rids) /\ p \in T
    BY <1>3, <1>5, <2>1
  <2> HIDE DEF i
  <2>3. node[p].rids[i] \in Pages /\ lev[p] = lev[node[p].rids[i]] + 1 /\ lev[node[p].rids[i]] \in Nat
    BY <1>1, <1>5, <2>2, ChildIs
  <2>4. child(p) = node[p].rids[i]
    BY DEF i
  <2> HIDE DEF child
  <2> QED BY <2>3, <2>4
<1> HIDE DEF Down, child, Here
<1>6. ASSUME NEW p \in S, NEW f \in [S -> V]
      PROVE  G[<<p, f>>] = IF Down(p) THEN f[child(p)] ELSE Here(p)
  OBVIOUS
<1>7. G \in [S \X [S -> V] -> V]
  <2> SUFFICES ASSUME NEW a \in S \X [S -> V]
               PROVE  (IF Down(a[1]) THEN a[2][child(a[1])] ELSE Here(a[1])) \in V
    OBVIOUS
  <2>1. a[1] \in Pages /\ a[2] \in [Pages -> V]
    OBVIOUS
  <2> HIDE DEF V
  <2> QED BY <1>4, <1>5, <2>1
<1>8. Below(S, V, lev, G)
  <2> SUFFICES ASSUME NEW x \in S, NEW f \in [S -> V], NEW g \in [S -> V],
                      \A y \in S : lev[y] < lev[x] => f[y] = g[y]
               PROVE  G[<<x, f>>] = G[<<x, g>>]
    BY DEF Below
  <2>1. Down(x) => f[child(x)] = g[child(x)]
    BY <1>5
  <2>2. G[<<x, f>>] = IF Down(x) THEN f[child(x)] ELSE Here(x)
    BY <1>6
  <2>3. G[<<x, g>>] = IF Down(x) THEN g[child(x)] ELSE Here(x)
    BY <1>6
  <2> HIDE DEF G
  <2> QED BY <2>1, <2>2, <2>3
<1> HIDE DEF G, S, V
<1>9. V # {}
  BY <1>2
<1>10. Recurs(S, V, lev, G)
  BY <1>1, <1>7, <1>8, <1>9 DEF Recurs, S
<1>11. \E f \in [S -> V] : f = [x \in S |-> G[<<x, f>>]]
  BY <1>10, Recursion
<1> USE DEF S
<1>12. PICK f \in [S -> V] : f = [x \in S |-> G[<<x, f>>]]
  BY <1>11
<1>13. \A p \in Pages : f[p] = G[<<p, f>>]
  BY <1>12
<1>14. \A p \in Pages : f[p] = IF Down(p) THEN f[child(p)] ELSE Here(p)
  BY <1>6, <1>13
<1>15. f = [p \in Pages |-> f[p]]
  BY <1>12
<1>16. f = [p \in Pages |-> IF Down(p) THEN f[child(p)] ELSE Here(p)]
  BY <1>14, <1>15
<1>17. FromOf(slot, f) = [p \in Pages |-> IF Down(p) THEN f[child(p)] ELSE Here(p)]
  BY DEF FromOf, Down, child, Here
<1> QED
  BY <1>16, <1>17

LEMMA SearchIs ==
  ASSUME NEW T, NEW lev, NEW nxt, NEW fl, Index(node, hdr, work, T, lev, nxt, fl),
         NEW B, DownTo(B), NEW slot, Slots(slot, B)
  PROVE  \E q \in Pages, s \in Nat : Search(slot) = <<q, s>> /\ CutAt(T, nxt, B, q, s)
<1>1. /\ Typed(node) /\ hdr \in Header /\ Shape(T, lev, nxt) /\ Links(node, hdr.root_page, T, lev, nxt)
      /\ RingOK(node, hdr.last_leaf, T, nxt)
  BY DEF Index
<1> DEFINE from == CHOOSE f : f = FromOf(slot, f)
           root == hdr.root_page
<1>2. Search(slot) = from[root]
  BY DEF Search, FromOf
<1>3. from = FromOf(slot, from)
  <2>1. \E f : f = FromOf(slot, f)
    BY FromExists
  <2> QED BY <2>1
<1> HIDE DEF from
<1>4. \A p \in Pages :
        LET found == slot[p] < Len(node[p].keys) IN
        /\ ~node[p].is_leaf /\ found => from[p] = from[node[p].rids[slot[p] + 1]]
        /\ ~node[p].is_leaf /\ ~found => from[p] = LeafEnd
        /\ node[p].is_leaf /\ found => from[p] = <<p, slot[p]>>
        /\ node[p].is_leaf /\ ~found /\ node[p].next_leaf = NDX_LEAF_HEADER_PAGE => from[p] = LeafEnd
  BY <1>3 DEF FromOf
<1>5. root \in T /\ root \in Pages /\ nxt[root] = NDX_NO_PAGE
  BY <1>1, InnerIs DEF Links
<1>6. \A p \in Pages : slot[p] \in Nat /\ Len(node[p].keys) \in Nat /\ slot[p] <= Len(node[p].keys)
  BY KeysAre DEF Slots
\* Where the search goes down.
<1> DEFINE Left(p) == \A y \in T : nxt[y] = p => Last(node[y].keys) \in B
           Good(p) == \E q \in Pages, s \in Nat : from[p] = <<q, s>> /\ CutAt(T, nxt, B, q, s)
           Bad == {p \in T : slot[p] < Len(node[p].keys) /\ Left(p) /\ ~Good(p)}
<1>7. Bad = {}
  <2> SUFFICES ASSUME Bad # {} PROVE FALSE
    OBVIOUS
  <2>1. \A p \in Bad : lev[p] \in Nat
    BY <1>1, InnerIs
  <2>2. PICK p \in Bad : \A y \in Bad : lev[p] <= lev[y]
    <3> HIDE DEF Bad
    <3> QED BY <2>1, LeastRank
  <2>3. p \in T /\ p \in Pages /\ slot[p] < Len(node[p].keys) /\ Left(p) /\ ~Good(p)
    BY <1>1, InnerIs
  <2> HIDE DEF Bad
  <2>4. CASE node[p].is_leaf
    <3> DEFINE s == slot[p]
    <3>1. from[p] = <<p, s>> /\ s \in Nat
      BY <1>4, <1>6, <2>3, <2>4
    <3>2. s \in 0 .. Len(node[p].keys) /\ (\A j \in 1 .. Len(node[p].keys) : node[p].keys[j] \in B <=> j <= s)
      BY <2>3 DEF Slots
    <3>3. s # Len(node[p].keys)
      BY <1>6, <2>3
    <3> HIDE DEF s
    <3>4. CutAt(T, nxt, B, p, s)
      BY <2>3, <2>4, <3>2, <3>3 DEF CutAt
    <3> QED BY <2>3, <3>1, <3>4
  <2>5. CASE ~node[p].is_leaf
    <3> DEFINE s == slot[p]
               i == s + 1
               c == node[p].rids[i]
               m == Len(node[p].keys)
    <3>1. m \in Nat /\ Len(node[p].rids) = m
      BY <2>3, KeysAre
    <3>2. i \in 1 .. m /\ ~(i <= s) /\ s \in Nat /\ (s > 0 => s \in 1 .. m /\ i > 1 /\ i - 1 = s) /\ (~(s > 0) => i = 1)
      BY <1>6, <2>3, <3>1
    <3>3. node[p].keys[i] \notin B /\ (s > 0 => node[p].keys[s] \in B)
      BY <2>3, <3>2 DEF Slots
    <3>4. from[p] = from[c]
      BY <1>4, <2>3, <2>5
    <3> HIDE DEF s, m, i
    <3>5. c \in T /\ c \in Pages /\ c # root /\ lev[p] = lev[c] + 1 /\ lev[c] \in Nat
      BY <1>1, <2>3, <2>5, <3>1, <3>2, ChildIs
    <3>6. node[p].keys[i] = Last(node[c].keys)
      BY <2>3, <2>5, <3>1, <3>2, KeyIs
    <3>7. slot[c] < Len(node[c].keys)
      <4> DEFINE n == Len(node[c].keys)
      <4>1. Last(node[c].keys) = node[c].keys[n] /\ n \in 1 .. n /\ n \in Nat
        BY <3>5, KeysAre
      <4>2. ~(n <= slot[c])
        BY <3>3, <3>5, <3>6, <4>1 DEF Slots
      <4> HIDE DEF n
      <4>3. slot[c] \in Nat
        BY <1>6, <3>5
      <4> QED BY <4>1, <4>2, <4>3 DEF n
    <3>8. ASSUME NEW y \in T, nxt[y] = c PROVE Last(node[y].keys) \in B
      <4>1. nxt[y] # NDX_NO_PAGE /\ node[p].rids[i] = nxt[y] /\ i \in 1 .. Len(node[p].rids)
        BY <3>1, <3>2, <3>5, <3>8, Constants
      <4>2. LET x == node[y].parent IN
            /\ i > 1 => y = node[p].rids[i - 1]
            /\ i = 1 => x \in T /\ ~node[x].is_leaf /\ nxt[x] = p /\ y = node[x].rids[Len(node[x].rids)]
        BY <1>1, <2>3, <2>5, <4>1, NeighboursAre
      <4>3. CASE s > 0
        <5>1. y = node[p].rids[s] /\ s \in 1 .. Len(node[p].rids)
          BY <3>1, <3>2, <4>2, <4>3
        <5>2. node[p].keys[s] = Last(node[y].keys)
          BY <2>3, <2>5, <5>1, KeyIs
        <5> QED BY <3>3, <4>3, <5>2
      <4>4. CASE ~(s > 0)
        <5> DEFINE x == node[y].parent
                   k == Len(node[x].rids)
        <5>1. x \in T /\ ~node[x].is_leaf /\ nxt[x] = p /\ y = node[x].rids[k]
          BY <3>2, <4>2, <4>4
        <5>2. Last(node[x].keys) \in B
          BY <2>3, <5>1
        <5> HIDE DEF x
        <5>3. x \in Pages /\ k \in 1 .. k
          BY <1>1, <5>1, InnerIs
        <5>4. Last(node[x].keys) = node[x].keys[k]
          <6>1. node[x].keys # << >> /\ Last(node[x].keys) = node[x].keys[Len(node[x].keys)] /\ Len(node[x].keys) = k
            BY <5>1, <5>3, KeysAre
          <6> QED BY <6>1
        <5>5. node[x].keys[k] = Last(node[y].keys)
          BY <5>1, <5>3, KeyIs
        <5> QED BY <5>2, <5>4, <5>5
      <4> QED BY <4>3, <4>4
    <3>9. c \notin Bad
      BY <2>2, <3>5
    <3>10. Good(c)
      BY <3>5, <3>7, <3>8, <3>9 DEF Bad
    <3> QED BY <2>3, <3>4, <3>10
  <2> QED BY <2>4, <2>5
<1>8. CASE slot[root] < Len(node[root].keys)
  <2>1. Left(root)
    BY <1>1, NoneBeforeRoot
  <2>2. Good(root)
    BY <1>5, <1>7, <1>8, <2>1
  <2> QED BY <1>2, <2>2
<1>9. CASE ~(slot[root] < Len(node[root].keys))
  <2>1. slot[root] = Len(node[root].keys)
    BY <1>5, <1>6, <1>9
  <2>2. node[root].is_leaf => node[root].next_leaf = NDX_LEAF_HEADER_PAGE
    BY <1>1, <1>5 DEF RingOK, LeafOK
  <2>3. from[root] = LeafEnd
    BY <1>4, <1>5, <1>9, <2>2
  <2>4. CutAt(T, nxt, B, hdr.last_leaf, Len(node[hdr.last_leaf].keys))
    BY <2>1, EndIs
  <2>5. hdr.last_leaf \in Pages
    BY <1>1 DEF Header
  <2>6. Len(node[hdr.last_leaf].keys) \in Nat
    BY <2>5, KeysAre
  <2> QED BY <1>2, <2>3, <2>4, <2>5, <2>6 DEF LeafEnd
<1> QED
  BY <1>8, <1>9

\* The keys less than k, and those not greater.
Less(k) == {x \in Int : x < k}
AtMost(k) == {x \in Int : x <= k}

LEMMA BoundsCut ==
  ASSUME NEW T, NEW lev, NEW nxt, NEW fl, Index(node, hdr, work, T, lev, nxt, fl), NEW k \in Int
  PROVE  /\ \E q \in Pages, s \in Nat : LowerBound(k) = <<q, s>> /\ CutAt(T, nxt, Less(k), q, s)
         /\ \E q \in Pages, s \in Nat : UpperBound(k) = <<q, s>> /\ CutAt(T, nxt, AtMost(k), q, s)
<1>1. DownTo(Less(k)) /\ DownTo(AtMost(k))
  BY DEF DownTo, Less, AtMost
<1> DEFINE lo == [p \in Pages |-> NodeLowerBound(node[p], k)]
           up == [p \in Pages |-> NodeUpperBound(node[p], k)]
<1>2. ASSUME NEW p \in Pages, NEW B, DownTo(B), NEW n, n = Cardinality({i \in DOMAIN node[p].keys : node[p].keys[i] \in B})
      PROVE  n \in 0 .. Len(node[p].keys) /\ \A i \in 1 .. Len(node[p].keys) : node[p].keys[i] \in B <=> i <= n
  <2>1. node[p].keys \in Seq(Int) /\ Ascend(node[p].keys)
    BY KeysAre
  <2> QED BY <1>2, <2>1, SlotIs
<1>3. ASSUME NEW p \in Pages
      PROVE  /\ lo[p] = Cardinality({i \in DOMAIN node[p].keys : node[p].keys[i] \in Less(k)})
             /\ up[p] = Cardinality({i \in DOMAIN node[p].keys : node[p].keys[i] \in AtMost(k)})
  <2>1. DOMAIN node[p].keys = 1 .. Len(node[p].keys) /\ \A i \in 1 .. Len(node[p].keys) : node[p].keys[i] \in Int
    BY KeysAre
  <2>2. /\ {i \in DOMAIN node[p].keys : node[p].keys[i] < k} = {i \in DOMAIN node[p].keys : node[p].keys[i] \in Less(k)}
        /\ {i \in DOMAIN node[p].keys : node[p].keys[i] <= k} = {i \in DOMAIN node[p].keys : node[p].keys[i] \in AtMost(k)}
    BY <2>1 DEF Less, AtMost
  <2> QED BY <2>2 DEF NodeLowerBound, NodeUpperBound
<1>4. LowerBound(k) = Search(lo) /\ UpperBound(k) = Search(up)
  BY DEF LowerBound, UpperBound
<1> HIDE DEF lo, up
<1>5. Slots(lo, Less(k)) /\ Slots(up, AtMost(k))
  BY <1>1, <1>2, <1>3 DEF Slots
<1> QED
  BY <1>1, <1>4, <1>5, SearchIs

-----------------------------------------------------------------------------
(* The scans.                                                              *)

\* A leaf with a neighbour has entries.
LEMMA LeafKeys ==
  ASSUME NEW T, NEW lev, NEW nxt, NEW fl, Index(node, hdr, work, T, lev, nxt, fl),
         NEW L, LeafOrder(L, T, nxt), NEW a \in 1 .. Len(L)
  PROVE  LET s == node[L[a]].keys IN
         /\ Len(s) \in Nat /\ Ascend(s) /\ DOMAIN s = 1 .. Len(s) /\ \A i \in 1 .. Len(s) : s[i] \in Int
         /\ Len(L) > 1 => /\ Len(s) >= 1 /\ 1 \in 1 .. Len(s) /\ Len(s) \in 1 .. Len(s)
                          /\ Last(s) = s[Len(s)]
         /\ a < Len(L) => Last(s) <= node[L[a + 1]].keys[1] /\ L[a + 1] # hdr.root_page
<1>1. /\ Typed(node) /\ hdr \in Header /\ Shape(T, lev, nxt) /\ Links(node, hdr.root_page, T, lev, nxt)
  BY DEF Index
<1>2. /\ \A i \in 1 .. Len(L) : L[i] \in T /\ L[i] \in Pages /\ node[L[i]].is_leaf
      /\ \A i \in 1 .. Len(L) : nxt[L[i]] = IF i < Len(L) THEN L[i + 1] ELSE NDX_NO_PAGE
      /\ Len(L) \in Nat
  BY DEF LeafOrder
<1> DEFINE s == node[L[a]].keys
           root == hdr.root_page
<1>3. Len(s) \in Nat /\ Ascend(s) /\ DOMAIN s = 1 .. Len(s) /\ \A i \in 1 .. Len(s) : s[i] \in Int
  BY <1>2, KeysAre
<1>4. a < Len(L) => L[a] # root /\ L[a + 1] # root /\ nxt[L[a]] = L[a + 1] /\ L[a + 1] \in Pages
  <2> SUFFICES ASSUME a < Len(L) PROVE L[a] # root /\ L[a + 1] # root /\ nxt[L[a]] = L[a + 1] /\ L[a + 1] \in Pages
    OBVIOUS
  <2>1. a + 1 \in 1 .. Len(L) /\ nxt[L[a]] = L[a + 1] /\ L[a] \in T
    BY <1>2
  <2>2. L[a + 1] \in Pages /\ nxt[L[a]] # NDX_NO_PAGE
    BY <1>2, <2>1, Constants
  <2> QED BY <1>1, <2>1, <2>2, NoneBeforeRoot DEF Links
<1>5. a > 1 => L[a] # root
  <2> SUFFICES ASSUME a > 1 PROVE L[a] # root
    OBVIOUS
  <2> DEFINE b == a - 1
  <2>1. b \in 1 .. Len(L) /\ b < Len(L) /\ b + 1 = a
    BY <1>2
  <2> HIDE DEF b
  <2>2. nxt[L[b]] = L[a] /\ L[b] \in T
    BY <1>2, <2>1
  <2> QED BY <1>1, <2>2, NoneBeforeRoot
<1>6. Len(L) > 1 => L[a] # root
  BY <1>2, <1>4, <1>5
<1>7. Len(L) > 1 => /\ Len(s) >= 1 /\ 1 \in 1 .. Len(s) /\ Len(s) \in 1 .. Len(s)
                    /\ Last(s) = s[Len(s)]
  BY <1>2, <1>6, KeysAre
<1>8. a < Len(L) => Last(s) <= node[L[a + 1]].keys[1]
  <2> SUFFICES ASSUME a < Len(L) PROVE Last(s) <= node[L[a + 1]].keys[1]
    OBVIOUS
  <2>1. InOrder(nxt, L[a])
    BY <1>2, LevelOrder
  <2> QED BY <1>4, <2>1, Constants DEF InOrder
<1> QED
  BY <1>3, <1>4, <1>7, <1>8

LEMMA LeavesAscend ==
  ASSUME NEW T, NEW lev, NEW nxt, NEW fl, Index(node, hdr, work, T, lev, nxt, fl),
         NEW L, LeafOrder(L, T, nxt), NEW a \in 1 .. Len(L), NEW j \in 1 .. Len(node[L[a]].keys)
  PROVE  \A c \in 1 .. Len(L) : a <= c => node[L[a]].keys[j] <= Last(node[L[c]].keys)
<1> DEFINE m == Len(L)
           x == node[L[a]].keys[j]
           Bad == {c \in 1 .. m : a <= c /\ ~(x <= Last(node[L[c]].keys))}
<1>1. m \in Nat /\ a \in 1 .. m
  BY DEF LeafOrder
<1> HIDE DEF m
<1> SUFFICES ASSUME Bad # {} PROVE FALSE
  BY DEF m
<1>2. Bad \subseteq Nat
  BY <1>1
<1>3. PICK c \in Bad : \A d \in Bad : c <= d
  <2> HIDE DEF Bad
  <2> QED BY <1>2, Least
<1>4. c \in 1 .. m /\ a <= c /\ ~(x <= Last(node[L[c]].keys))
  OBVIOUS
<1>5. x \in Int
  BY LeafKeys
<1>6. CASE c = a
  <2> DEFINE s == node[L[a]].keys
             n == Len(s)
  <2>1. n \in Nat /\ Ascend(s) /\ DOMAIN s = 1 .. n /\ j \in 1 .. n /\ s[n] \in Int
    <3>1. n \in Nat /\ Ascend(s) /\ DOMAIN s = 1 .. n /\ j \in 1 .. n /\ \A i \in 1 .. n : s[i] \in Int
      BY LeafKeys
    <3>2. n \in 1 .. n
      BY <3>1
    <3> QED BY <3>1, <3>2
  <2>2. Last(s) = s[n]
    BY DEF Last
  <2> HIDE DEF s, n
  <2>3. n \in DOMAIN s /\ j \in DOMAIN s /\ (j < n \/ j = n)
    BY <2>1
  <2>4. s[j] <= s[n]
    BY <2>1, <2>3, <1>5 DEF Ascend, s
  <2> QED BY <1>4, <1>6, <2>2, <2>4 DEF s
<1>7. CASE c # a
  <2> DEFINE d == c - 1
  <2>1. d \in 1 .. m /\ a <= d /\ d + 1 = c /\ ~(c <= d) /\ d < m /\ m > 1
    BY <1>1, <1>4, <1>7
  <2> HIDE DEF d
  <2>2. x <= Last(node[L[d]].keys)
    BY <1>3, <2>1
  <2>3. Last(node[L[d]].keys) <= node[L[c]].keys[1] /\ Last(node[L[d]].keys) \in Int
    <3> DEFINE s == node[L[d]].keys
    <3>1. Last(s) <= node[L[d + 1]].keys[1] /\ Last(s) = s[Len(s)] /\ Len(s) \in 1 .. Len(s) /\ \A i \in 1 .. Len(s) : s[i] \in Int
      BY <2>1, LeafKeys DEF m
    <3> QED BY <2>1, <3>1
  <2>4. /\ node[L[c]].keys[1] <= Last(node[L[c]].keys)
        /\ node[L[c]].keys[1] \in Int /\ Last(node[L[c]].keys) \in Int
    <3> DEFINE s == node[L[c]].keys
               n == Len(s)
    <3>1. /\ n \in Nat /\ n >= 1 /\ 1 \in 1 .. n /\ n \in 1 .. n /\ Last(s) = s[n]
          /\ Ascend(s) /\ DOMAIN s = 1 .. n /\ \A i \in 1 .. n : s[i] \in Int
      BY <1>4, <2>1, LeafKeys DEF m
    <3> HIDE DEF s, n
    <3>2. s[1] <= s[n] /\ s[1] \in Int /\ s[n] \in Int
      BY SMTT(30), <3>1 DEF Ascend
    <3> QED BY <3>1, <3>2 DEF s
  <2> QED BY <1>4, <1>5, <2>2, <2>3, <2>4
<1> QED
  BY <1>6, <1>7

\* A place on a scan that ends at slot t of the leaf b.
OnScan(L, b, t, iid) ==
  \E a \in 1 .. Len(L), s \in Nat :
    /\ iid = <<L[a], s>>
    /\ s < Len(node[L[a]].keys) \/ (a = Len(L) /\ s = Len(node[L[a]].keys))
    /\ a < b \/ (a = b /\ s <= t)

\* The place of an entry.
Entered(T, iid) ==
  \E q \in T, s \in Nat : iid = <<q, s>> /\ node[q].is_leaf /\ s + 1 \in 1 .. Len(node[q].keys)

LEMMA NextIs ==
  ASSUME NEW T, NEW lev, NEW nxt, NEW fl, Index(node, hdr, work, T, lev, nxt, fl),
         NEW L, LeafOrder(L, T, nxt), NEW b \in 1 .. Len(L), NEW t \in Nat, t <= Len(node[L[b]].keys),
         t = Len(node[L[b]].keys) => b = Len(L),
         NEW iid, OnScan(L, b, t, iid), iid # <<L[b], t>>
  PROVE  Entered(T, iid) /\ OnScan(L, b, t, NextID(iid))
<1> DEFINE m == Len(L)
<1>1. PICK a \in 1 .. m, s \in Nat : /\ iid = <<L[a], s>>
                                     /\ s < Len(node[L[a]].keys) \/ (a = m /\ s = Len(node[L[a]].keys))
                                     /\ a < b \/ (a = b /\ s <= t)
  BY DEF OnScan
<1> DEFINE k == Len(node[L[a]].keys)
           e == Len(node[L[b]].keys)
<1>2. /\ m \in Nat /\ L[a] \in T /\ node[L[a]].is_leaf /\ L[m] = hdr.last_leaf
      /\ nxt[L[a]] = IF a < m THEN L[a + 1] ELSE NDX_NO_PAGE
      /\ \A i \in 1 .. m : L[i] \in T /\ L[i] \in Pages
  BY DEF LeafOrder
<1>3. k \in Nat /\ e \in Nat /\ (a = b => k = e)
  BY LeafKeys
<1>4. t <= e /\ (t = e => b = m) /\ b \in 1 .. m /\ (a = b => s # t)
  BY <1>1
<1> HIDE DEF k, e, m
<1>5. s < k /\ (a = b => s < t)
  BY <1>1, <1>2, <1>3, <1>4 DEF k
<1>6. Entered(T, iid)
  <2>1. s + 1 \in 1 .. k
    BY <1>3, <1>5
  <2> QED BY <1>1, <1>2, <2>1 DEF Entered, k
<1>7. node[L[a]].next_leaf = IF a < m THEN L[a + 1] ELSE NDX_LEAF_HEADER_PAGE
  <2>1. RingOK(node, hdr.last_leaf, T, nxt)
    BY DEF Index
  <2>2. LeafOK(node, hdr.last_leaf, T, nxt, L[a])
    BY <1>2, <2>1 DEF RingOK
  <2>3. a < m => L[a + 1] # NDX_NO_PAGE
    <3> SUFFICES ASSUME a < m PROVE L[a + 1] # NDX_NO_PAGE
      OBVIOUS
    <3>1. a + 1 \in 1 .. m
      BY <1>2
    <3> QED BY <1>2, <3>1, Constants
  <2> QED BY <1>2, <2>2, <2>3 DEF LeafOK
<1>8. NextID(iid) = IF s + 1 < k THEN <<L[a], s + 1>>
                    ELSE IF node[L[a]].next_leaf \in {NDX_LEAF_HEADER_PAGE, NDX_NO_PAGE} THEN LeafEnd
                         ELSE <<node[L[a]].next_leaf, 0>>
  <2>1. iid[1] = L[a] /\ iid[2] = s
    BY <1>1
  <2> QED BY <2>1 DEF NextID, k
<1>9. CASE s + 1 < k
  <2> DEFINE s2 == s + 1
  <2>1. s2 \in Nat /\ s2 < k /\ (a < b \/ (a = b /\ s2 <= t))
    BY <1>1, <1>3, <1>5, <1>9
  <2>2. NextID(iid) = <<L[a], s2>>
    BY <1>8, <1>9
  <2> HIDE DEF s2
  <2>3. OnScan(L, b, t, NextID(iid))
    BY <2>1, <2>2 DEF OnScan, k, m
  <2> QED BY <1>6, <2>3
<1>10. CASE ~(s + 1 < k) /\ a < m
  <2> DEFINE a2 == a + 1
             zero == 0
  <2>1. a2 \in 1 .. m /\ m > 1 /\ zero \in Nat /\ zero <= t
    BY <1>2, <1>10
  <2>2. L[a2] \in Pages /\ NextID(iid) = <<L[a2], zero>>
    <3>1. L[a2] \in Pages /\ L[a2] \in T
      BY <1>2, <2>1
    <3>2. NDX_LEAF_HEADER_PAGE \notin T
      BY DEF Index, Shape
    <3> QED BY <1>7, <1>8, <1>10, <3>1, <3>2, Constants
  <2>3. a < b
    <3> SUFFICES ASSUME a = b PROVE FALSE
      BY <1>1
    <3>1. t = e
      BY <1>3, <1>4, <1>5, <1>10
    <3> QED BY <1>2, <1>4, <1>10, <3>1
  <2>4. a2 < b \/ (a2 = b /\ zero <= t)
    BY <1>2, <1>4, <2>1, <2>3
  <2>5. zero < Len(node[L[a2]].keys)
    <3> HIDE DEF a2
    <3>1. Len(node[L[a2]].keys) >= 1 /\ Len(node[L[a2]].keys) \in Nat
      BY <2>1, LeafKeys DEF m
    <3> QED BY <3>1
  <2> HIDE DEF a2, zero
  <2>6. OnScan(L, b, t, NextID(iid))
    BY <2>1, <2>2, <2>4, <2>5 DEF OnScan, m
  <2> QED BY <1>6, <2>6
<1>11. CASE ~(s + 1 < k) /\ ~(a < m)
  <2>1. a = m /\ b = m
    BY <1>1, <1>2, <1>4, <1>11
  <2>2. t = e /\ k = e
    BY <1>3, <1>4, <1>5, <1>11, <2>1
  <2>3. NextID(iid) = <<L[m], e>>
    BY <1>2, <1>7, <1>8, <1>11, <2>1 DEF LeafEnd, e
  <2>4. m \in 1 .. m /\ e = Len(node[L[m]].keys) /\ e <= t
    BY <1>3, <1>4, <2>1, <2>2 DEF e
  <2>5. OnScan(L, b, t, NextID(iid))
    BY <1>3, <2>1, <2>3, <2>4 DEF OnScan, m
  <2> QED BY <1>6, <2>5
<1> QED
  BY <1>9, <1>10, <1>11

\* The place where the entries with a key begin is on the scan to where they end.
LEMMA LowerFirst ==
  ASSUME NEW T, NEW lev, NEW nxt, NEW fl, Index(node, hdr, work, T, lev, nxt, fl),
         NEW L, LeafOrder(L, T, nxt), NEW k \in Int,
         NEW a \in 1 .. Len(L), NEW s \in Nat, CutAt(T, nxt, Less(k), L[a], s),
         NEW b \in 1 .. Len(L), NEW t \in Nat, CutAt(T, nxt, AtMost(k), L[b], t)
  PROVE  /\ OnScan(L, b, t, <<L[a], s>>)
         /\ t <= Len(node[L[b]].keys) /\ (t = Len(node[L[b]].keys) => b = Len(L))
<1> DEFINE m == Len(L)
           sa == node[L[a]].keys
           sb == node[L[b]].keys
<1>1. /\ m \in Nat /\ a \in 1 .. m /\ b \in 1 .. m /\ m \in 1 .. m /\ IsInjective(L) /\ DOMAIN L = 1 .. m
      /\ L[m] = hdr.last_leaf /\ \A i \in 1 .. m : L[i] \in T
      /\ \A i \in 1 .. m : nxt[L[i]] = IF i < m THEN L[i + 1] ELSE NDX_NO_PAGE
  <2>1. L \in Seq(T) /\ m \in Nat /\ m >= 1
    BY DEF LeafOrder
  <2>2. DOMAIN L = 1 .. m /\ m \in 1 .. m
    BY <2>1
  <2> QED BY <2>1, <2>2 DEF LeafOrder
<1>2. /\ Len(sa) \in Nat /\ Len(sb) \in Nat
      /\ \A i \in 1 .. Len(sa) : sa[i] \in Int
      /\ \A i \in 1 .. Len(sb) : sb[i] \in Int
      /\ m > 1 => Len(sb) \in 1 .. Len(sb)
  BY LeafKeys
<1>3. /\ s <= Len(sa) /\ (s = Len(sa) => L[a] = L[m]) /\ \A j \in 1 .. Len(sa) : sa[j] \in Less(k) <=> j <= s
      /\ \A y \in T : nxt[y] = L[a] => Last(node[y].keys) \in Less(k)
  BY <1>1 DEF CutAt
<1>4. t <= Len(sb) /\ (t = Len(sb) => L[b] = L[m]) /\ \A j \in 1 .. Len(sb) : sb[j] \in AtMost(k) <=> j <= t
  BY <1>1 DEF CutAt
<1>5. \A i \in 1 .. m : L[i] = L[m] => i = m
  BY <1>1 DEF IsInjective
<1>6. s < Len(sa) \/ (a = m /\ s = Len(sa))
  <2> DEFINE n == Len(sa)
  <2>1. n \in Nat /\ s <= n /\ (s = n => a = m)
    BY <1>1, <1>2, <1>3, <1>5
  <2> HIDE DEF n, m
  <2>2. s < n \/ (a = m /\ s = n)
    BY <2>1
  <2> QED BY <2>2 DEF n
<1>7. t = Len(sb) => b = m
  BY <1>1, <1>4, <1>5
<1>8. a = b => s <= t
  <2> SUFFICES ASSUME a = b, s > t PROVE FALSE
    OBVIOUS
  <2> DEFINE j == t + 1
  <2>0. sa = sb
    OBVIOUS
  <2> HIDE DEF sa, sb
  <2>1. j \in 1 .. Len(sb) /\ j <= s /\ ~(j <= t)
    BY <1>2, <1>3, <2>0
  <2> HIDE DEF j
  <2>2. sb[j] \in Less(k)
    BY <1>3, <2>0, <2>1
  <2>3. sb[j] \in AtMost(k)
    BY <2>2 DEF Less, AtMost
  <2> QED BY <1>4, <2>1, <2>3
<1>9. ~(a > b)
  <2> SUFFICES ASSUME a > b PROVE FALSE
    OBVIOUS
  <2> DEFINE c == a - 1
             n == Len(sb)
  <2>1. c \in 1 .. m /\ b <= c /\ c < m /\ c + 1 = a /\ m > 1
    BY <1>1
  <2> HIDE DEF c
  <2>2. L[c] \in T /\ nxt[L[c]] = L[a]
    BY <1>1, <2>1
  <2>3. Last(node[L[c]].keys) \in Less(k)
    BY <1>3, <2>2
  <2>4. n \in 1 .. n /\ n \in Nat /\ sb[n] \in Int
    BY <1>2, <2>1
  <2>5. sb[n] <= Last(node[L[c]].keys)
    BY <2>1, <2>4, LeavesAscend DEF m
  <2>6. sb[n] \in AtMost(k)
    <3> DEFINE x == Last(node[L[c]].keys)
               y == sb[n]
    <3>1. x \in Int /\ x < k /\ y \in Int /\ y <= x
      BY <2>3, <2>4, <2>5 DEF Less
    <3> HIDE DEF x, y
    <3>2. y \in AtMost(k)
      BY <3>1 DEF AtMost
    <3> QED BY <3>2 DEF y
  <2>7. n <= t
    BY <1>4, <2>4, <2>6
  <2>8. t = n
    BY <1>4, <2>4, <2>7
  <2> QED BY <1>1, <1>7, <2>1, <2>8
<1>10. a < b \/ (a = b /\ s <= t)
  BY <1>1, <1>8, <1>9
<1> QED
  BY <1>1, <1>4, <1>6, <1>7, <1>10 DEF OnScan

LEMMA HasMember ==
  ASSUME NEW S, NEW s \in Seq(S), Len(s) >= 1
  PROVE  s # << >>
OBVIOUS

\* The places after every number of steps.
RunOf(lower, upper, run) ==
  [steps \in Nat |->
     IF steps = 0 THEN <<lower>>
     ELSE LET ids == run[steps - 1] IN
          IF Last(ids) = upper THEN ids ELSE Append(ids, NextID(Last(ids)))]

Runs == {s \in Seq(Pages \X Nat) : s # << >>}

LEMMA NextTyped ==
  ASSUME Typed(node), hdr \in Header, NEW iid \in Pages \X Nat
  PROVE  NextID(iid) \in Pages \X Nat
<1> DEFINE p == iid[1]
           n == node[p]
<1>1. p \in Pages /\ iid[2] \in Nat /\ iid[2] + 1 \in Nat
  OBVIOUS
<1>2. n.next_leaf \in PageOrNone
  BY <1>1, PageIs
<1>3. LeafEnd \in Pages \X Nat
  <2>1. hdr.last_leaf \in Pages
    BY DEF Header
  <2>2. Len(node[hdr.last_leaf].keys) \in Nat
    BY <2>1, PageIs
  <2> QED BY <2>1, <2>2 DEF LeafEnd
<1>4. ~(n.next_leaf \in {NDX_LEAF_HEADER_PAGE, NDX_NO_PAGE}) => n.next_leaf \in Pages
  BY <1>2 DEF PageOrNone
<1> QED
  BY <1>1, <1>3, <1>4 DEF NextID

LEMMA RunExists ==
  ASSUME Typed(node), hdr \in Header, NEW lower \in Pages \X Nat, NEW upper
  PROVE  \E run \in [Nat -> Runs] : run = RunOf(lower, upper, run)
<1> DEFINE S == Nat
           V == Runs
           rank == [n \in S |-> n]
           Go(ids) == IF Last(ids) = upper THEN ids ELSE Append(ids, NextID(Last(ids)))
           G == [a \in S \X [S -> V] |-> IF a[1] = 0 THEN <<lower>> ELSE Go(a[2][a[1] - 1])]
<1>1. rank \in [S -> Nat]
  OBVIOUS
<1>2. V # {} /\ <<lower>> \in V
  <2> DEFINE ids == <<lower>>
  <2>1. ids \in Seq(Pages \X Nat) /\ Len(ids) = 1
    OBVIOUS
  <2> HIDE DEF ids
  <2>2. ids # << >>
    <3>1. Len(ids) >= 1
      BY <2>1
    <3> QED BY <2>1, <3>1, HasMember
  <2>3. ids \in V
    BY <2>1, <2>2 DEF Runs
  <2> QED BY <2>3 DEF ids
<1>3. ASSUME NEW n \in S, NEW f \in [S -> V]
      PROVE  G[<<n, f>>] = IF n = 0 THEN <<lower>> ELSE Go(f[n - 1])
  OBVIOUS
<1>4. ASSUME NEW ids \in V PROVE Go(ids) \in V
  <2>1. ids \in Seq(Pages \X Nat) /\ ids # << >>
    BY DEF Runs
  <2>2. Last(ids) \in Pages \X Nat
    BY <2>1, LastIs
  <2>3. NextID(Last(ids)) \in Pages \X Nat
    BY <2>2, NextTyped
  <2> DEFINE x == NextID(Last(ids))
  <2> HIDE DEF x
  <2> DEFINE ids2 == Append(ids, x)
  <2>4. ids2 \in Seq(Pages \X Nat) /\ Len(ids2) = Len(ids) + 1 /\ Len(ids) \in Nat
    BY <2>1, <2>3 DEF x
  <2> HIDE DEF ids2
  <2>5. ids2 # << >>
    BY <2>4
  <2> QED BY <2>1, <2>4, <2>5 DEF Runs, x, ids2
<1>5. G \in [S \X [S -> V] -> V]
  <2> SUFFICES ASSUME NEW a \in S \X [S -> V]
               PROVE  (IF a[1] = 0 THEN <<lower>> ELSE Go(a[2][a[1] - 1])) \in V
    OBVIOUS
  <2>1. a[1] \in Nat /\ a[2] \in [Nat -> V]
    OBVIOUS
  <2>2. a[1] # 0 => a[2][a[1] - 1] \in V
    BY <2>1
  <2> HIDE DEF V, Go
  <2> QED BY <1>2, <1>4, <2>2
<1>6. Below(S, V, rank, G)
  <2> SUFFICES ASSUME NEW x \in S, NEW f \in [S -> V], NEW g \in [S -> V],
                      \A y \in S : rank[y] < rank[x] => f[y] = g[y]
               PROVE  G[<<x, f>>] = G[<<x, g>>]
    BY DEF Below
  <2>1. x # 0 => f[x - 1] = g[x - 1]
    OBVIOUS
  <2>2. G[<<x, f>>] = IF x = 0 THEN <<lower>> ELSE Go(f[x - 1])
    BY <1>3
  <2>3. G[<<x, g>>] = IF x = 0 THEN <<lower>> ELSE Go(g[x - 1])
    BY <1>3
  <2> HIDE DEF G, Go
  <2> QED BY <2>1, <2>2, <2>3
<1> HIDE DEF G, rank, S, V, Go
<1>00. Recurs(S, V, rank, G)
  BY <1>1, <1>2, <1>5, <1>6 DEF Recurs
<1>0. \E f \in [S -> V] : f = [x \in S |-> G[<<x, f>>]]
  BY <1>00, Recursion
<1> USE DEF S, V
<1>7. PICK f \in [S -> V] : f = [x \in S |-> G[<<x, f>>]]
  BY <1>0
<1>8. \A n \in Nat : f[n] = G[<<n, f>>]
  BY <1>7
<1>9. \A n \in Nat : f[n] = IF n = 0 THEN <<lower>> ELSE Go(f[n - 1])
  BY <1>3, <1>8
<1>10. f = [n \in Nat |-> f[n]]
  BY <1>7
<1>11. f = [n \in Nat |-> IF n = 0 THEN <<lower>> ELSE Go(f[n - 1])]
  BY <1>9, <1>10
<1>12. f = RunOf(lower, upper, f)
  BY <1>11 DEF RunOf, Go
<1> QED
  BY <1>7, <1>12

\* A scan so far: its last place may be its end, before that come entries.
Scanned(L, T, b, t, ids) ==
  /\ ids \in Runs /\ OnScan(L, b, t, Last(ids))
  /\ \A i \in 1 .. Len(ids) - 1 : Entered(T, ids[i])

LEMMA ScanIs ==
  ASSUME NEW T, NEW lev, NEW nxt, NEW fl, Index(node, hdr, work, T, lev, nxt, fl),
         NEW L, LeafOrder(L, T, nxt), NEW b \in 1 .. Len(L), NEW t \in Nat, t <= Len(node[L[b]].keys),
         t = Len(node[L[b]].keys) => b = Len(L),
         NEW lower \in Pages \X Nat, OnScan(L, b, t, lower)
  PROVE  Scanned(L, T, b, t, Scan(lower, <<L[b], t>>))
<1> DEFINE upper == <<L[b], t>>
           run == CHOOSE run : run = RunOf(lower, upper, run)
<1>1. Typed(node) /\ hdr \in Header
  BY DEF Index
<1>2. run = RunOf(lower, upper, run)
  <2>1. \E f : f = RunOf(lower, upper, f)
    <3> HIDE DEF upper
    <3> QED BY <1>1, RunExists
  <2> QED BY <2>1
<1>3. Scan(lower, upper) = run[Cardinality(Entry)]
  BY DEF Scan, RunOf
<1> DEFINE Go(ids) == IF Last(ids) = upper THEN ids ELSE Append(ids, NextID(Last(ids)))
<1> HIDE DEF run
<1>4. /\ run[0] = <<lower>>
      /\ \A n \in Nat : n # 0 => run[n] = Go(run[n - 1])
  <2> DEFINE g == RunOf(lower, upper, run)
  <2>1. \A n \in Nat : g[n] = IF n = 0 THEN <<lower>> ELSE Go(run[n - 1])
    BY DEF RunOf
  <2> HIDE DEF g, Go
  <2>2. run = g
    BY <1>2 DEF g
  <2> QED BY <2>1, <2>2
<1>5. ASSUME NEW ids, Scanned(L, T, b, t, ids) PROVE Scanned(L, T, b, t, Go(ids))
  <2>1. /\ ids \in Seq(Pages \X Nat) /\ ids # << >> /\ OnScan(L, b, t, Last(ids))
        /\ \A i \in 1 .. Len(ids) - 1 : Entered(T, ids[i])
    BY <1>5 DEF Scanned, Runs
  <2>2. Last(ids) \in Pages \X Nat /\ Last(ids) = ids[Len(ids)] /\ Len(ids) \in Nat /\ Len(ids) >= 1
    BY <2>1, LastIs
  <2>3. CASE Last(ids) = upper
    BY <1>5, <2>3
  <2>4. CASE Last(ids) # upper
    <3> DEFINE x == NextID(Last(ids))
               l == Last(ids)
               ids2 == Append(ids, x)
    <3>1. Entered(T, l) /\ OnScan(L, b, t, x)
      <4> HIDE DEF l
      <4>1. OnScan(L, b, t, l) /\ l # <<L[b], t>>
        BY <2>1, <2>4 DEF l
      <4> QED BY <4>1, NextIs DEF l
    <3>2. x \in Pages \X Nat
      BY <1>1, <2>2, NextTyped
    <3> HIDE DEF x
    <3>3. /\ ids2 \in Seq(Pages \X Nat) /\ Len(ids2) = Len(ids) + 1 /\ ids2[Len(ids) + 1] = x
          /\ \A i \in 1 .. Len(ids) : ids2[i] = ids[i]
      BY <2>1, <3>2
    <3>4. ids2 # << >> /\ Last(ids2) = x
      <4> HIDE DEF ids2
      <4>1. ids2 # << >>
        BY <2>2, <3>3
      <4> QED BY <3>3, <4>1 DEF Last
    <3>5. \A i \in 1 .. Len(ids2) - 1 : Entered(T, ids2[i])
      <4> HIDE DEF ids2
      <4> SUFFICES ASSUME NEW i \in 1 .. Len(ids2) - 1 PROVE Entered(T, ids2[i])
        OBVIOUS
      <4>1. i \in 1 .. Len(ids) /\ (i \in 1 .. Len(ids) - 1 \/ i = Len(ids))
        BY <2>2, <3>3
      <4>2. CASE i \in 1 .. Len(ids) - 1
        BY <2>1, <3>3, <4>1, <4>2
      <4>3. CASE i = Len(ids)
        BY <2>2, <3>1, <3>3, <4>1, <4>3
      <4> QED BY <4>1, <4>2, <4>3
    <3>6. Go(ids) = ids2
      BY <2>4 DEF x
    <3> HIDE DEF ids2, Go
    <3>7. Scanned(L, T, b, t, ids2)
      BY <3>1, <3>3, <3>4, <3>5 DEF Scanned, Runs
    <3> QED BY <3>6, <3>7
  <2> QED BY <2>3, <2>4
<1>6. Scanned(L, T, b, t, run[0])
  <2> DEFINE ids == <<lower>>
  <2>1. ids \in Runs /\ Last(ids) = lower /\ Len(ids) = 1
    BY DEF Runs, Last
  <2> HIDE DEF ids
  <2>2. Scanned(L, T, b, t, ids)
    BY <2>1 DEF Scanned
  <2> QED BY <1>4, <2>2 DEF ids
<1> HIDE DEF Go
<1> DEFINE Bad == {n \in Nat : ~Scanned(L, T, b, t, run[n])}
<1>7. Bad = {}
  <2> SUFFICES ASSUME Bad # {} PROVE FALSE
    OBVIOUS
  <2>1. PICK n \in Bad : \A j \in Bad : n <= j
    <3>1. Bad \subseteq Nat
      OBVIOUS
    <3> HIDE DEF Bad
    <3> QED BY <3>1, Least
  <2>2. n \in Nat /\ n # 0 /\ n - 1 \in Nat /\ ~(n <= n - 1)
    BY <1>6
  <2>3. Scanned(L, T, b, t, run[n - 1])
    BY <2>1, <2>2
  <2>4. Scanned(L, T, b, t, run[n])
    BY <1>4, <1>5, <2>2, <2>3
  <2> QED BY <2>4
<1>8. Cardinality(Entry) \in Nat
  BY EntryAssumption, FS_CardinalityType
<1>9. Scanned(L, T, b, t, run[Cardinality(Entry)])
  BY <1>7, <1>8
<1> QED
  BY <1>3, <1>9

-----------------------------------------------------------------------------
(* The change of a leaf.                                                   *)

\* The pages M after the entries of leaf q are changed.
LeafPut(M, q) ==
  /\ M \in [Pages -> Nodes] /\ \A x \in Pages \ {q} : M[x] = node[x]
  /\ M[q].rids \in Seq(Rids) /\ Len(M[q].keys) = Len(M[q].rids) /\ SameFields(M, q)
  /\ q # hdr.root_page => M[q].keys # << >>

LEMMA LeafPutIs ==
  ASSUME NEW T, NEW lev, NEW nxt, NEW fl, Index(node, hdr, work, T, lev, nxt, fl),
         NEW q \in T, node[q].is_leaf, NEW M, LeafPut(M, q)
  PROVE  /\ Typed(M) /\ \A x \in Pages : SameFields(M, x)
         /\ \A x \in Pages : x # q => M[x] = node[x]
         /\ \A x \in Pages : ~node[x].is_leaf => M[x] = node[x]
<1>1. Typed(node) /\ q \in Pages
  BY DEF Index, Shape
<1>2. /\ M \in [Pages -> Nodes] /\ \A x \in Pages : x # q => M[x] = node[x]
      /\ M[q].rids \in Seq(Rids) /\ Len(M[q].keys) = Len(M[q].rids) /\ SameFields(M, q)
  BY DEF LeafPut
<1>3. \A x \in Pages : SameFields(M, x)
  BY <1>2 DEF SameFields
<1>4. ASSUME NEW x \in Pages
      PROVE  /\ Len(M[x].keys) = Len(M[x].rids)
             /\ M[x].rids \in IF M[x].is_leaf THEN Seq(Rids) ELSE Seq(Pages)
  <2>1. CASE x = q
    BY <1>1, <1>2, <2>1 DEF SameFields
  <2>2. CASE x # q
    BY <1>1, <1>2, <2>2 DEF Typed
  <2> QED BY <2>1, <2>2
<1>5. Typed(M)
  BY <1>2, <1>4 DEF Typed
<1> QED
  BY <1>2, <1>3, <1>5

\* The keys on the way up are told.
LEMMA LeafTells ==
  ASSUME NEW T, NEW lev, NEW nxt, NEW fl, Index(node, hdr, work, T, lev, nxt, fl),
         NEW q \in T, node[q].is_leaf, NEW M, LeafPut(M, q)
  PROVE  Told(M, MaintainParent(M, q), T, lev, q)
<1> DEFINE K == lev[hdr.root_page]
<1>1. /\ Typed(node) /\ hdr \in Header /\ Blank(node, T) /\ Shape(T, lev, nxt)
      /\ Links(node, hdr.root_page, T, lev, nxt)
      /\ RingOK(node, hdr.last_leaf, T, nxt) /\ KeysOK(node, T, NDX_NO_PAGE)
      /\ Filled(node, hdr, T, work)
  BY DEF Index
<1>2. /\ Typed(M) /\ \A x \in Pages : SameFields(M, x)
      /\ \A x \in Pages : x # q => M[x] = node[x]
      /\ \A x \in Pages : ~node[x].is_leaf => M[x] = node[x]
  BY LeafPutIs
<1>3. /\ lev \in [Pages -> Nat] /\ K \in Nat /\ T \subseteq Pages
      /\ \A x \in Pages : lev[x] <= K
      /\ \A x \in Pages : node[x].parent # NDX_NO_PAGE =>
           /\ x \in T /\ x # hdr.root_page
           /\ node[x].parent \in T /\ node[x].parent \in Pages /\ ~node[node[x].parent].is_leaf
           /\ lev[node[x].parent] = lev[x] + 1 /\ x \in ToSet(node[node[x].parent].rids)
  BY <1>1, Parents
<1> HIDE DEF K
<1>4. \A x \in Pages : M[x].is_leaf = node[x].is_leaf /\ M[x].parent = node[x].parent
  BY <1>2 DEF SameFields
<1>5. ASSUME NEW x \in T, M[x].parent # NDX_NO_PAGE, lev[x] >= lev[q]
      PROVE  x \in ToSet(M[M[x].parent].rids) /\ M[x].keys # << >>
  <2> DEFINE y == node[x].parent
  <2>1. x \in Pages /\ M[x].parent = y /\ y # NDX_NO_PAGE
    BY <1>3, <1>4, <1>5
  <2>2. y \in Pages /\ ~node[y].is_leaf /\ x \in ToSet(node[y].rids) /\ x # hdr.root_page
    BY <1>3, <2>1
  <2> HIDE DEF y
  <2>3. M[y] = node[y]
    BY <1>2, <2>2
  <2>4. M[x].keys # << >>
    <3>1. CASE x = q
      BY <2>2, <3>1 DEF LeafPut
    <3>2. CASE x # q
      <4>1. node[x].keys # << >>
        BY <1>1, <1>3, <2>2, NotEmpty
      <4> QED BY <1>2, <2>1, <3>2, <4>1
    <3> QED BY <3>1, <3>2
  <2> QED BY <2>1, <2>2, <2>3, <2>4
<1>6. ASSUME NEW x \in T, ~M[x].is_leaf
      PROVE  /\ M[x] = node[x] /\ x \in Pages /\ ~node[x].is_leaf /\ IsInjective(M[x].rids)
             /\ DOMAIN M[x].rids = 1 .. Len(M[x].rids)
             /\ \A j \in 1 .. Len(M[x].rids) :
                  LET c == M[x].rids[j] IN
                  c \in T /\ c \in Pages /\ lev[c] + 1 = lev[x] /\ M[c].parent = x
  <2>1. x \in Pages /\ ~node[x].is_leaf /\ M[x] = node[x]
    BY <1>2, <1>3, <1>4, <1>6
  <2>2. IsInjective(node[x].rids)
    BY <1>1, <2>1 DEF Links, ChildrenOK
  <2>3. ASSUME NEW j \in 1 .. Len(node[x].rids)
        PROVE  LET c == node[x].rids[j] IN c \in T /\ c \in Pages /\ lev[c] + 1 = lev[x] /\ M[c].parent = x
    <3> DEFINE c == node[x].rids[j]
    <3>1. c \in T /\ c \in Pages /\ node[c].parent = x /\ lev[x] = lev[c] + 1
      BY <1>1, <2>1, ChildIs
    <3> QED BY <1>4, <3>1
  <2>4. DOMAIN node[x].rids = 1 .. Len(node[x].rids)
    BY <1>1, <2>1, PageIs
  <2> QED BY <2>1, <2>2, <2>3, <2>4
<1>7. Climbs(M, T, lev, K, q)
  <2>1. \A x \in Pages : M[x].parent # NDX_NO_PAGE =>
          M[x].parent \in T /\ ~M[M[x].parent].is_leaf /\ lev[M[x].parent] = lev[x] + 1
    BY <1>3, <1>4
  <2>2. \A x \in T : ~M[x].is_leaf =>
          /\ IsInjective(M[x].rids)
          /\ \A j \in 1 .. Len(M[x].rids) :
               LET c == M[x].rids[j] IN
               c \in T /\ lev[c] + 1 = lev[x] /\ (lev[x] > lev[q] => M[c].parent = x)
    BY <1>6
  <2> QED BY <1>2, <1>3, <1>5, <2>1, <2>2 DEF Climbs
<1>8. KeysBelow(M, T, q)
  <2> SUFFICES ASSUME NEW x \in T, ~M[x].is_leaf, NEW j \in DOMAIN M[x].rids, M[x].rids[j] # q
               PROVE  M[x].keys[j] = Last(M[M[x].rids[j]].keys)
    BY DEF KeysBelow
  <2> DEFINE c == node[x].rids[j]
  <2>1. M[x] = node[x] /\ c \in T /\ c \in Pages /\ ~node[x].is_leaf /\ j \in DOMAIN node[x].rids
    BY <1>6
  <2>2. node[x].keys[j] = Last(node[c].keys)
    <3>1. c # NDX_NO_PAGE
      BY <2>1, Constants
    <3> QED BY <1>1, <2>1, <3>1 DEF KeysOK
  <2>3. c # q
    BY <2>1
  <2> HIDE DEF c
  <2>4. M[c] = node[c]
    BY <1>2, <2>1, <2>3
  <2> QED BY <2>1, <2>2, <2>4 DEF c
<1> QED
  BY <1>7, <1>8, MaintainParentIs

\* Nothing need be told when the greatest key is as it was.
LEMMA NothingToTell ==
  ASSUME NEW T, NEW lev, NEW nxt, NEW fl, Index(node, hdr, work, T, lev, nxt, fl),
         NEW q \in T, node[q].is_leaf, NEW M, LeafPut(M, q), Last(M[q].keys) = Last(node[q].keys)
  PROVE  Told(M, M, T, lev, q)
<1>1. /\ Typed(node) /\ Shape(T, lev, nxt) /\ Links(node, hdr.root_page, T, lev, nxt)
      /\ KeysOK(node, T, NDX_NO_PAGE) /\ T \subseteq Pages
  BY DEF Index, Shape
<1>2. /\ Typed(M) /\ \A x \in Pages : SameFields(M, x)
      /\ \A x \in Pages : x # q => M[x] = node[x]
      /\ \A x \in Pages : ~node[x].is_leaf => M[x] = node[x]
  BY LeafPutIs
<1>3. \A x \in Pages : M[x].is_leaf = node[x].is_leaf /\ Last(M[x].keys) = Last(node[x].keys)
  BY <1>2 DEF SameFields
<1>4. KeysOK(M, T, NDX_NO_PAGE)
  <2> SUFFICES ASSUME NEW x \in T, ~M[x].is_leaf, NEW j \in DOMAIN M[x].rids
               PROVE  M[x].keys[j] = Last(M[M[x].rids[j]].keys)
    BY DEF KeysOK
  <2> DEFINE c == node[x].rids[j]
  <2>1. x \in Pages /\ ~node[x].is_leaf /\ M[x] = node[x]
    BY <1>1, <1>2, <1>3
  <2>2. j \in DOMAIN node[x].rids /\ j \in 1 .. Len(node[x].rids)
    BY <1>1, <2>1, PageIs
  <2>3. c \in T /\ c \in Pages
    BY <1>1, <2>1, <2>2, ChildIs
  <2>4. node[x].keys[j] = Last(node[c].keys)
    <3>1. c # NDX_NO_PAGE
      BY <2>3, Constants
    <3> QED BY <1>1, <2>1, <2>2, <3>1 DEF KeysOK
  <2> HIDE DEF c
  <2>5. Last(M[c].keys) = Last(node[c].keys)
    BY <1>3, <2>3
  <2> QED BY <2>1, <2>4, <2>5 DEF c
<1>5. \A x \in Pages : SameLinks(M, M, x)
  BY DEF SameLinks
<1> QED
  BY <1>2, <1>4, <1>5 DEF Told

LEMMA LeafStep ==
  ASSUME NEW T, NEW lev, NEW nxt, NEW fl, Index(node, hdr, work, T, lev, nxt, fl),
         NEW q \in T, node[q].is_leaf, NEW M, LeafPut(M, q),
         NEW R, Told(M, R, T, lev, q),
         NEW w \in Works, Filled(M, hdr, T, w), Ascending(M, T, nxt), EntriesOK(M, T)
  PROVE  Index(R, hdr, w, T, lev, nxt, fl)
<1>1. /\ Typed(node) /\ hdr \in Header /\ FreeList(node, hdr, T, fl)
      /\ Blank(node, T) /\ Shape(T, lev, nxt) /\ Links(node, hdr.root_page, T, lev, nxt)
      /\ RingOK(node, hdr.last_leaf, T, nxt)
      /\ T \subseteq Pages \ {NDX_LEAF_HEADER_PAGE} /\ NDX_LEAF_HEADER_PAGE \in Pages
  BY Constants DEF Index, Shape
<1>2. /\ Typed(M) /\ \A x \in Pages : SameFields(M, x)
      /\ \A x \in Pages : x # q => M[x] = node[x]
      /\ \A x \in Pages : ~node[x].is_leaf => M[x] = node[x]
  BY LeafPutIs
<1>3. /\ Typed(R) /\ \A x \in Pages : SameLinks(M, R, x)
      /\ \A x \in Pages : M[x].is_leaf \/ x \notin T => R[x] = M[x]
      /\ KeysOK(R, T, NDX_NO_PAGE)
  BY DEF Told
<1>4. \A x \in Pages : /\ R[x].is_leaf = node[x].is_leaf /\ R[x].parent = node[x].parent
                       /\ R[x].next_free = node[x].next_free
                       /\ R[x].next_leaf = node[x].next_leaf /\ R[x].prev_leaf = node[x].prev_leaf
                       /\ R[x].rids = M[x].rids /\ M[x].is_leaf = node[x].is_leaf
                       /\ M[x].parent = node[x].parent
                       /\ ~node[x].is_leaf => R[x].rids = node[x].rids
  BY <1>2, <1>3 DEF SameFields, SameLinks
<1>5. \A x \in Pages : x \notin T => R[x] = node[x]
  BY <1>1, <1>2, <1>3
<1>6. FreeList(R, hdr, T, fl)
  BY <1>1, <1>4, ElementOfSeq DEF FreeList
<1>7. Blank(R, T)
  BY <1>1, <1>5 DEF Blank
<1>8. Links(R, hdr.root_page, T, lev, nxt)
  <2>1. ASSUME NEW x \in T PROVE ParentOK(R, hdr.root_page, T, lev, x)
    <3>1. ParentOK(node, hdr.root_page, T, lev, x) /\ x \in Pages
      BY <1>1 DEF Links
    <3> QED BY <1>1, <1>4, <3>1 DEF ParentOK
  <2>2. ASSUME NEW x \in T, ~R[x].is_leaf PROVE ChildrenOK(R, T, nxt, x)
    <3>1. x \in Pages /\ ~node[x].is_leaf /\ R[x].rids = node[x].rids
      BY <1>1, <1>4, <2>2
    <3>2. ChildrenOK(node, T, nxt, x)
      BY <1>1, <3>1 DEF Links
    <3>3. FirstOfNext(R, nxt, x) = FirstOfNext(node, nxt, x)
      <4>1. nxt[x] # NDX_NO_PAGE => nxt[x] \in Pages /\ ~node[nxt[x]].is_leaf
        <5> SUFFICES ASSUME nxt[x] # NDX_NO_PAGE PROVE nxt[x] \in Pages /\ ~node[nxt[x]].is_leaf
          OBVIOUS
        <5>1. nxt[x] \in T /\ lev[nxt[x]] = lev[x] /\ nxt[x] \in Pages
          BY <1>1, InnerIs
        <5>2. lev[x] # 0
          BY <1>1, <3>1, InnerIs
        <5>3. node[nxt[x]].is_leaf <=> lev[nxt[x]] = 0
          BY <1>1, <5>1, InnerIs
        <5> QED BY <5>1, <5>2, <5>3
      <4>2. nxt[x] # NDX_NO_PAGE => R[nxt[x]].rids = node[nxt[x]].rids
        BY <1>4, <4>1
      <4> QED BY <4>2 DEF FirstOfNext
    <3>4. ASSUME NEW i \in DOMAIN node[x].rids
          PROVE  LET c == node[x].rids[i] IN
                 /\ c \in T /\ R[c].parent = x
                 /\ nxt[c] = IF i < Len(node[x].rids) THEN node[x].rids[i + 1] ELSE FirstOfNext(R, nxt, x)
      <4> DEFINE c == node[x].rids[i]
      <4>1. /\ c \in T /\ node[c].parent = x
            /\ nxt[c] = IF i < Len(node[x].rids) THEN node[x].rids[i + 1] ELSE FirstOfNext(node, nxt, x)
        BY <3>2 DEF ChildrenOK
      <4>2. R[c].parent = node[c].parent
        BY <1>1, <1>4, <4>1
      <4> HIDE DEF c
      <4>3. R[c].parent = x
        BY <4>1, <4>2
      <4> QED BY <3>3, <4>1, <4>3 DEF c
    <3>5. node[x].rids # << >> /\ IsInjective(node[x].rids)
      BY <3>2 DEF ChildrenOK
    <3> QED BY <3>1, <3>4, <3>5 DEF ChildrenOK
  <2> QED BY <1>1, <2>1, <2>2 DEF Links
<1>9. RingOK(R, hdr.last_leaf, T, nxt)
  <2>1. R[NDX_LEAF_HEADER_PAGE] = node[NDX_LEAF_HEADER_PAGE]
    BY <1>1, <1>5
  <2>2. ASSUME NEW x \in T, R[x].is_leaf PROVE LeafOK(R, hdr.last_leaf, T, nxt, x)
    <3>1. LeafOK(node, hdr.last_leaf, T, nxt, x) /\ x \in Pages
      BY <1>1, <1>4, <2>2 DEF RingOK
    <3>2. nxt[x] # NDX_NO_PAGE => nxt[x] \in Pages
      BY <1>1, InnerIs
    <3> QED BY <1>4, <3>1, <3>2 DEF LeafOK
  <2>3. first_leaf \in Pages /\ hdr.last_leaf \in Pages
    BY <1>1 DEF RingOK
  <2> QED BY <1>1, <1>4, <2>1, <2>2, <2>3 DEF RingOK
<1>10. Filled(R, hdr, T, w)
  <2>1. \A x \in T : R[x].rids = M[x].rids /\ R[x].is_leaf = M[x].is_leaf /\ R[x].parent = M[x].parent
    BY <1>1, <1>4
  <2>2. hdr.root_page \in T /\ (w.todo # "nothing" => w.page \in T)
    BY <1>1 DEF Links, Filled
  <2>3. w.todo = "overflow" \/ w.todo = "underflow" => w.todo # "nothing"
    OBVIOUS
  <2> QED BY <2>1, <2>2, <2>3 DEF Filled
<1>11. \A x \in T : R[x].is_leaf => M[x].is_leaf /\ R[x] = M[x]
  BY <1>1, <1>3, <1>4
<1>12. Ascending(R, T, nxt)
  <2> SUFFICES ASSUME NEW x \in T, R[x].is_leaf
               PROVE  /\ \A i, j \in DOMAIN R[x].keys : i < j => R[x].keys[i] <= R[x].keys[j]
                      /\ nxt[x] # NDX_NO_PAGE => Last(R[x].keys) <= R[nxt[x]].keys[1]
    BY DEF Ascending
  <2>1. M[x].is_leaf /\ R[x] = M[x]
    BY <1>11
  <2>2. nxt[x] # NDX_NO_PAGE => R[nxt[x]] = M[nxt[x]]
    <3> SUFFICES ASSUME nxt[x] # NDX_NO_PAGE PROVE R[nxt[x]] = M[nxt[x]]
      OBVIOUS
    <3>1. nxt[x] \in T /\ lev[nxt[x]] = lev[x] /\ nxt[x] \in Pages /\ x \in Pages
      BY <1>1, InnerIs
    <3>2. node[nxt[x]].is_leaf
      <4>1. node[x].is_leaf
        BY <1>4, <3>1
      <4>2. lev[x] = 0
        BY <1>1, <4>1, InnerIs
      <4> QED BY <1>1, <3>1, <4>2, InnerIs
    <3> QED BY <1>4, <1>11, <3>1, <3>2
  <2> QED BY <2>1, <2>2 DEF Ascending
<1>13. EntriesOK(R, T)
  BY <1>11 DEF EntriesOK
<1> QED
  BY <1>1, <1>3, <1>6, <1>7, <1>8, <1>9, <1>10, <1>12, <1>13 DEF Index

-----------------------------------------------------------------------------
(* insert_entry.                                                           *)

\* The pages M after a pair is put into leaf q after the first s.
LeafIn(M, q, s, k, r) ==
  /\ LeafPut(M, q)
  /\ Inserts(M[q].rids, node[q].rids, s + 1, r) /\ Inserts(M[q].keys, node[q].keys, s + 1, k)

LEMMA LeafInIs ==
  ASSUME Typed(node), NEW q \in Pages, node[q].is_leaf, NEW s \in 0 .. Len(node[q].keys),
         NEW k \in Keys, NEW r \in Rids,
         NEW M, M = [node EXCEPT ![q] = InsertPair(@, s + 1, k, r)]
  PROVE  LeafIn(M, q, s, k, r)
<1> DEFINE x == InsertPair(node[q], s + 1, k, r)
           i == s + 1
<1>1. /\ node[q] \in Nodes /\ Len(node[q].keys) = Len(node[q].rids) /\ node[q].rids \in Seq(Rids)
      /\ Len(node[q].rids) \in Nat
  BY PageIs
<1>2. i \in 1 .. Len(node[q].rids) + 1
  BY <1>1
<1>3. PairIn(x, node[q], Rids, i, k, r)
  <2> DEFINE n == node[q]
             S == Rids
  <2>1. S = Rids \/ S = Pages
    OBVIOUS
  <2>2. n \in Nodes /\ Len(n.keys) = Len(n.rids) /\ n.rids \in Seq(S) /\ i \in 1 .. Len(n.rids) + 1
    BY <1>1, <1>2
  <2>3. x = InsertPair(n, i, k, r) /\ r \in S
    OBVIOUS
  <2> HIDE DEF n, S, i, x
  <2>4. PairIn(x, n, S, i, k, r)
    BY <2>1, <2>2, <2>3, InsertPairIs
  <2> QED BY <2>4 DEF n, S
<1> HIDE DEF x
<1>4. /\ M[q] = x /\ x \in Nodes /\ \A y \in Pages \ {q} : M[y] = node[y]
      /\ M \in [Pages -> Nodes]
  <2>1. node \in [Pages -> Nodes] /\ x \in Nodes
    BY <1>3 DEF Typed, PairIn
  <2>2. M = [node EXCEPT ![q] = x]
    BY DEF x
  <2> QED BY <2>1, <2>2
<1>5. SameFields(M, q)
  BY <1>3, <1>4 DEF SameFields, PairIn
<1>6. M[q].keys # << >> /\ M[q].rids \in Seq(Rids) /\ Len(M[q].keys) = Len(M[q].rids)
  <2>1. /\ x.rids \in Seq(Rids) /\ Len(x.keys) = Len(x.rids) /\ x.keys \in Seq(Keys)
        /\ Len(x.rids) = Len(node[q].rids) + 1
    BY <1>3 DEF PairIn, Inserts, Nodes
  <2>2. x.keys # << >>
    <3> DEFINE ks == x.keys
    <3>1. ks \in Seq(Keys) /\ Len(ks) >= 1
      BY <1>1, <2>1
    <3> HIDE DEF ks
    <3>2. ks # << >>
      BY <3>1, HasMember
    <3> QED BY <3>2 DEF ks
  <2> QED BY <1>4, <2>1, <2>2
<1>7. Inserts(M[q].rids, node[q].rids, s + 1, r) /\ Inserts(M[q].keys, node[q].keys, s + 1, k)
  BY <1>3, <1>4 DEF PairIn
<1> QED
  BY <1>4, <1>5, <1>6, <1>7 DEF LeafIn, LeafPut

\* The places of a sequence t that is n, of length m, with one member more.
PlacedIn(t, n, m, i, u) ==
  /\ Len(t) = m + 1 /\ t[i] = u
  /\ \A j \in 1 .. m + 1 : j < i => j \in 1 .. m /\ t[j] = n[j]
  /\ \A j \in 1 .. m + 1 : j > i => j - 1 \in 1 .. m /\ t[j] = n[j - 1]

LEMMA PlacesIn ==
  ASSUME NEW n, NEW m \in Nat, NEW t, NEW u, Len(n) = m, NEW i \in 1 .. m + 1, Inserts(t, n, i, u)
  PROVE  PlacedIn(t, n, m, i, u)
<1>1. /\ Len(t) = m + 1
      /\ \A j \in 1 .. m + 1 : t[j] = IF j < i THEN n[j] ELSE IF j = i THEN u ELSE n[j - 1]
  BY DEF Inserts
<1> QED
  BY <1>1 DEF PlacedIn

\* Telling the way up changes no entry.
LEMMA ToldHas ==
  ASSUME NEW T, NEW lev, NEW q, NEW M, NEW R, Told(M, R, T, lev, q), NEW x, NEW y
  PROVE  Has(R, x, y) <=> Has(M, x, y)
<1>1. \A p \in Pages : R[p].is_leaf = M[p].is_leaf /\ (M[p].is_leaf => R[p] = M[p])
  BY DEF Told, SameLinks
<1> QED
  BY <1>1 DEF Has

\* The pages N have the entry of key k and record r, which those before the step
\* did not have, and no other change.
Gains(N, k, r) ==
  /\ ~Has(node, k, r)
  /\ \A x, y : Has(N, x, y) <=> Has(node, x, y) \/ (x = k /\ y = r)

\* The pairs of a leaf after one is put in.
LeafPlaces(M, q, m, i, k, r) ==
  /\ m \in Nat /\ i \in 1 .. m + 1 /\ DOMAIN node[q].rids = 1 .. m /\ DOMAIN M[q].rids = 1 .. m + 1
  /\ PlacedIn(M[q].rids, node[q].rids, m, i, r) /\ PlacedIn(M[q].keys, node[q].keys, m, i, k)

LEMMA LeafPlacesAre ==
  ASSUME Typed(node), NEW q \in Pages, NEW s \in 0 .. Len(node[q].keys),
         NEW k, NEW r, NEW M, Typed(M), LeafIn(M, q, s, k, r)
  PROVE  LeafPlaces(M, q, Len(node[q].rids), s + 1, k, r)
<1> DEFINE n == node[q].rids
           t == M[q].rids
           n2 == node[q].keys
           t2 == M[q].keys
           m == Len(node[q].rids)
           i == s + 1
<1>1. /\ m \in Nat /\ Len(n) = m /\ Len(n2) = m /\ DOMAIN n = 1 .. m /\ DOMAIN t = 1 .. Len(t)
      /\ s \in 0 .. m /\ Inserts(t, n, i, r) /\ Inserts(t2, n2, i, k)
  BY PageIs DEF LeafIn
<1> HIDE DEF n, t, n2, t2, m
<1>2. i \in 1 .. m + 1
  BY <1>1
<1> HIDE DEF i
<1>3. PlacedIn(t, n, m, i, r) /\ PlacedIn(t2, n2, m, i, k)
  BY <1>1, <1>2, PlacesIn
<1>4. DOMAIN t = 1 .. m + 1
  BY <1>1, <1>3 DEF PlacedIn
<1> QED
  BY <1>1, <1>2, <1>3, <1>4 DEF LeafPlaces, n, t, n2, t2, m, i

LEMMA LeafGains ==
  ASSUME Typed(node), NEW q \in Pages, node[q].is_leaf, NEW s \in 0 .. Len(node[q].keys),
         NEW k, NEW r, \A p \in Pages : node[p].is_leaf => r \notin ToSet(node[p].rids),
         NEW M, Typed(M), LeafIn(M, q, s, k, r),
         NEW T, NEW lev, NEW R, Told(M, R, T, lev, q)
  PROVE  Gains(R, k, r)
<1> DEFINE m == Len(node[q].rids)
           i == s + 1
<1>1. LeafPlaces(M, q, m, i, k, r)
  BY LeafPlacesAre
<1>2. M[q].is_leaf /\ \A p \in Pages : p # q => M[p] = node[p]
  BY DEF LeafIn, LeafPut, SameFields
<1> HIDE DEF m, i
<1>3. /\ m \in Nat /\ i \in 1 .. m + 1 /\ DOMAIN node[q].rids = 1 .. m /\ DOMAIN M[q].rids = 1 .. m + 1
      /\ M[q].rids[i] = r /\ M[q].keys[i] = k
      /\ \A j \in 1 .. m + 1 :
           j < i => j \in 1 .. m /\ M[q].rids[j] = node[q].rids[j] /\ M[q].keys[j] = node[q].keys[j]
      /\ \A j \in 1 .. m + 1 :
           j > i => j - 1 \in 1 .. m /\ M[q].rids[j] = node[q].rids[j - 1] /\ M[q].keys[j] = node[q].keys[j - 1]
  BY <1>1 DEF LeafPlaces, PlacedIn
<1>4. ~Has(node, k, r)
  BY DEF Has, ToSet
<1>5. ASSUME NEW x, NEW y, Has(M, x, y) PROVE Has(node, x, y) \/ (x = k /\ y = r)
  <2>1. PICK p \in Pages : M[p].is_leaf /\ \E j \in DOMAIN M[p].rids : M[p].keys[j] = x /\ M[p].rids[j] = y
    BY <1>5 DEF Has
  <2>2. PICK j \in DOMAIN M[p].rids : M[p].keys[j] = x /\ M[p].rids[j] = y
    BY <2>1
  <2>3. CASE p # q
    BY <1>2, <2>1, <2>3 DEF Has
  <2>4. CASE p = q
    <3>1. j \in 1 .. m + 1 /\ (j < i \/ j = i \/ j > i)
      BY <1>3, <2>4
    <3>2. CASE j = i
      BY <1>3, <2>2, <2>4, <3>2
    <3>3. CASE j < i
      BY <1>3, <2>2, <2>4, <3>1, <3>3 DEF Has
    <3>4. CASE j > i
      BY <1>3, <2>2, <2>4, <3>1, <3>4 DEF Has
    <3> QED BY <3>1, <3>2, <3>3, <3>4
  <2> QED BY <2>3, <2>4
<1>6. ASSUME NEW x, NEW y, Has(node, x, y) PROVE Has(M, x, y)
  <2>1. PICK p \in Pages : node[p].is_leaf /\ \E j \in DOMAIN node[p].rids : node[p].keys[j] = x /\ node[p].rids[j] = y
    BY <1>6 DEF Has
  <2>2. PICK j \in DOMAIN node[p].rids : node[p].keys[j] = x /\ node[p].rids[j] = y
    BY <2>1
  <2>3. CASE p # q
    BY <1>2, <2>1, <2>3 DEF Has
  <2>4. CASE p = q
    <3>1. j \in 1 .. m
      BY <1>3, <2>4
    <3>2. CASE j < i
      <4>1. j \in 1 .. m + 1
        BY <1>3, <3>1
      <4> QED BY <1>2, <1>3, <2>2, <2>4, <3>2, <4>1 DEF Has
    <3>3. CASE ~(j < i)
      <4> DEFINE u == j + 1
      <4>1. u \in 1 .. m + 1 /\ u > i /\ u - 1 = j
        BY <1>3, <3>1, <3>3
      <4> HIDE DEF u
      <4> QED BY <1>2, <1>3, <2>2, <2>4, <4>1 DEF Has
    <3> QED BY <3>2, <3>3
  <2> QED BY <2>3, <2>4
<1>7. Has(M, k, r)
  BY <1>2, <1>3 DEF Has
<1>8. \A x, y : Has(R, x, y) <=> Has(M, x, y)
  BY ToldHas
<1> QED
  BY <1>4, <1>5, <1>6, <1>7, <1>8 DEF Gains

\* The keys of the leaf ascend with the new one.
KeysIn(t, ks, m, s, k) ==
  /\ Ascend(t)
  /\ s < m => t[m + 1] = ks[m]
  /\ s > 0 => t[1] = ks[1]
  /\ s = 0 => t[1] = k

LEMMA InAscends ==
  ASSUME NEW ks, NEW m \in Nat, Len(ks) = m, DOMAIN ks = 1 .. m, Ascend(ks), \A j \in 1 .. m : ks[j] \in Int,
         NEW s \in 0 .. m, NEW k \in Int, \A j \in 1 .. m : ks[j] <= k <=> j <= s,
         NEW t, Inserts(t, ks, s + 1, k), DOMAIN t = 1 .. m + 1
  PROVE  KeysIn(t, ks, m, s, k)
<1> DEFINE i == s + 1
<1>1. i \in 1 .. m + 1 /\ i \in Nat /\ \A j \in 1 .. m : ks[j] <= k <=> j < i
  OBVIOUS
<1>2. s < m => i < m + 1
  OBVIOUS
<1>3. s > 0 => i > 1
  OBVIOUS
<1>4. s = 0 => i = 1
  OBVIOUS
<1>5. Inserts(t, ks, i, k)
  OBVIOUS
<1> HIDE DEF i
<1>6. /\ Len(t) = m + 1 /\ t[i] = k
      /\ \A j \in 1 .. m + 1 : j < i => j \in 1 .. m /\ t[j] = ks[j]
      /\ \A j \in 1 .. m + 1 : j > i => j - 1 \in 1 .. m /\ t[j] = ks[j - 1]
  <2>1. PlacedIn(t, ks, m, i, k)
    BY <1>1, <1>5, PlacesIn
  <2> QED BY <2>1 DEF PlacedIn
<1>7. ASSUME NEW a \in 1 .. m + 1, NEW b \in 1 .. m + 1, a < b PROVE t[a] <= t[b]
  <2>1. CASE b < i
    <3>1. a < i
      BY <1>1, <1>7, <2>1
    <3>2. a \in 1 .. m /\ t[a] = ks[a] /\ b \in 1 .. m /\ t[b] = ks[b]
      BY <1>6, <2>1, <3>1
    <3> QED BY <1>7, <3>2 DEF Ascend
  <2>2. CASE b = i
    <3>1. a < i
      BY <1>1, <1>7, <2>2
    <3>2. a \in 1 .. m /\ t[a] = ks[a]
      BY <1>6, <3>1
    <3> QED BY <1>1, <1>6, <2>2, <3>1, <3>2
  <2>3. CASE b > i
    <3> DEFINE c == b - 1
    <3>1. c \in 1 .. m /\ t[b] = ks[c] /\ ~(c < i) /\ a <= c
      BY <1>1, <1>6, <1>7, <2>3
    <3>2. k <= ks[c] /\ ks[c] \in Int
      BY <1>1, <3>1
    <3>3. CASE a < i
      <4>1. a \in 1 .. m /\ t[a] = ks[a] /\ ks[a] \in Int
        BY <1>6, <3>3
      <4>2. ks[a] <= k
        BY <1>1, <3>3, <4>1
      <4> HIDE DEF c
      <4> QED BY <3>1, <3>2, <4>1, <4>2
    <3>4. CASE a = i
      BY <1>6, <3>1, <3>2, <3>4
    <3>5. CASE a > i
      <4> DEFINE d == a - 1
      <4>1. d \in 1 .. m /\ t[a] = ks[d] /\ d < c
        BY <1>6, <1>7, <3>5
      <4> HIDE DEF c, d
      <4> QED BY <3>1, <4>1 DEF Ascend
    <3> QED BY <1>1, <3>3, <3>4, <3>5
  <2> QED BY <1>1, <2>1, <2>2, <2>3
<1>8. Ascend(t)
  BY <1>7 DEF Ascend
<1> DEFINE e == m + 1
           one == 1
<1>9. e \in 1 .. m + 1 /\ e - 1 = m /\ one \in 1 .. m + 1 /\ one = 1 /\ e = m + 1
  OBVIOUS
<1> HIDE DEF e, one
<1>10. i < e => t[e] = ks[m]
  BY <1>6, <1>9
<1>11. i > one => t[one] = ks[one]
  BY <1>6, <1>9
<1>12. /\ s < m => t[m + 1] = ks[m]
       /\ s > 0 => t[1] = ks[1]
       /\ s = 0 => t[1] = k
  BY <1>2, <1>3, <1>4, <1>6, <1>9, <1>10, <1>11
<1> QED
  BY <1>8, <1>12 DEF KeysIn

\* The neighbours of a leaf.
LEMMA AroundLeaf ==
  ASSUME NEW T, NEW lev, NEW nxt, NEW fl, Index(node, hdr, work, T, lev, nxt, fl), NEW q \in T, node[q].is_leaf
  PROVE  /\ nxt[q] # NDX_NO_PAGE => /\ nxt[q] \in T /\ nxt[q] \in Pages /\ nxt[q] # q
                                    /\ node[nxt[q]].is_leaf /\ q # hdr.root_page
         /\ \A y \in T : nxt[y] = q => y # q /\ q # hdr.root_page
<1>1. /\ Typed(node) /\ Shape(T, lev, nxt) /\ Links(node, hdr.root_page, T, lev, nxt)
  BY DEF Index
<1>2. \A y \in T : nxt[y] # y
  BY <1>1, NextOther
<1>3. nxt[q] # NDX_NO_PAGE => nxt[q] \in T /\ nxt[q] \in Pages /\ node[nxt[q]].is_leaf
  <2> SUFFICES ASSUME nxt[q] # NDX_NO_PAGE PROVE nxt[q] \in T /\ nxt[q] \in Pages /\ node[nxt[q]].is_leaf
    OBVIOUS
  <2>1. nxt[q] \in T /\ lev[nxt[q]] = lev[q] /\ nxt[q] \in Pages
    BY <1>1, InnerIs
  <2>2. lev[q] = 0
    BY <1>1, InnerIs
  <2> QED BY <1>1, <2>1, <2>2, InnerIs
<1>4. nxt[hdr.root_page] = NDX_NO_PAGE /\ \A y \in T : nxt[y] # hdr.root_page
  BY <1>1, NoneBeforeRoot DEF Links
<1> QED
  BY <1>2, <1>3, <1>4

\* Only leaf q has changed, and its first and its last key are in place.
LEMMA StillAscending ==
  ASSUME NEW T, NEW lev, NEW nxt, NEW fl, Index(node, hdr, work, T, lev, nxt, fl),
         NEW q \in T, node[q].is_leaf, NEW M, LeafPut(M, q), Ascend(M[q].keys),
         nxt[q] # NDX_NO_PAGE => Last(M[q].keys) <= node[nxt[q]].keys[1],
         \A y \in T : nxt[y] = q => Last(node[y].keys) <= M[q].keys[1]
  PROVE  Ascending(M, T, nxt)
<1>1. /\ T \subseteq Pages /\ Ascending(node, T, nxt) /\ \A y \in Pages : y # q => M[y] = node[y]
      /\ \A y \in Pages : M[y].is_leaf = node[y].is_leaf
  BY LeafPutIs DEF Index, Shape, SameFields
<1> SUFFICES ASSUME NEW p \in T, M[p].is_leaf
             PROVE  /\ \A i, j \in DOMAIN M[p].keys : i < j => M[p].keys[i] <= M[p].keys[j]
                    /\ nxt[p] # NDX_NO_PAGE => Last(M[p].keys) <= M[nxt[p]].keys[1]
  BY DEF Ascending
<1>2. p \in Pages /\ node[p].is_leaf
  BY <1>1
<1>3. /\ nxt[p] # NDX_NO_PAGE => nxt[p] \in T /\ nxt[p] \in Pages /\ nxt[p] # p
  BY <1>2, AroundLeaf
<1>4. CASE p = q
  <2>1. nxt[q] # NDX_NO_PAGE => M[nxt[q]] = node[nxt[q]]
    BY <1>1, <1>3, <1>4
  <2> QED BY <1>4, <2>1 DEF Ascend
<1>5. CASE p # q
  <2>1. M[p] = node[p]
    BY <1>1, <1>2, <1>5
  <2>2. \A i, j \in DOMAIN node[p].keys : i < j => node[p].keys[i] <= node[p].keys[j]
    BY <1>1, <1>2 DEF Ascending
  <2>3. nxt[p] # NDX_NO_PAGE => Last(node[p].keys) <= node[nxt[p]].keys[1]
    BY <1>1, <1>2 DEF Ascending
  <2>4. CASE nxt[p] = q
    BY <2>1, <2>2, <2>4
  <2>5. CASE nxt[p] # q
    <3>1. nxt[p] # NDX_NO_PAGE => M[nxt[p]] = node[nxt[p]]
      BY <1>1, <1>3, <2>5
    <3> QED BY <2>1, <2>2, <2>3, <3>1
  <2> QED BY <2>4, <2>5
<1> QED
  BY <1>4, <1>5

LEMMA InsertAscending ==
  ASSUME NEW T, NEW lev, NEW nxt, NEW fl, Index(node, hdr, work, T, lev, nxt, fl),
         NEW k \in Keys, NEW r \in Rids, NEW q, NEW s, CutAt(T, nxt, AtMost(k), q, s),
         NEW M, LeafIn(M, q, s, k, r)
  PROVE  /\ Ascending(M, T, nxt)
         /\ s < Len(node[q].keys) => Last(M[q].keys) = Last(node[q].keys)
<1> DEFINE ks == node[q].keys
           m == Len(node[q].keys)
           t == M[q].keys
<1>1. /\ q \in T /\ node[q].is_leaf /\ s \in 0 .. m
      /\ \A j \in 1 .. m : ks[j] \in AtMost(k) <=> j <= s
      /\ \A y \in T : nxt[y] = q => Last(node[y].keys) \in AtMost(k)
      /\ s = m => q = hdr.last_leaf
  BY DEF CutAt
<1>2. k \in Int /\ q \in Pages /\ T \subseteq Pages
  BY <1>1, KeysAreInts DEF Index, Shape
<1>3. /\ m \in Nat /\ Ascend(ks) /\ DOMAIN ks = 1 .. m /\ Len(ks) = m
      /\ \A i \in 1 .. m : ks[i] \in Int
      /\ m >= 1 => Last(ks) = ks[m]
  BY <1>2, KeysAre DEF Last
<1>4. \A j \in 1 .. m : ks[j] <= k <=> j <= s
  BY <1>1, <1>3 DEF AtMost
<1>5. Inserts(t, ks, s + 1, k) /\ LeafPut(M, q)
  BY DEF LeafIn
<1>6. Len(t) = m + 1 /\ DOMAIN t = 1 .. m + 1 /\ Last(t) = t[m + 1]
  <2>1. M[q] \in Nodes
    BY <1>2, <1>5 DEF LeafPut
  <2>2. t \in Seq(Keys) /\ Len(t) = m + 1
    BY <1>3, <1>5, <2>1 DEF Inserts, Nodes
  <2> QED BY <2>2 DEF Last
<1> HIDE DEF t, m, ks
<1>7. /\ Ascend(t)
      /\ s < m => t[m + 1] = ks[m]
      /\ s > 0 => t[1] = ks[1]
      /\ s = 0 => t[1] = k
  <2>1. s \in 0 .. m /\ m \in Nat /\ Len(ks) = m
    BY <1>1, <1>3
  <2>2. /\ DOMAIN ks = 1 .. m /\ Ascend(ks) /\ \A j \in 1 .. m : ks[j] \in Int
        /\ k \in Int /\ Inserts(t, ks, s + 1, k) /\ DOMAIN t = 1 .. m + 1
    BY <1>2, <1>3, <1>5, <1>6
  <2>3. KeysIn(t, ks, m, s, k)
    BY <1>4, <2>1, <2>2, InAscends
  <2> QED BY <2>3 DEF KeysIn
<1>8. s < m => Last(t) = Last(ks)
  <2>1. s < m => m >= 1
    BY <1>1, <1>3
  <2> QED BY <1>3, <1>6, <1>7, <2>1
<1>9. nxt[q] # NDX_NO_PAGE => Last(t) <= node[nxt[q]].keys[1]
  <2> SUFFICES ASSUME nxt[q] # NDX_NO_PAGE PROVE Last(t) <= node[nxt[q]].keys[1]
    OBVIOUS
  <2>1. InOrder(nxt, q)
    BY <1>1, LevelOrder
  <2>2. q # hdr.last_leaf
    BY DEF Index, RingOK
  <2>3. s < m
    BY <1>1, <1>3, <2>2
  <2> QED BY <1>8, <2>1, <2>3 DEF InOrder, ks
<1>10. ASSUME NEW y \in T, nxt[y] = q PROVE Last(node[y].keys) <= t[1]
  <2>1. Last(node[y].keys) \in AtMost(k)
    BY <1>1, <1>10
  <2>2. CASE s = 0
    BY <1>7, <2>1, <2>2 DEF AtMost
  <2>3. CASE s # 0
    <3>1. s > 0
      BY <1>1, <1>3, <2>3
    <3>2. InOrder(nxt, y)
      BY LevelOrder
    <3>3. nxt[y] # NDX_NO_PAGE
      BY <1>2, <1>10, Constants
    <3> QED BY <1>7, <1>10, <3>1, <3>2, <3>3 DEF InOrder, ks
  <2> QED BY <2>2, <2>3
<1>11. Ascending(M, T, nxt)
  <2>1. q \in T /\ node[q].is_leaf /\ LeafPut(M, q) /\ Ascend(M[q].keys)
    BY <1>1, <1>5, <1>7 DEF t
  <2>2. nxt[q] # NDX_NO_PAGE => Last(M[q].keys) <= node[nxt[q]].keys[1]
    BY <1>9 DEF t
  <2>3. \A y \in T : nxt[y] = q => Last(node[y].keys) <= M[q].keys[1]
    BY <1>10 DEF t
  <2> QED BY <2>1, <2>2, <2>3, StillAscending
<1> QED
  BY <1>8, <1>11 DEF t, ks, m

\* What a pair of a changed leaf was: i is its place.
WasAt(M, p, i, o) ==
  o \in DOMAIN node[p].rids /\ M[p].rids[i] = node[p].rids[o] /\ M[p].keys[i] = node[p].keys[o]

LEMMA InsertEntries ==
  ASSUME NEW T, NEW lev, NEW nxt, NEW fl, Index(node, hdr, work, T, lev, nxt, fl),
         NEW k \in Keys, NEW r \in Rids, <<k, r>> \in Entry,
         \A p \in Pages : node[p].is_leaf => r \notin ToSet(node[p].rids),
         NEW q \in T, node[q].is_leaf, NEW s \in 0 .. Len(node[q].keys),
         NEW M, LeafIn(M, q, s, k, r)
  PROVE  EntriesOK(M, T)
<1> DEFINE i0 == s + 1
           m == Len(node[q].rids)
<1>1. /\ Typed(node) /\ T \subseteq Pages /\ q \in Pages /\ EntriesOK(node, T)
      /\ \A y \in Pages : y # q => M[y] = node[y]
      /\ \A y \in Pages : M[y].is_leaf = node[y].is_leaf /\ Typed(M)
  BY LeafPutIs DEF Index, Shape, SameFields, LeafIn
<1>2. /\ m \in Nat /\ Len(node[q].keys) = m /\ DOMAIN node[q].rids = 1 .. m
      /\ i0 \in 1 .. m + 1 /\ i0 \in Nat
  BY <1>1, PageIs
<1>3. Inserts(M[q].rids, node[q].rids, i0, r) /\ Inserts(M[q].keys, node[q].keys, i0, k)
  BY DEF LeafIn
<1>4. DOMAIN M[q].rids = 1 .. m + 1 /\ Len(M[q].rids) = m + 1
  BY <1>1, <1>2, <1>3, PageIs DEF Inserts
<1> HIDE DEF i0, m
<1>5. /\ M[q].rids[i0] = r /\ M[q].keys[i0] = k
      /\ \A j \in 1 .. m + 1 : j < i0 => WasAt(M, q, j, j)
      /\ \A j \in 1 .. m + 1 : j > i0 => WasAt(M, q, j, j - 1)
  <2>1. LeafPlaces(M, q, m, i0, k, r)
    BY <1>1, LeafPlacesAre DEF m, i0
  <2> QED BY <1>2, <2>1 DEF LeafPlaces, PlacedIn, WasAt
\* Every pair but the new one was there.
<1>6. ASSUME NEW p \in T, M[p].is_leaf, NEW i \in DOMAIN M[p].rids
      PROVE  \/ p = q /\ i = i0
             \/ (p # q \/ i # i0) /\ \E o : WasAt(M, p, i, o) /\ (o = IF p = q /\ i > i0 THEN i - 1 ELSE i)
  <2>1. CASE p # q
    BY <1>1, <2>1 DEF WasAt
  <2>2. CASE p = q
    <3>1. i \in 1 .. m + 1
      BY <1>4, <2>2
    <3>2. i < i0 \/ i = i0 \/ i > i0
      BY <1>2, <3>1
    <3>3. i < i0 => i # i0 /\ ~(i > i0)
      BY <1>2, <3>1
    <3>4. i > i0 => i # i0
      BY <1>2, <3>1
    <3> QED BY <1>5, <2>2, <3>1, <3>2, <3>3, <3>4
  <2> QED BY <2>1, <2>2
<1>7. ASSUME NEW p \in T, node[p].is_leaf, NEW o \in DOMAIN node[p].rids
      PROVE  node[p].rids[o] # r /\ <<node[p].keys[o], node[p].rids[o]>> \in Entry
  <2>1. p \in Pages /\ r \notin ToSet(node[p].rids)
    BY <1>1, <1>7
  <2>2. node[p].rids[o] \in ToSet(node[p].rids)
    BY DEF ToSet
  <2> QED BY <1>1, <1>7, <2>1, <2>2 DEF EntriesOK
<1>8. ASSUME NEW p \in T, M[p].is_leaf, NEW i \in DOMAIN M[p].rids
      PROVE  <<M[p].keys[i], M[p].rids[i]>> \in Entry
  <2>1. node[p].is_leaf
    BY <1>1, <1>8
  <2>2. CASE p = q /\ i = i0
    BY <1>5, <2>2
  <2>3. CASE \E o : WasAt(M, p, i, o)
    <3>1. PICK o : WasAt(M, p, i, o)
      BY <2>3
    <3>2. <<node[p].keys[o], node[p].rids[o]>> \in Entry
      BY <1>7, <2>1, <3>1 DEF WasAt
    <3> QED BY <3>1, <3>2 DEF WasAt
  <2> QED BY <1>6, <1>8, <2>2, <2>3
<1>9. ASSUME NEW p \in T, NEW y \in T, M[p].is_leaf, M[y].is_leaf,
             NEW i \in DOMAIN M[p].rids, NEW j \in DOMAIN M[y].rids, M[p].rids[i] = M[y].rids[j]
      PROVE  p = y /\ i = j
  <2>1. node[p].is_leaf /\ node[y].is_leaf
    BY <1>1, <1>9
  <2>2. CASE p = q /\ i = i0
    <3>1. M[y].rids[j] = r
      BY <1>5, <1>9, <2>2
    <3>2. \A o : ~WasAt(M, y, j, o)
      BY <1>7, <2>1, <3>1 DEF WasAt
    <3> QED BY <1>6, <1>9, <2>2, <3>2
  <2>3. CASE y = q /\ j = i0
    <3>1. M[p].rids[i] = r
      BY <1>5, <1>9, <2>3
    <3>2. \A o : ~WasAt(M, p, i, o)
      BY <1>7, <2>1, <3>1 DEF WasAt
    <3> QED BY <1>6, <1>9, <2>3, <3>2
  <2>4. CASE (p # q \/ i # i0) /\ (y # q \/ j # i0)
    <3> DEFINE o == IF p = q /\ i > i0 THEN i - 1 ELSE i
               u == IF y = q /\ j > i0 THEN j - 1 ELSE j
    <3>1. WasAt(M, p, i, o)
      BY <1>6, <1>9, <2>4
    <3>2. WasAt(M, y, j, u)
      BY <1>6, <1>9, <2>4
    <3> HIDE DEF o, u
    <3>3. p = y /\ o = u
      <4>1. o \in DOMAIN node[p].rids /\ u \in DOMAIN node[y].rids /\ node[p].rids[o] = node[y].rids[u]
        BY <1>9, <3>1, <3>2 DEF WasAt
      <4> QED BY <1>1, <2>1, <4>1 DEF EntriesOK
    <3>4. CASE p # q
      BY <3>3, <3>4 DEF o, u
    <3>5. CASE p = q
      <4>1. i \in 1 .. m + 1 /\ j \in 1 .. m + 1 /\ i # i0 /\ j # i0
        BY <1>4, <2>4, <3>3, <3>5
      <4>2. o = IF i > i0 THEN i - 1 ELSE i
        BY <3>5 DEF o
      <4>3. u = IF j > i0 THEN j - 1 ELSE j
        BY <3>3, <3>5 DEF u
      <4>4. i \in Int /\ j \in Int /\ i0 \in Int
        BY <1>2, <4>1
      <4>5. o = u /\ i # i0 /\ j # i0
        BY <3>3, <4>1
      <4>6. i = j
        BY <4>2, <4>3, <4>4, <4>5
      <4> QED BY <3>3, <4>6
    <3> QED BY <3>4, <3>5
  <2> QED BY <2>2, <2>3, <2>4
<1> QED
  BY <1>8, <1>9 DEF EntriesOK

\* How many children there are when no operation is going on.
LEMMA IdleFilled ==
  ASSUME NEW T, NEW h \in Header, NEW N, Typed(N), T \subseteq Pages, work = Idle, Filled(N, h, T, work)
  PROVE  /\ \A p \in T : Len(N[p].rids) <= h.btree_order
         /\ \A p \in T \ {h.root_page} : Len(N[p].rids) >= MinOf(h)
         /\ ~N[h.root_page].is_leaf => ~(Len(N[h.root_page].rids) < 2)
<1>1. h.btree_order \in Nat /\ MinOf(h) \in Nat
  BY Fill
<1>2. work.todo = "nothing" /\ \A p : Extra(work, "overflow", p) = 0 /\ Extra(work, "underflow", p) = 0
  BY IdleIs
<1>3. \A p \in T : Len(N[p].rids) <= h.btree_order
  <2> SUFFICES ASSUME NEW p \in T PROVE Len(N[p].rids) <= h.btree_order
    OBVIOUS
  <2>1. Len(N[p].rids) <= h.btree_order + Extra(work, "overflow", p)
    BY DEF Filled
  <2> QED BY <1>1, <1>2, <2>1
<1>4. \A p \in T \ {h.root_page} : Len(N[p].rids) >= MinOf(h)
  <2> SUFFICES ASSUME NEW p \in T \ {h.root_page} PROVE Len(N[p].rids) >= MinOf(h)
    OBVIOUS
  <2>1. Len(N[p].rids) >= MinOf(h) - Extra(work, "underflow", p)
    BY DEF Filled
  <2> QED BY <1>1, <1>2, <2>1
<1>5. ~N[h.root_page].is_leaf => ~(Len(N[h.root_page].rids) < 2)
  BY <1>2 DEF Filled
<1> QED
  BY <1>3, <1>4, <1>5

LEMMA InsertFilled ==
  ASSUME NEW T, NEW lev, NEW nxt, NEW fl, Index(node, hdr, work, T, lev, nxt, fl), work = Idle,
         NEW k, NEW r, NEW s, NEW q \in T, node[q].is_leaf, NEW M, LeafIn(M, q, s, k, r),
         NEW R, R[q].rids = M[q].rids, NEW w, w = OverflowAt(R, q)
  PROVE  w \in Works /\ Filled(M, hdr, T, w)
<1> DEFINE o == hdr.btree_order
           root == hdr.root_page
           m == Len(node[q].rids)
           k2 == MinOf(hdr)
<1>1. /\ Typed(node) /\ hdr \in Header /\ T \subseteq Pages /\ q \in Pages /\ Filled(node, hdr, T, work)
      /\ root \in T
      /\ \A y \in Pages : y # q => M[y] = node[y]
      /\ \A y \in Pages : SameFields(M, y)
  BY LeafPutIs DEF Index, Shape, Links, LeafIn
<1>2. Len(M[q].rids) = m + 1 /\ m \in Nat /\ ~M[q].is_leaf = FALSE
  BY <1>1, PageIs DEF LeafIn, Inserts, SameFields
<1>3. /\ \A p \in T : Len(node[p].rids) <= o
      /\ \A p \in T \ {root} : Len(node[p].rids) >= k2
      /\ ~node[root].is_leaf => ~(Len(node[root].rids) < 2)
  BY <1>1, IdleFilled
<1>4. o \in Nat /\ o >= 3 /\ k2 \in Nat
  BY <1>1, Fill
<1>5. w = IF m + 1 > o THEN [todo |-> "overflow", page |-> q] ELSE Idle
  BY <1>2 DEF OverflowAt
<1>6. w \in Works
  BY <1>1, <1>5, IdleIs DEF Works, PageOrNone
<1>7. \A p \in T : p # q => M[p].rids = node[p].rids /\ Len(node[p].rids) \in Nat
  BY <1>1, PageIs
<1>8. \A p \in T : Extra(w, "overflow", p) = IF m + 1 > o /\ p = q THEN 1 ELSE 0
  <2> SUFFICES ASSUME NEW p \in T PROVE Extra(w, "overflow", p) = IF m + 1 > o /\ p = q THEN 1 ELSE 0
    OBVIOUS
  <2>1. w = [todo |-> "overflow", page |-> p] <=> m + 1 > o /\ p = q
    BY <1>5 DEF Idle
  <2> QED BY <2>1 DEF Extra
<1>9. \A p \in T : Extra(w, "underflow", p) = 0
  BY <1>5 DEF Extra, Idle
<1>10. \A p \in T : Len(M[p].rids) <= o + Extra(w, "overflow", p)
  <2> SUFFICES ASSUME NEW p \in T PROVE Len(M[p].rids) <= o + Extra(w, "overflow", p)
    OBVIOUS
  <2>1. CASE p = q
    <3>1. m <= o
      BY <1>3
    <3> HIDE DEF m, o
    <3> QED BY <1>2, <1>4, <1>8, <2>1, <3>1
  <2>2. CASE p # q
    <3>1. Len(M[p].rids) <= o /\ Extra(w, "overflow", p) = 0
      BY <1>3, <1>7, <1>8, <2>2
    <3> QED BY <1>4, <3>1
  <2> QED BY <2>1, <2>2
<1>11. \A p \in T \ {root} : Len(M[p].rids) >= k2 - Extra(w, "underflow", p)
  <2> SUFFICES ASSUME NEW p \in T \ {root} PROVE Len(M[p].rids) >= k2 - 0
    BY <1>9
  <2>1. CASE p = q
    <3>1. m >= k2
      BY <1>3, <2>1
    <3> HIDE DEF m, k2
    <3> QED BY <1>2, <1>4, <2>1, <3>1
  <2>2. CASE p # q
    <3> HIDE DEF k2
    <3> QED BY <1>3, <1>4, <1>7, <2>2
  <2> QED BY <2>1, <2>2
<1>12. /\ w.todo # "nothing" => w.page \in T
       /\ w.todo = "nothing" => w = Idle
       /\ w.todo # "underflow"
  BY <1>5 DEF Idle
<1>13. w.todo = "overflow" => Len(M[w.page].rids) = o + 1
  <2>1. w.todo = "overflow" => w.page = q /\ m + 1 > o
    BY <1>5 DEF Idle
  <2>2. m <= o
    BY <1>3
  <2> HIDE DEF m, o
  <2> QED BY <1>2, <1>4, <2>1, <2>2
<1>14. ~(~M[root].is_leaf /\ Len(M[root].rids) < 2)
  <2>1. CASE q = root
    BY <1>2, <2>1
  <2>2. CASE q # root
    BY <1>1, <1>3, <1>7, <2>2 DEF SameFields
  <2> QED BY <2>1, <2>2
<1> QED
  BY <1>6, <1>10, <1>11, <1>12, <1>13, <1>14 DEF Filled

LEMMA InsertEntryStep ==
  ASSUME NEW T, NEW lev, NEW nxt, NEW fl, Index(node, hdr, work, T, lev, nxt, fl),
         NEW e \in Entry, InsertEntry(e)
  PROVE  IInv' /\ Gains(node', e[1], e[2])
<1> DEFINE k == e[1]
           r == e[2]
           iid == UpperBound(k)
           put == [node EXCEPT ![iid[1]] = InsertPair(@, iid[2] + 1, k, r)]
           after == IF iid = LeafEnd THEN MaintainParent(put, iid[1]) ELSE put
<1>1. /\ work = Idle /\ \A p \in Pages : node[p].is_leaf => r \notin ToSet(node[p].rids)
      /\ node' = after /\ work' = OverflowAt(after, iid[1]) /\ hdr' = hdr
  BY DEF InsertEntry
<1>2. e = <<k, r>> /\ k \in Int /\ k \in Keys /\ r \in Rids
  BY EntryAssumption DEF Keys, Rids
<1>3. PICK q \in Pages, s \in Nat : iid = <<q, s>> /\ CutAt(T, nxt, AtMost(k), q, s)
  <2> HIDE DEF k
  <2> QED BY <1>2, BoundsCut
<1>4. iid[1] = q /\ iid[2] = s
  BY <1>3
<1>5. /\ q \in T /\ node[q].is_leaf /\ s \in 0 .. Len(node[q].keys)
      /\ s = Len(node[q].keys) => q = hdr.last_leaf
  BY <1>3 DEF CutAt
<1>6. Typed(node) /\ hdr \in Header
  BY DEF Index
<1> DEFINE M == [node EXCEPT ![q] = InsertPair(@, s + 1, k, r)]
           R == IF iid = LeafEnd THEN MaintainParent(M, q) ELSE M
<1>7. node' = R /\ work' = OverflowAt(R, q)
  BY <1>1, <1>4
<1> HIDE DEF k, r
<1>8. LeafIn(M, q, s, k, r)
  BY <1>2, <1>5, <1>6, LeafInIs
<1> HIDE DEF M
<1>9. Ascending(M, T, nxt) /\ (s < Len(node[q].keys) => Last(M[q].keys) = Last(node[q].keys))
  BY <1>2, <1>3, <1>8, InsertAscending
<1>10. EntriesOK(M, T)
  <2>1. <<k, r>> \in Entry
    BY <1>2
  <2> QED BY <1>1, <1>2, <1>5, <1>8, <2>1, InsertEntries
<1>11. LeafPut(M, q)
  BY <1>8 DEF LeafIn
<1>12. Told(M, R, T, lev, q)
  <2>1. CASE iid = LeafEnd
    <3>1. Told(M, MaintainParent(M, q), T, lev, q)
      BY <1>5, <1>11, LeafTells
    <3> QED BY <2>1, <3>1
  <2>2. CASE iid # LeafEnd
    <3>1. s # Len(node[q].keys)
      BY <1>3, <1>5, <2>2 DEF LeafEnd
    <3>2. s < Len(node[q].keys)
      <4>1. Len(node[q].keys) \in Nat
        BY <1>6, PageIs
      <4> DEFINE m == Len(node[q].keys)
      <4>2. m \in Nat /\ s \in 0 .. m /\ s # m
        BY <1>5, <3>1, <4>1
      <4> HIDE DEF m
      <4>3. s < m
        BY <4>2
      <4> QED BY <4>3 DEF m
    <3>3. Told(M, M, T, lev, q)
      BY <1>5, <1>9, <1>11, <3>2, NothingToTell
    <3> QED BY <2>2, <3>3
  <2> QED BY <2>1, <2>2
<1> HIDE DEF R
<1> DEFINE w == OverflowAt(R, q)
<1>13. w \in Works /\ Filled(M, hdr, T, w)
  <2>1. R[q].rids = M[q].rids
    BY <1>12 DEF Told, SameLinks
  <2> HIDE DEF w
  <2>2. w = OverflowAt(R, q)
    BY DEF w
  <2> QED BY <1>1, <1>5, <1>8, <2>1, <2>2, InsertFilled
<1> HIDE DEF w
<1>14. Index(R, hdr, w, T, lev, nxt, fl)
  BY <1>5, <1>9, <1>10, <1>11, <1>12, <1>13, LeafStep
<1>15. Index(node', hdr', work', T, lev, nxt, fl)
  BY <1>1, <1>7, <1>14 DEF w
<1>16. Gains(R, k, r)
  <2>1. Typed(M) /\ q \in Pages
    BY <1>5, <1>11, LeafPutIs DEF Index, Shape
  <2> QED BY <1>1, <1>5, <1>6, <1>8, <1>12, <2>1, LeafGains
<1> QED
  BY <1>7, <1>15, <1>16 DEF IInv, k, r

-----------------------------------------------------------------------------
(* delete_entry.                                                           *)

\* The pages M after the pair at place i of leaf q is taken out.
LeafOut(M, q, i) ==
  /\ LeafPut(M, q)
  /\ Removes(M[q].rids, node[q].rids, i) /\ Removes(M[q].keys, node[q].keys, i)

LEMMA LeafOutIs ==
  ASSUME NEW T, NEW lev, NEW nxt, NEW fl, Index(node, hdr, work, T, lev, nxt, fl), work = Idle,
         NEW q \in T, node[q].is_leaf, NEW i \in 1 .. Len(node[q].keys),
         NEW M, M = [node EXCEPT ![q] = ErasePair(@, i)]
  PROVE  LeafOut(M, q, i)
<1> DEFINE x == ErasePair(node[q], i)
<1>0. Typed(node) /\ q \in Pages /\ T \subseteq Pages /\ hdr \in Header /\ Filled(node, hdr, T, work)
  BY DEF Index, Shape
<1>1. /\ node[q] \in Nodes /\ Len(node[q].keys) = Len(node[q].rids) /\ node[q].rids \in Seq(Rids)
      /\ Len(node[q].rids) \in Nat
  BY <1>0, PageIs
<1>2. i \in 1 .. Len(node[q].rids)
  BY <1>1
<1>3. PairOut(x, node[q], Rids, i)
  <2> DEFINE n == node[q]
             S == Rids
  <2>1. S = Rids \/ S = Pages
    OBVIOUS
  <2>2. n \in Nodes /\ Len(n.keys) = Len(n.rids) /\ n.rids \in Seq(S) /\ i \in 1 .. Len(n.rids)
    BY <1>1, <1>2
  <2>3. x = ErasePair(n, i)
    OBVIOUS
  <2> HIDE DEF n, S, x
  <2>4. PairOut(x, n, S, i)
    BY <2>1, <2>2, <2>3, ErasePairIs
  <2> QED BY <2>4 DEF n, S
<1> HIDE DEF x
<1>4. /\ M[q] = x /\ x \in Nodes /\ \A y \in Pages \ {q} : M[y] = node[y]
      /\ M \in [Pages -> Nodes]
  <2>1. node \in [Pages -> Nodes] /\ x \in Nodes
    BY <1>0, <1>3 DEF Typed, PairOut
  <2>2. M = [node EXCEPT ![q] = x]
    BY DEF x
  <2> QED BY <1>0, <2>1, <2>2
<1>5. SameFields(M, q)
  BY <1>3, <1>4 DEF SameFields, PairOut
<1>6. /\ M[q].rids \in Seq(Rids) /\ Len(M[q].keys) = Len(M[q].rids)
      /\ q # hdr.root_page => M[q].keys # << >>
  <2>1. /\ x.rids \in Seq(Rids) /\ Len(x.keys) = Len(x.rids) /\ x.keys \in Seq(Keys)
        /\ Len(x.rids) = Len(node[q].rids) - 1
    BY <1>3 DEF PairOut, Removes, Nodes
  <2>2. q # hdr.root_page => x.keys # << >>
    <3> SUFFICES ASSUME q # hdr.root_page PROVE x.keys # << >>
      OBVIOUS
    <3>1. Len(node[q].rids) >= MinOf(hdr) /\ MinOf(hdr) >= 2 /\ MinOf(hdr) \in Nat
      BY <1>0, IdleFilled, Fill
    <3> DEFINE ks == x.keys
               m == Len(node[q].rids)
               k == MinOf(hdr)
    <3>2. ks \in Seq(Keys) /\ Len(ks) = m - 1 /\ m \in Nat /\ m >= k /\ k >= 2 /\ k \in Nat
      BY <1>1, <2>1, <3>1
    <3> HIDE DEF ks, m, k
    <3>3. Len(ks) >= 1
      BY <3>2
    <3>4. ks # << >>
      BY <3>2, <3>3, HasMember
    <3> QED BY <3>4 DEF ks
  <2> QED BY <1>4, <2>1, <2>2
<1>7. Removes(M[q].rids, node[q].rids, i) /\ Removes(M[q].keys, node[q].keys, i)
  BY <1>3, <1>4 DEF PairOut
<1> QED
  BY <1>4, <1>5, <1>6, <1>7 DEF LeafOut, LeafPut

\* The places of a sequence t that is n, of length m, with one member less.
TakenOut(t, n, m, i) ==
  /\ Len(t) = m - 1
  /\ \A j \in 1 .. m - 1 : t[j] = n[IF j < i THEN j ELSE j + 1]

LEMMA PlacesOut ==
  ASSUME NEW n, NEW m \in Nat, NEW t, Len(n) = m, NEW i \in 1 .. m, Removes(t, n, i)
  PROVE  TakenOut(t, n, m, i)
BY DEF Removes, TakenOut

\* The other keys of the leaf still ascend.
KeysOut(t, ks, m) ==
  /\ Ascend(t)
  /\ m > 1 => t[m - 1] <= ks[m] /\ ks[1] <= t[1]

LEMMA OutAscends ==
  ASSUME NEW ks, NEW m \in Nat, Len(ks) = m, DOMAIN ks = 1 .. m, Ascend(ks), \A j \in 1 .. m : ks[j] \in Int,
         NEW i \in 1 .. m, NEW t, Removes(t, ks, i), DOMAIN t = 1 .. m - 1
  PROVE  KeysOut(t, ks, m)
<1> DEFINE o(j) == IF j < i THEN j ELSE j + 1
<1>1. TakenOut(t, ks, m, i)
  BY PlacesOut
<1>2. \A j \in 1 .. m - 1 : o(j) \in 1 .. m /\ t[j] = ks[o(j)]
  BY <1>1 DEF TakenOut
<1>3. \A a, b \in 1 .. m - 1 : a < b => o(a) < o(b)
  OBVIOUS
<1>4. m > 1 => 1 \in 1 .. m - 1 /\ m - 1 \in 1 .. m - 1 /\ m \in 1 .. m /\ 1 \in 1 .. m
  OBVIOUS
<1> HIDE DEF o
<1>5. Ascend(t)
  BY <1>2, <1>3 DEF Ascend
<1>6. \A a, b \in 1 .. m : a <= b => ks[a] <= ks[b]
  <2> SUFFICES ASSUME NEW a \in 1 .. m, NEW b \in 1 .. m, a <= b PROVE ks[a] <= ks[b]
    OBVIOUS
  <2>1. CASE a = b
    BY <2>1
  <2>2. CASE a < b
    BY <2>2 DEF Ascend
  <2> QED BY <2>1, <2>2
<1>7. m > 1 => t[m - 1] <= ks[m] /\ ks[1] <= t[1]
  <2> SUFFICES ASSUME m > 1 PROVE t[m - 1] <= ks[m] /\ ks[1] <= t[1]
    OBVIOUS
  <2> DEFINE e == m - 1
             one == 1
  <2>1. e \in 1 .. m - 1 /\ one \in 1 .. m - 1 /\ m \in 1 .. m /\ one \in 1 .. m
    BY <1>4
  <2>2. \A j \in 1 .. m : j <= m /\ one <= j
    OBVIOUS
  <2> HIDE DEF e, one
  <2>3. t[e] = ks[o(e)] /\ t[one] = ks[o(one)] /\ o(e) \in 1 .. m /\ o(one) \in 1 .. m
    BY <1>2, <2>1
  <2>4. ks[o(e)] <= ks[m] /\ ks[one] <= ks[o(one)]
    BY <1>6, <2>1, <2>2, <2>3
  <2> QED BY <2>3, <2>4 DEF e, one
<1> QED
  BY <1>5, <1>7 DEF KeysOut

LEMMA NotNothing ==
  ASSUME NEW S, NEW s \in Seq(S), s # << >>
  PROVE  Len(s) # 0
OBVIOUS

LEMMA DeleteAscending ==
  ASSUME NEW T, NEW lev, NEW nxt, NEW fl, Index(node, hdr, work, T, lev, nxt, fl),
         NEW q \in T, node[q].is_leaf, NEW i \in 1 .. Len(node[q].keys),
         NEW M, LeafOut(M, q, i)
  PROVE  Ascending(M, T, nxt)
<1> DEFINE ks == node[q].keys
           m == Len(node[q].keys)
           t == M[q].keys
<1>1. q \in Pages /\ T \subseteq Pages
  BY DEF Index, Shape
<1>2. /\ m \in Nat /\ Ascend(ks) /\ DOMAIN ks = 1 .. m /\ Len(ks) = m
      /\ \A j \in 1 .. m : ks[j] \in Int
      /\ m >= 1 => Last(ks) = ks[m]
  BY <1>1, KeysAre DEF Last
<1>3. Removes(t, ks, i) /\ LeafPut(M, q)
  BY DEF LeafOut
<1>4. /\ Len(t) = m - 1 /\ DOMAIN t = 1 .. m - 1 /\ Last(t) = t[m - 1] /\ (t # << >> => m > 1)
      /\ \A j \in 1 .. m - 1 : t[j] \in Int
  <2>1. M[q] \in Nodes
    BY <1>1, <1>3 DEF LeafPut
  <2>2. t \in Seq(Keys) /\ Len(t) = m - 1
    BY <1>2, <1>3, <2>1 DEF Removes, Nodes
  <2>3. Len(t) # 0 => m > 1
    <3> DEFINE n == Len(t)
    <3>1. m \in Nat /\ n = m - 1 /\ i \in 1 .. m
      BY <1>2, <2>2
    <3> HIDE DEF n, m
    <3>2. n # 0 => m > 1
      BY <3>1
    <3> QED BY <3>2 DEF n
  <2>4. t # << >> => Len(t) # 0
    <3> HIDE DEF t
    <3>1. t \in Seq(Keys)
      BY <2>2
    <3> QED BY <3>1, NotNothing
  <2>5. t \in Seq(Int)
    BY <2>2, IntKeys
  <2> HIDE DEF t, m
  <2> QED BY <2>2, <2>3, <2>4, <2>5, ElementOfSeq DEF Last
<1> HIDE DEF t, m, ks
<1>5. Ascend(t) /\ (m > 1 => t[m - 1] <= ks[m] /\ ks[1] <= t[1])
  <2>1. i \in 1 .. m
    BY DEF m
  <2>2. /\ m \in Nat /\ Len(ks) = m /\ DOMAIN ks = 1 .. m /\ Ascend(ks) /\ \A j \in 1 .. m : ks[j] \in Int
        /\ Removes(t, ks, i) /\ DOMAIN t = 1 .. m - 1
    BY <1>2, <1>3, <1>4
  <2>3. KeysOut(t, ks, m)
    BY <2>1, <2>2, OutAscends
  <2> QED BY <2>3 DEF KeysOut
<1>6. q # hdr.root_page => m > 1
  BY <1>3, <1>4 DEF LeafPut, t
<1>7. m > 1 => /\ t[m - 1] \in Int /\ t[1] \in Int /\ ks[m] \in Int /\ ks[1] \in Int /\ Last(ks) = ks[m]
  <2> SUFFICES ASSUME m > 1
               PROVE  t[m - 1] \in Int /\ t[1] \in Int /\ ks[m] \in Int /\ ks[1] \in Int /\ Last(ks) = ks[m]
    OBVIOUS
  <2>1. m - 1 \in 1 .. m - 1 /\ 1 \in 1 .. m - 1 /\ m \in 1 .. m /\ 1 \in 1 .. m /\ m >= 1
    BY <1>2
  <2> QED BY <1>2, <1>4, <2>1
\* The ends of the neighbours are integers.
<1>8. \A y \in T : (y # hdr.root_page \/ ~node[y].is_leaf) => node[y].keys[1] \in Int /\ Last(node[y].keys) \in Int
  <2> SUFFICES ASSUME NEW y \in T, y # hdr.root_page \/ ~node[y].is_leaf
               PROVE  node[y].keys[1] \in Int /\ Last(node[y].keys) \in Int
    OBVIOUS
  <2> DEFINE s == node[y].keys
  <2>1. y \in Pages
    BY <1>1
  <2>2. s # << >> /\ \A j \in 1 .. Len(s) : s[j] \in Int
    BY <2>1, KeysAre
  <2>3. Last(s) = s[Len(s)] /\ 1 \in 1 .. Len(s) /\ Len(s) \in 1 .. Len(s)
    BY <2>1, <2>2, KeysAre
  <2> QED BY <2>2, <2>3
<1>9. nxt[q] # NDX_NO_PAGE => Last(t) <= node[nxt[q]].keys[1]
  <2> SUFFICES ASSUME nxt[q] # NDX_NO_PAGE PROVE Last(t) <= node[nxt[q]].keys[1]
    OBVIOUS
  <2>1. InOrder(nxt, q)
    BY LevelOrder
  <2>2. nxt[q] \in T /\ q # hdr.root_page /\ nxt[q] # hdr.root_page
    <3>1. nxt[q] \in T /\ q # hdr.root_page
      BY AroundLeaf
    <3>2. \A y \in T : nxt[y] # hdr.root_page
      BY NoneBeforeRoot DEF Index
    <3> QED BY <3>1, <3>2
  <2> DEFINE z == node[nxt[q]].keys[1]
  <2>3. z \in Int /\ ks[m] <= z
    BY <1>6, <1>7, <1>8, <2>1, <2>2 DEF InOrder, ks
  <2> HIDE DEF z
  <2>4. Last(t) <= z
    BY <1>4, <1>5, <1>6, <1>7, <2>2, <2>3
  <2> QED BY <2>4 DEF z
<1>10. ASSUME NEW y \in T, nxt[y] = q PROVE Last(node[y].keys) <= t[1]
  <2>1. InOrder(nxt, y)
    BY LevelOrder
  <2>2. nxt[y] # NDX_NO_PAGE /\ q # hdr.root_page
    BY <1>1, <1>10, AroundLeaf, Constants
  <2>3. y # hdr.root_page
    BY <1>10, <2>2 DEF Index, Links
  <2> DEFINE z == Last(node[y].keys)
  <2>4. z \in Int /\ z <= ks[1]
    BY <1>8, <1>10, <2>1, <2>2, <2>3 DEF InOrder, ks
  <2> HIDE DEF z
  <2>5. z <= t[1]
    BY <1>5, <1>6, <1>7, <2>2, <2>4
  <2> QED BY <2>5 DEF z
<1>11. LeafPut(M, q) /\ Ascend(M[q].keys)
  BY <1>3, <1>5 DEF t
<1>12. nxt[q] # NDX_NO_PAGE => Last(M[q].keys) <= node[nxt[q]].keys[1]
  BY <1>9 DEF t
<1>13. \A y \in T : nxt[y] = q => Last(node[y].keys) <= M[q].keys[1]
  BY <1>10 DEF t
<1> QED
  BY <1>11, <1>12, <1>13, StillAscending

\* The pages N no longer have the entry of key k and record r, which those before
\* the step had, and no other change.
Loses(N, k, r) ==
  /\ Has(node, k, r)
  /\ \A x, y : Has(N, x, y) <=> Has(node, x, y) /\ ~(x = k /\ y = r)

\* The pairs of a leaf after one is taken out.
LeafRest(M, q, m, i) ==
  /\ m \in Nat /\ i \in 1 .. m /\ DOMAIN node[q].rids = 1 .. m /\ DOMAIN M[q].rids = 1 .. m - 1
  /\ TakenOut(M[q].rids, node[q].rids, m, i) /\ TakenOut(M[q].keys, node[q].keys, m, i)

LEMMA LeafRestIs ==
  ASSUME Typed(node), NEW q \in Pages, NEW i \in 1 .. Len(node[q].keys), NEW M, Typed(M), LeafOut(M, q, i)
  PROVE  LeafRest(M, q, Len(node[q].rids), i)
<1> DEFINE n == node[q].rids
           t == M[q].rids
           n2 == node[q].keys
           t2 == M[q].keys
           m == Len(node[q].rids)
<1>1. /\ m \in Nat /\ Len(n) = m /\ Len(n2) = m /\ DOMAIN n = 1 .. m /\ DOMAIN t = 1 .. Len(t)
      /\ i \in 1 .. m /\ Removes(t, n, i) /\ Removes(t2, n2, i)
  BY PageIs DEF LeafOut
<1> HIDE DEF n, t, n2, t2, m
<1>2. TakenOut(t, n, m, i) /\ TakenOut(t2, n2, m, i)
  BY <1>1, PlacesOut
<1>3. DOMAIN t = 1 .. m - 1
  BY <1>1, <1>2 DEF TakenOut
<1> QED
  BY <1>1, <1>2, <1>3 DEF LeafRest, n, t, n2, t2, m

LEMMA LeafLoses ==
  ASSUME NEW T, NEW lev, NEW nxt, NEW fl, Index(node, hdr, work, T, lev, nxt, fl),
         NEW q \in T, node[q].is_leaf, NEW i \in 1 .. Len(node[q].keys), NEW M, LeafOut(M, q, i),
         NEW R, Told(M, R, T, lev, q), NEW k, NEW r, k = node[q].keys[i], r = node[q].rids[i]
  PROVE  Loses(R, k, r)
<1> DEFINE m == Len(node[q].rids)
<1>1. /\ Typed(node) /\ q \in Pages /\ Blank(node, T) /\ EntriesOK(node, T) /\ Typed(M)
      /\ node[NDX_LEAF_HEADER_PAGE].rids = << >>
  BY LeafPutIs DEF Index, Shape, RingOK, IndexPageHeader, LeafOut
<1>2. M[q].is_leaf /\ \A p \in Pages : p # q => M[p] = node[p]
  BY DEF LeafOut, LeafPut, SameFields
<1>3. LeafRest(M, q, m, i)
  BY <1>1, LeafRestIs
<1> HIDE DEF m
<1>4. /\ m \in Nat /\ i \in 1 .. m /\ DOMAIN node[q].rids = 1 .. m /\ DOMAIN M[q].rids = 1 .. m - 1
      /\ \A j \in 1 .. m - 1 : j < i => M[q].rids[j] = node[q].rids[j] /\ M[q].keys[j] = node[q].keys[j]
      /\ \A j \in 1 .. m - 1 : ~(j < i) => M[q].rids[j] = node[q].rids[j + 1] /\ M[q].keys[j] = node[q].keys[j + 1]
  BY <1>3 DEF LeafRest, TakenOut
\* No other place has the record.
<1>5. ASSUME NEW p \in Pages, node[p].is_leaf, NEW j \in DOMAIN node[p].rids, node[p].rids[j] = r
      PROVE  p = q /\ j = i
  <2>1. p \in T
    BY <1>1, <1>5 DEF Blank
  <2> QED BY <1>1, <1>4, <1>5, <2>1 DEF EntriesOK
<1>6. Has(node, k, r)
  BY <1>1, <1>4 DEF Has
<1>10. \A u \in DOMAIN node[q].rids : u # i => node[q].rids[u] # r
  BY <1>1, <1>5
<1>7. ASSUME NEW x, NEW y, Has(M, x, y) PROVE Has(node, x, y) /\ y # r
  <2>1. PICK p \in Pages : M[p].is_leaf /\ \E j \in DOMAIN M[p].rids : M[p].keys[j] = x /\ M[p].rids[j] = y
    BY <1>7 DEF Has
  <2>2. PICK j \in DOMAIN M[p].rids : M[p].keys[j] = x /\ M[p].rids[j] = y
    BY <2>1
  <2>3. CASE p # q
    <3>1. node[p].is_leaf /\ j \in DOMAIN node[p].rids /\ node[p].keys[j] = x /\ node[p].rids[j] = y
      BY <1>2, <2>1, <2>2, <2>3
    <3> QED BY <1>5, <2>3, <3>1 DEF Has
  <2>4. CASE p = q
    <3>1. j \in 1 .. m - 1
      BY <1>4, <2>4
    <3>2. CASE j < i
      <4>1. j \in 1 .. m /\ j # i
        BY <1>4, <3>1, <3>2
      <4>2. node[q].keys[j] = x /\ node[q].rids[j] = y
        BY <1>4, <2>2, <2>4, <3>1, <3>2
      <4>3. j \in DOMAIN node[q].rids /\ y # r
        <5>1. j \in DOMAIN node[q].rids /\ j # i
          BY <1>4, <4>1
        <5>2. node[q].rids[j] # r
          BY <1>10, <5>1
        <5> QED BY <4>2, <5>1, <5>2
      <4>4. Has(node, x, y)
        BY <1>1, <4>2, <4>3 DEF Has
      <4> QED BY <4>3, <4>4
    <3>3. CASE ~(j < i)
      <4> DEFINE u == j + 1
      <4>1. u \in 1 .. m /\ u # i
        BY <1>4, <3>1, <3>3
      <4>2. node[q].keys[u] = x /\ node[q].rids[u] = y
        BY <1>4, <2>2, <2>4, <3>1, <3>3
      <4> HIDE DEF u
      <4>3. u \in DOMAIN node[q].rids /\ y # r
        <5>1. u \in DOMAIN node[q].rids /\ u # i
          BY <1>4, <4>1
        <5>2. node[q].rids[u] # r
          BY <1>10, <5>1
        <5> QED BY <4>2, <5>1, <5>2
      <4>4. Has(node, x, y)
        BY <1>1, <4>2, <4>3 DEF Has
      <4> QED BY <4>3, <4>4
    <3> QED BY <3>2, <3>3
  <2> QED BY <2>3, <2>4
<1>8. ASSUME NEW x, NEW y, Has(node, x, y), ~(x = k /\ y = r) PROVE Has(M, x, y)
  <2>1. PICK p \in Pages : node[p].is_leaf /\ \E j \in DOMAIN node[p].rids : node[p].keys[j] = x /\ node[p].rids[j] = y
    BY <1>8 DEF Has
  <2>2. PICK j \in DOMAIN node[p].rids : node[p].keys[j] = x /\ node[p].rids[j] = y
    BY <2>1
  <2>3. CASE p # q
    BY <1>2, <2>1, <2>3 DEF Has
  <2>4. CASE p = q
    <3>1. j \in 1 .. m /\ j # i
      BY <1>4, <1>8, <2>2, <2>4
    <3>2. CASE j < i
      <4>1. j \in 1 .. m - 1
        BY <1>4, <3>1, <3>2
      <4> QED BY <1>1, <1>2, <1>4, <2>2, <2>4, <3>2, <4>1 DEF Has
    <3>3. CASE ~(j < i)
      <4> DEFINE u == j - 1
      <4>1. u \in 1 .. m - 1 /\ ~(u < i) /\ u + 1 = j
        BY <1>4, <3>1, <3>3
      <4> HIDE DEF u
      <4>2. u \in DOMAIN M[q].rids /\ M[q].keys[u] = x /\ M[q].rids[u] = y
        BY <1>4, <2>2, <2>4, <4>1
      <4> QED BY <1>1, <1>2, <4>2 DEF Has
    <3> QED BY <3>2, <3>3
  <2> QED BY <2>3, <2>4
<1>9. \A x, y : Has(R, x, y) <=> Has(M, x, y)
  BY ToldHas
<1> QED
  BY <1>6, <1>7, <1>8, <1>9 DEF Loses

LEMMA DeleteEntries ==
  ASSUME NEW T, NEW lev, NEW nxt, NEW fl, Index(node, hdr, work, T, lev, nxt, fl),
         NEW q \in T, node[q].is_leaf, NEW i \in 1 .. Len(node[q].keys),
         NEW M, LeafOut(M, q, i)
  PROVE  EntriesOK(M, T)
<1> DEFINE m == Len(node[q].rids)
           o(p, j) == IF p # q \/ j < i THEN j ELSE j + 1
<1>1. /\ Typed(node) /\ T \subseteq Pages /\ q \in Pages /\ EntriesOK(node, T)
      /\ \A y \in Pages : y # q => M[y] = node[y]
      /\ \A y \in Pages : M[y].is_leaf = node[y].is_leaf /\ Typed(M)
  BY LeafPutIs DEF Index, Shape, SameFields, LeafOut
<1>2. /\ m \in Nat /\ Len(node[q].keys) = m /\ DOMAIN node[q].rids = 1 .. m /\ i \in 1 .. m
  BY <1>1, PageIs
<1>3. Removes(M[q].rids, node[q].rids, i) /\ Removes(M[q].keys, node[q].keys, i)
  BY DEF LeafOut
<1>4. DOMAIN M[q].rids = 1 .. m - 1
  BY <1>1, <1>2, <1>3, PageIs DEF Removes
<1>5. Len(node[q].rids) = m
  OBVIOUS
<1> HIDE DEF m
<1>6. ASSUME NEW j \in 1 .. m - 1 PROVE WasAt(M, q, j, o(q, j))
  <2>1. o(q, j) \in 1 .. m /\ o(q, j) = IF j < i THEN j ELSE j + 1
    BY <1>2
  <2>2. TakenOut(M[q].rids, node[q].rids, m, i) /\ TakenOut(M[q].keys, node[q].keys, m, i)
    <3>1. LeafRest(M, q, m, i)
      BY <1>1, LeafRestIs DEF m
    <3> QED BY <3>1 DEF LeafRest
  <2> HIDE DEF o
  <2>3. M[q].rids[j] = node[q].rids[o(q, j)] /\ M[q].keys[j] = node[q].keys[o(q, j)]
    BY <2>1, <2>2 DEF TakenOut
  <2> QED BY <1>2, <2>1, <2>3 DEF WasAt
\* Every pair was there.
<1>7. ASSUME NEW p \in T, M[p].is_leaf, NEW j \in DOMAIN M[p].rids
      PROVE  WasAt(M, p, j, o(p, j)) /\ node[p].is_leaf
  <2>1. p \in Pages /\ node[p].is_leaf
    BY <1>1, <1>7
  <2>2. CASE p # q
    <3>1. M[p] = node[p] /\ o(p, j) = j
      BY <1>1, <2>1, <2>2
    <3> HIDE DEF o
    <3> QED BY <2>1, <3>1 DEF WasAt
  <2>3. CASE p = q
    BY <1>4, <1>6, <2>1, <2>3
  <2> QED BY <2>2, <2>3
<1>8. ASSUME NEW p \in T, NEW a \in DOMAIN M[p].rids, NEW b \in DOMAIN M[p].rids, o(p, a) = o(p, b)
      PROVE  a = b
  <2>1. CASE p # q
    BY <1>8, <2>1
  <2>2. CASE p = q
    <3>1. a \in 1 .. m - 1 /\ b \in 1 .. m - 1
      BY <1>4, <2>2
    <3>2. a \in Int /\ b \in Int /\ i \in Int
      BY <1>2, <3>1
    <3>3. (IF a < i THEN a ELSE a + 1) = (IF b < i THEN b ELSE b + 1)
      BY <1>8, <2>2
    <3> QED BY <3>2, <3>3
  <2> QED BY <2>1, <2>2
<1> HIDE DEF o
<1>9. ASSUME NEW p \in T, M[p].is_leaf, NEW j \in DOMAIN M[p].rids
      PROVE  <<M[p].keys[j], M[p].rids[j]>> \in Entry
  BY <1>1, <1>7, <1>9 DEF WasAt, EntriesOK
<1>10. ASSUME NEW p \in T, NEW y \in T, M[p].is_leaf, M[y].is_leaf,
              NEW a \in DOMAIN M[p].rids, NEW b \in DOMAIN M[y].rids, M[p].rids[a] = M[y].rids[b]
       PROVE  p = y /\ a = b
  <2> DEFINE u == o(p, a)
             v == o(y, b)
  <2>1. WasAt(M, p, a, u) /\ WasAt(M, y, b, v) /\ node[p].is_leaf /\ node[y].is_leaf
    BY <1>7, <1>10
  <2> HIDE DEF u, v
  <2>2. u \in DOMAIN node[p].rids /\ v \in DOMAIN node[y].rids /\ node[p].rids[u] = node[y].rids[v]
    BY <1>10, <2>1 DEF WasAt
  <2>3. p = y /\ u = v
    BY <1>1, <2>1, <2>2 DEF EntriesOK
  <2> QED BY <1>8, <2>3 DEF u, v
<1> QED
  BY <1>9, <1>10 DEF EntriesOK

LEMMA DeleteFilled ==
  ASSUME NEW T, NEW lev, NEW nxt, NEW fl, Index(node, hdr, work, T, lev, nxt, fl), work = Idle,
         NEW q \in T, node[q].is_leaf, NEW i \in 1 .. Len(node[q].keys), NEW M, LeafOut(M, q, i),
         NEW R, R[q].rids = M[q].rids, NEW w, w = UnderflowAt(R, q)
  PROVE  w \in Works /\ Filled(M, hdr, T, w)
<1> DEFINE o == hdr.btree_order
           root == hdr.root_page
           m == Len(node[q].rids)
           k2 == MinOf(hdr)
<1>1. /\ Typed(node) /\ hdr \in Header /\ T \subseteq Pages /\ q \in Pages /\ Filled(node, hdr, T, work)
      /\ root \in T
      /\ \A y \in Pages : y # q => M[y] = node[y]
      /\ \A y \in Pages : SameFields(M, y)
  BY LeafPutIs DEF Index, Shape, Links, LeafOut
<1>2. Len(M[q].rids) = m - 1 /\ m \in Nat /\ ~M[q].is_leaf = FALSE
  BY <1>1, PageIs DEF LeafOut, Removes, SameFields
<1>3. /\ \A p \in T : Len(node[p].rids) <= o
      /\ \A p \in T \ {root} : Len(node[p].rids) >= k2
      /\ ~node[root].is_leaf => ~(Len(node[root].rids) < 2)
  BY <1>1, IdleFilled
<1>4. o \in Nat /\ o >= 3 /\ k2 \in Nat /\ MinFill = k2
  BY <1>1, Fill
<1> HIDE DEF o, k2, m
<1>5. w = IF m - 1 < k2 THEN [todo |-> "underflow", page |-> q] ELSE Idle
  BY <1>2, <1>4 DEF UnderflowAt
<1>6. w \in Works
  BY <1>1, <1>5, IdleIs DEF Works, PageOrNone
<1>7. \A p \in T : p # q => M[p].rids = node[p].rids /\ Len(node[p].rids) \in Nat
  BY <1>1, PageIs
<1>8. \A p \in T : Extra(w, "underflow", p) = IF m - 1 < k2 /\ p = q THEN 1 ELSE 0
  <2> SUFFICES ASSUME NEW p \in T PROVE Extra(w, "underflow", p) = IF m - 1 < k2 /\ p = q THEN 1 ELSE 0
    OBVIOUS
  <2>1. w = [todo |-> "underflow", page |-> p] <=> m - 1 < k2 /\ p = q
    BY <1>5 DEF Idle
  <2> QED BY <2>1 DEF Extra
<1>9. \A p \in T : Extra(w, "overflow", p) = 0
  BY <1>5 DEF Extra, Idle
<1>10. \A p \in T : Len(M[p].rids) <= o + Extra(w, "overflow", p)
  <2> SUFFICES ASSUME NEW p \in T PROVE Len(M[p].rids) <= o + 0
    BY <1>9
  <2>1. CASE p = q
    <3>1. m <= o
      BY <1>3 DEF m
    <3> QED BY <1>2, <1>4, <2>1, <3>1
  <2>2. CASE p # q
    BY <1>3, <1>4, <1>7, <2>2
  <2> QED BY <2>1, <2>2
<1>11. \A p \in T \ {root} : Len(M[p].rids) >= k2 - Extra(w, "underflow", p)
  <2> SUFFICES ASSUME NEW p \in T \ {root} PROVE Len(M[p].rids) >= k2 - Extra(w, "underflow", p)
    OBVIOUS
  <2>1. CASE p = q
    <3>1. m >= k2
      BY <1>3, <2>1 DEF m
    <3> QED BY <1>2, <1>4, <1>8, <2>1, <3>1
  <2>2. CASE p # q
    <3>1. Len(M[p].rids) >= k2 /\ Extra(w, "underflow", p) = 0
      BY <1>3, <1>7, <1>8, <2>2
    <3> QED BY <1>4, <3>1
  <2> QED BY <2>1, <2>2
<1>12. /\ w.todo # "nothing" => w.page \in T
       /\ w.todo = "nothing" => w = Idle
       /\ w.todo # "overflow"
  BY <1>5 DEF Idle
<1>13. w.todo = "underflow" => Len(M[w.page].rids) < k2
  BY <1>2, <1>5 DEF Idle
<1>14. ~(~M[root].is_leaf /\ Len(M[root].rids) < 2)
  <2>1. CASE q = root
    BY <1>2, <2>1
  <2>2. CASE q # root
    BY <1>1, <1>3, <1>7, <2>2 DEF SameFields
  <2> QED BY <2>1, <2>2
<1>15. \A p \in T \ {root} : Len(M[p].rids) >= MinOf(hdr) - Extra(w, "underflow", p)
  BY <1>11 DEF k2
<1>16. w.todo = "underflow" => Len(M[w.page].rids) < MinOf(hdr)
  BY <1>13 DEF k2
<1>17. \A p \in T : Len(M[p].rids) <= hdr.btree_order + Extra(w, "overflow", p)
  BY <1>10 DEF o
<1> QED
  BY <1>6, <1>12, <1>14, <1>15, <1>16, <1>17 DEF Filled

LEMMA DeleteEntryStep ==
  ASSUME NEW T, NEW lev, NEW nxt, NEW fl, Index(node, hdr, work, T, lev, nxt, fl),
         NEW e \in Entry, DeleteEntry(e)
  PROVE  IInv' /\ Loses(node', e[1], e[2])
<1> DEFINE k == e[1]
<1>1. k \in Int
  BY EntryAssumption
<1> DEFINE ids == Scan(LowerBound(k), UpperBound(k))
           Erases(i, n, after) ==
             /\ n = ids[i][1]
             /\ after = MaintainParent([node EXCEPT ![n] = ErasePair(@, ids[i][2] + 1)], n)
             /\ RidAt(ids[i]) = e[2]
             /\ node' = after /\ work' = UnderflowAt(after, n)
<1>2. PICK i \in 1 .. Len(ids) - 1 : \E n, after : Erases(i, n, after)
  BY DEF DeleteEntry
<1>22. PICK n, after : Erases(i, n, after)
  BY <1>2
<1>3. work = Idle /\ hdr' = hdr
  BY DEF DeleteEntry
<1> HIDE DEF k, ids
<1>4. PICK L : LeafOrder(L, T, nxt)
  BY LeavesInOrder
<1>5. PICK p1 \in Pages, s1 \in Nat : LowerBound(k) = <<p1, s1>> /\ CutAt(T, nxt, Less(k), p1, s1)
  BY <1>1, BoundsCut
<1>6. PICK p2 \in Pages, s2 \in Nat : UpperBound(k) = <<p2, s2>> /\ CutAt(T, nxt, AtMost(k), p2, s2)
  BY <1>1, BoundsCut
<1>7. PICK a \in 1 .. Len(L) : L[a] = p1
  BY <1>4, <1>5 DEF CutAt, LeafOrder
<1>8. PICK b \in 1 .. Len(L) : L[b] = p2
  BY <1>4, <1>6 DEF CutAt, LeafOrder
<1>9. /\ OnScan(L, b, s2, <<L[a], s1>>)
      /\ s2 <= Len(node[L[b]].keys) /\ (s2 = Len(node[L[b]].keys) => b = Len(L))
  BY <1>1, <1>4, <1>5, <1>6, <1>7, <1>8, LowerFirst
<1>10. Scanned(L, T, b, s2, ids)
  <2> DEFINE lower == <<L[a], s1>>
  <2>1. lower \in Pages \X Nat /\ OnScan(L, b, s2, lower) /\ ids = Scan(lower, <<L[b], s2>>)
    BY <1>5, <1>6, <1>7, <1>8, <1>9 DEF ids
  <2> HIDE DEF lower
  <2>2. Scanned(L, T, b, s2, Scan(lower, <<L[b], s2>>))
    BY <1>4, <1>9, <2>1, ScanIs
  <2> QED BY <2>1, <2>2
<1>11. PICK q \in T, s \in Nat : ids[i] = <<q, s>> /\ node[q].is_leaf /\ s + 1 \in 1 .. Len(node[q].keys)
  BY <1>10 DEF Scanned, Entered
<1> DEFINE j == s + 1
           M == [node EXCEPT ![q] = ErasePair(@, j)]
           R == MaintainParent(M, q)
           w == UnderflowAt(R, q)
<1>12. node' = R /\ work' = w
  <2>1. ids[i][1] = q /\ ids[i][2] = s
    BY <1>11
  <2> QED BY <1>22, <2>1
<1>13. j \in 1 .. Len(node[q].keys) /\ node[q].is_leaf
  BY <1>11
<1> HIDE DEF j
<1>14. LeafOut(M, q, j)
  BY <1>3, <1>13, LeafOutIs
<1> HIDE DEF M
<1>15. LeafPut(M, q)
  BY <1>14 DEF LeafOut
<1>16. Told(M, R, T, lev, q)
  BY <1>13, <1>15, LeafTells
<1> HIDE DEF R
<1>17. Ascending(M, T, nxt)
  BY <1>13, <1>14, DeleteAscending
<1>18. EntriesOK(M, T)
  BY <1>13, <1>14, DeleteEntries
<1>19. w \in Works /\ Filled(M, hdr, T, w)
  <2>1. R[q].rids = M[q].rids
    BY <1>16 DEF Told, SameLinks, Index, Shape
  <2>2. w = UnderflowAt(R, q)
    OBVIOUS
  <2> HIDE DEF w
  <2> QED BY <1>3, <1>13, <1>14, <2>1, <2>2, DeleteFilled
<1> HIDE DEF w
<1>20. Index(R, hdr, w, T, lev, nxt, fl)
  BY <1>13, <1>15, <1>16, <1>17, <1>18, <1>19, LeafStep
<1>21. Index(node', hdr', work', T, lev, nxt, fl)
  BY <1>3, <1>12, <1>20
\* The pair taken out is the entry.
<1>23. node[q].rids[j] = e[2]
  <2>1. ids[i][1] = q /\ ids[i][2] + 1 = j
    BY <1>11 DEF j
  <2> QED BY <1>22, <2>1 DEF RidAt
<1>24. node[q].keys[j] = e[1]
  <2>1. j \in DOMAIN node[q].rids
    <3>1. Typed(node) /\ q \in Pages
      BY DEF Index, Shape
    <3> QED BY <1>13, <3>1, PageIs
  <2>2. <<node[q].keys[j], node[q].rids[j]>> \in Entry
    BY <1>13, <2>1 DEF Index, EntriesOK
  <2> QED BY <1>23, <2>2, EntryAssumption
<1>25. Loses(R, e[1], e[2])
  BY <1>13, <1>14, <1>16, <1>23, <1>24, LeafLoses
<1> QED
  BY <1>12, <1>21, <1>25 DEF IInv

-----------------------------------------------------------------------------
(* The invariant holds.                                                    *)

\* create_index makes an index with one leaf, the root, without entries.
LEMMA InitIndex ==
  ASSUME Init
  PROVE  IInv
<1> DEFINE r == NDX_INIT_ROOT_PAGE
           T == {r}
           lev == [p \in Pages |-> 0]
           nxt == [p \in Pages |-> NDX_NO_PAGE]
           fl == << >>
           blank == Released(NDX_NO_PAGE)
           header == IndexPageHeader(NDX_NO_PAGE, TRUE, r, r)
           root == IndexPageHeader(NDX_NO_PAGE, TRUE, NDX_LEAF_HEADER_PAGE, NDX_LEAF_HEADER_PAGE)
<1>1. PICK o \in Orders :
        hdr = [btree_order |-> o, first_free |-> NDX_NO_PAGE, num_pages |-> NDX_INIT_NUM_PAGES,
               root_page |-> r, last_leaf |-> r]
  BY DEF Init
<1>2. /\ node = [p \in Pages |-> CASE p = NDX_LEAF_HEADER_PAGE -> header
                                   [] p = r -> root
                                   [] OTHER -> blank]
      /\ work = Idle
  BY DEF Init
<1>3. /\ NDX_LEAF_HEADER_PAGE \in Pages /\ r \in Pages /\ r # NDX_LEAF_HEADER_PAGE
      /\ NDX_NO_PAGE \notin Pages /\ first_leaf = r
      /\ NDX_INIT_NUM_PAGES = 3 /\ r = 2 /\ Pages \subseteq Nat /\ MaxPage \in Nat /\ MaxPage >= 3
  BY Constants DEF first_leaf
<1>4. node[NDX_LEAF_HEADER_PAGE] = header /\ node[r] = root
      /\ \A p \in Pages : p # r /\ p # NDX_LEAF_HEADER_PAGE => node[p] = blank
  <2> HIDE DEF header, root, blank, r
  <2> QED BY <1>2, <1>3
<1>5. /\ header \in Nodes /\ header.is_leaf /\ header.next_free = NDX_NO_PAGE
      /\ header.keys = << >> /\ header.rids = << >>
  <2>1. r \in PageOrNone /\ NDX_NO_PAGE \in PageOrNone
    BY <1>3 DEF PageOrNone
  <2> QED BY <2>1 DEF IndexPageHeader, Nodes
<1>6. /\ root \in Nodes /\ root.is_leaf /\ root.next_free = NDX_NO_PAGE /\ root.parent = NDX_NO_PAGE
      /\ root.keys = << >> /\ root.rids = << >>
      /\ root.prev_leaf = NDX_LEAF_HEADER_PAGE /\ root.next_leaf = NDX_LEAF_HEADER_PAGE
  <2>1. NDX_LEAF_HEADER_PAGE \in PageOrNone /\ NDX_NO_PAGE \in PageOrNone
    BY <1>3 DEF PageOrNone
  <2> QED BY <2>1 DEF IndexPageHeader, Nodes
<1>7. /\ blank \in Nodes /\ blank.next_free = NDX_NO_PAGE /\ blank.parent = NDX_NO_PAGE
      /\ ~blank.is_leaf /\ blank.next_leaf = NDX_NO_PAGE
      /\ blank.keys = << >> /\ blank.rids = << >>
  <2>1. NDX_NO_PAGE \in PageOrNone
    BY DEF PageOrNone
  <2> QED BY <2>1, ReleasedIs
<1>8. hdr \in Header /\ hdr.root_page = r /\ hdr.last_leaf = r /\ hdr.first_free = NDX_NO_PAGE
      /\ hdr.num_pages = 3
  <2>1. NDX_INIT_NUM_PAGES \in NDX_INIT_NUM_PAGES .. MaxPage + 1 /\ NDX_NO_PAGE \in PageOrNone
    BY <1>3 DEF PageOrNone
  <2> QED BY <1>1, <1>3, <2>1 DEF Header
<1> HIDE DEF header, root, blank
<1>9. Typed(node)
  <2>1. ASSUME NEW p \in Pages
        PROVE  /\ node[p] \in Nodes /\ Len(node[p].keys) = Len(node[p].rids)
               /\ node[p].rids \in IF node[p].is_leaf THEN Seq(Rids) ELSE Seq(Pages)
    <3>1. node[p] \in Nodes /\ node[p].keys = << >> /\ node[p].rids = << >>
      BY <1>4, <1>5, <1>6, <1>7
    <3> QED BY <3>1
  <2>2. node = [p \in Pages |-> node[p]]
    BY <1>2
  <2> QED BY <2>1, <2>2 DEF Typed
<1>10. FreeList(node, hdr, T, fl)
  <2>1. T \cup ToSet(fl) = NDX_INIT_ROOT_PAGE .. hdr.num_pages - 1 /\ T \cap ToSet(fl) = {}
    <3>1. ToSet(fl) = {}
      BY DEF ToSet
    <3>2. r .. 3 - 1 = {r}
      BY <1>3
    <3> QED BY <1>8, <3>1, <3>2
  <2>2. fl \in Seq(Pages) /\ IsInjective(fl) /\ DOMAIN fl = {}
    BY DEF IsInjective
  <2>3. \A p \in Pages : node[p].next_free = NDX_NO_PAGE
    BY <1>4, <1>5, <1>6, <1>7
  <2> QED BY <1>8, <2>1, <2>2, <2>3 DEF FreeList
<1>11. Blank(node, T)
  BY <1>4, <1>7 DEF Blank
<1>12. Shape(T, lev, nxt)
  BY <1>3 DEF Shape
<1>13. Links(node, r, T, lev, nxt)
  <2>1. ParentOK(node, r, T, lev, r)
    BY <1>3, <1>4, <1>6 DEF ParentOK
  <2> QED BY <1>3, <1>4, <1>6, <2>1 DEF Links
<1>14. RingOK(node, r, T, nxt)
  <2>1. LeafOK(node, r, T, nxt, r)
    BY <1>3, <1>4, <1>6 DEF LeafOK
  <2>2. nxt[r] = NDX_NO_PAGE
    BY <1>3
  <2> QED BY <1>3, <1>4, <1>6, <2>1, <2>2 DEF RingOK, header
<1>15. KeysOK(node, T, NDX_NO_PAGE)
  BY <1>4, <1>6 DEF KeysOK
<1>16. Filled(node, hdr, T, work)
  <2>1. hdr.btree_order \in Nat /\ Idle.todo = "nothing" /\ Extra(work, "overflow", r) = 0
    BY <1>2, <1>8, Fill, IdleIs
  <2>2. Len(node[r].rids) = 0
    BY <1>4, <1>6
  <2> QED BY <1>2, <1>4, <1>6, <1>8, <2>1, <2>2 DEF Filled
<1>17. Ascending(node, T, nxt)
  <2>1. DOMAIN node[r].keys = {} /\ nxt[r] = NDX_NO_PAGE
    BY <1>3, <1>4, <1>6
  <2> QED BY <2>1 DEF Ascending
<1>18. EntriesOK(node, T)
  <2>1. DOMAIN node[r].rids = {}
    BY <1>4, <1>6
  <2> QED BY <2>1 DEF EntriesOK
<1>19. work \in Works
  BY <1>2, IdleIs
<1> HIDE DEF T, lev, nxt, fl, r
<1>20. Index(node, hdr, work, T, lev, nxt, fl)
  BY <1>8, <1>9, <1>10, <1>11, <1>12, <1>13, <1>14, <1>15, <1>16, <1>17, <1>18, <1>19 DEF Index
<1> QED
  BY <1>20 DEF IInv

LEMMA NextIndex ==
  ASSUME IInv, [Next]_vars
  PROVE  IInv'
<1>1. PICK T, lev, nxt, fl : Index(node, hdr, work, T, lev, nxt, fl)
  BY DEF IInv
<1>2. ASSUME NEW e \in Entry, InsertEntry(e) PROVE IInv'
  BY <1>1, <1>2, InsertEntryStep
<1>3. ASSUME NEW e \in Entry, DeleteEntry(e) PROVE IInv'
  BY <1>1, <1>3, DeleteEntryStep
<1>4. CASE GrowRoot
  BY <1>1, <1>4, GrowRootStep
<1>5. CASE Split
  BY <1>1, <1>5, SplitStep
<1>6. CASE ShrinkRoot
  BY <1>1, <1>6, ShrinkRootStep
<1>7. CASE BorrowLeft
  BY <1>1, <1>7, BorrowLeftStep
<1>8. CASE BorrowRight
  BY <1>1, <1>8, BorrowRightStep
<1>9. CASE MergeLeft
  BY <1>1, <1>9, MergeLeftStep
<1>10. CASE MergeRight
  BY <1>1, <1>10, MergeRightStep
<1>11. CASE UNCHANGED vars
  BY <1>11 DEF vars, IInv
<1> QED
  BY <1>2, <1>3, <1>4, <1>5, <1>6, <1>7, <1>8, <1>9, <1>10, <1>11 DEF Next, Rebalance

\* Every index that can be reached has the invariant: it is inductive.
THEOREM Invariance == Spec => []IInv
<1>1. Init => IInv
  BY InitIndex
<1>2. IInv /\ [Next]_vars => IInv'
  BY NextIndex
<1> QED
  BY <1>1, <1>2, PTL DEF Spec
-----------------------------------------------------------------------------
(* The types.                                                              *)

LEMMA IndexTypes ==
  ASSUME NEW T, NEW lev, NEW nxt, NEW fl, Index(node, hdr, work, T, lev, nxt, fl)
  PROVE  TypeOK
<1>1. /\ Typed(node) /\ hdr \in Header /\ work \in Works /\ Shape(T, lev, nxt)
      /\ Filled(node, hdr, T, work)
  BY DEF Index
<1>2. ASSUME NEW p \in Pages
      PROVE  /\ DOMAIN node[p] =
                  {"next_free", "parent", "is_leaf", "prev_leaf", "next_leaf", "keys", "rids"}
             /\ {node[p].next_free, node[p].parent, node[p].prev_leaf, node[p].next_leaf}
                  \subseteq PageOrNone
             /\ node[p].is_leaf \in BOOLEAN
             /\ Len(node[p].keys) = Len(node[p].rids)
             /\ Len(node[p].keys) <=
                  hdr.btree_order + IF work = [todo |-> "overflow", page |-> p] THEN 1 ELSE 0
             /\ ToSet(node[p].keys) \subseteq Keys
             /\ ToSet(node[p].rids) \subseteq IF node[p].is_leaf THEN Rids ELSE Pages
  <2>1. /\ node[p] \in Nodes /\ node[p].keys \in Seq(Keys)
        /\ Len(node[p].keys) = Len(node[p].rids) /\ Len(node[p].rids) \in Nat
        /\ node[p].is_leaf => node[p].rids \in Seq(Rids)
        /\ ~node[p].is_leaf => node[p].rids \in Seq(Pages)
    BY <1>1, PageIs
  <2>2. /\ DOMAIN node[p] =
             {"next_free", "parent", "is_leaf", "prev_leaf", "next_leaf", "keys", "rids"}
        /\ {node[p].next_free, node[p].parent, node[p].prev_leaf, node[p].next_leaf}
             \subseteq PageOrNone
        /\ node[p].is_leaf \in BOOLEAN
    BY <2>1 DEF Nodes
  <2>3. ToSet(node[p].keys) \subseteq Keys
    BY <2>1 DEF ToSet
  <2>4. ToSet(node[p].rids) \subseteq IF node[p].is_leaf THEN Rids ELSE Pages
    BY <2>1 DEF ToSet
  <2>5. Len(node[p].rids) <= hdr.btree_order + Extra(work, "overflow", p)
    <3>1. hdr.btree_order \in Nat
      BY <1>1, Fill
    <3>2. Extra(work, "overflow", p) \in {0, 1}
      BY DEF Extra
    <3>3. CASE p \in T
      BY <1>1, <3>3 DEF Filled
    <3>4. CASE p \notin T
      <4>1. Len(node[p].keys) = 0
        BY <3>4, KeysAre
      <4> QED BY <2>1, <3>1, <3>2, <4>1
    <3> QED BY <3>3, <3>4
  <2> QED BY <2>1, <2>2, <2>3, <2>4, <2>5 DEF Extra
<1> QED
  BY <1>1, <1>2 DEF TypeOK, Header, Works

\* A node never holds more than the order allows, but for the one an insert has
\* just made overfull, and the spare place of its page is enough for that one.
THEOREM TypeCorrect == Spec => []TypeOK
<1>1. IInv => TypeOK
  BY IndexTypes DEF IInv
<1> QED
  BY <1>1, Invariance, PTL

-----------------------------------------------------------------------------
(* The tree.                                                               *)

\* The children of a page.
Kids(p) == IF node[p].is_leaf THEN {} ELSE ToSet(node[p].rids)

LEMMA KidsAre ==
  ASSUME NEW T, NEW lev, NEW nxt, NEW fl, Index(node, hdr, work, T, lev, nxt, fl), NEW p \in Pages
  PROVE  /\ \A c \in Kids(p) : /\ c \in T /\ c \in Pages /\ node[c].parent = p
                               /\ lev[c] \in Nat /\ lev[p] = lev[c] + 1
         /\ p \notin T => Kids(p) = {}
         /\ ~node[p].is_leaf => Kids(p) = {node[p].rids[i] : i \in 1 .. Len(node[p].rids)}
<1>1. /\ Typed(node) /\ Shape(T, lev, nxt) /\ Links(node, hdr.root_page, T, lev, nxt)
      /\ RingOK(node, hdr.last_leaf, T, nxt) /\ Blank(node, T)
  BY DEF Index
<1>2. p \notin T => Kids(p) = {}
  <2>1. node[NDX_LEAF_HEADER_PAGE].is_leaf
    BY <1>1 DEF RingOK, IndexPageHeader
  <2>2. p \notin T /\ p # NDX_LEAF_HEADER_PAGE => node[p].rids = << >>
    BY <1>1 DEF Blank
  <2> QED BY <2>1, <2>2 DEF Kids, ToSet
<1>3. ~node[p].is_leaf => Kids(p) = {node[p].rids[i] : i \in 1 .. Len(node[p].rids)}
  <2>1. DOMAIN node[p].rids = 1 .. Len(node[p].rids)
    BY <1>1, PageIs
  <2> QED BY <2>1 DEF Kids, ToSet
<1>4. ASSUME NEW c \in Kids(p)
      PROVE  c \in T /\ c \in Pages /\ node[c].parent = p /\ lev[c] \in Nat /\ lev[p] = lev[c] + 1
  <2>1. p \in T /\ ~node[p].is_leaf
    BY <1>2 DEF Kids
  <2>2. PICK i \in 1 .. Len(node[p].rids) : node[p].rids[i] = c
    BY <1>3, <2>1
  <2> QED BY <1>1, <2>1, <2>2, ChildIs
<1> QED
  BY <1>2, <1>3, <1>4

\* The recursion of Under.
UnderOf(under) ==
  [n \in Pages |-> IF node[n].is_leaf THEN {n}
                   ELSE {n} \cup UNION {under[c] : c \in ToSet(node[n].rids)}]

LEMMA UnderExists ==
  ASSUME NEW T, NEW lev, NEW nxt, NEW fl, Index(node, hdr, work, T, lev, nxt, fl)
  PROVE  \E under : under = UnderOf(under)
<1> DEFINE S == Pages
           V == SUBSET Pages
           G == [a \in S \X [S -> V] |-> {a[1]} \cup UNION {a[2][c] : c \in Kids(a[1])}]
<1>1. lev \in [S -> Nat]
  BY DEF Index, Shape
<1>2. \A p \in Pages : \A c \in Kids(p) : c \in Pages /\ lev[c] < lev[p]
  <2> SUFFICES ASSUME NEW p \in Pages, NEW c \in Kids(p) PROVE c \in Pages /\ lev[c] < lev[p]
    OBVIOUS
  <2>1. c \in Pages /\ lev[c] \in Nat /\ lev[p] = lev[c] + 1
    BY KidsAre
  <2> QED BY <2>1
<1>3. ASSUME NEW p \in S, NEW f \in [S -> V]
      PROVE  G[<<p, f>>] = {p} \cup UNION {f[c] : c \in Kids(p)}
  OBVIOUS
<1>4. G \in [S \X [S -> V] -> V]
  <2> SUFFICES ASSUME NEW a \in S \X [S -> V]
               PROVE  {a[1]} \cup UNION {a[2][c] : c \in Kids(a[1])} \in V
    OBVIOUS
  <2>1. a[1] \in Pages /\ a[2] \in [Pages -> V]
    OBVIOUS
  <2> QED BY <1>2, <2>1
<1>5. Below(S, V, lev, G)
  <2> SUFFICES ASSUME NEW x \in S, NEW f \in [S -> V], NEW g \in [S -> V],
                      \A y \in S : lev[y] < lev[x] => f[y] = g[y]
               PROVE  G[<<x, f>>] = G[<<x, g>>]
    BY DEF Below
  <2>1. \A c \in Kids(x) : f[c] = g[c]
    BY <1>2
  <2>2. {f[c] : c \in Kids(x)} = {g[c] : c \in Kids(x)}
    BY <2>1
  <2>3. G[<<x, f>>] = {x} \cup UNION {f[c] : c \in Kids(x)}
    BY <1>3
  <2>4. G[<<x, g>>] = {x} \cup UNION {g[c] : c \in Kids(x)}
    BY <1>3
  <2> HIDE DEF G
  <2> QED BY <2>2, <2>3, <2>4
<1> HIDE DEF G, S, V
<1>6. Recurs(S, V, lev, G)
  <2>1. V # {}
    BY DEF V
  <2> QED BY <1>1, <1>4, <1>5, <2>1 DEF Recurs
<1>7. \E f \in [S -> V] : f = [x \in S |-> G[<<x, f>>]]
  BY <1>6, Recursion
<1> USE DEF S
<1>8. PICK f \in [S -> V] : f = [x \in S |-> G[<<x, f>>]]
  BY <1>7
<1>9. \A p \in Pages : f[p] = G[<<p, f>>]
  BY <1>8
<1>10. \A p \in Pages : f[p] = {p} \cup UNION {f[c] : c \in Kids(p)}
  BY <1>3, <1>9
<1>11. f = [p \in Pages |-> f[p]]
  BY <1>8
<1>12. \A p \in Pages : f[p] = IF node[p].is_leaf THEN {p}
                               ELSE {p} \cup UNION {f[c] : c \in ToSet(node[p].rids)}
  BY <1>10 DEF Kids
<1>13. f = UnderOf(f)
  BY <1>11, <1>12 DEF UnderOf
<1> QED
  BY <1>13

LEMMA UnderIs ==
  ASSUME NEW T, NEW lev, NEW nxt, NEW fl, Index(node, hdr, work, T, lev, nxt, fl), NEW p \in Pages
  PROVE  Under[p] = {p} \cup UNION {Under[c] : c \in Kids(p)}
<1>1. Under = CHOOSE f : f = UnderOf(f)
  BY DEF Under, UnderOf
<1>2. \E f : f = UnderOf(f)
  BY UnderExists
<1>3. Under = UnderOf(Under)
  BY <1>1, <1>2
<1>4. Under[p] = IF node[p].is_leaf THEN {p} ELSE {p} \cup UNION {Under[c] : c \in ToSet(node[p].rids)}
  BY <1>3 DEF UnderOf
<1> QED
  BY <1>4 DEF Kids

\* The pages under the root are those of the tree.
LEMMA TreeIs ==
  ASSUME NEW T, NEW lev, NEW nxt, NEW fl, Index(node, hdr, work, T, lev, nxt, fl)
  PROVE  Tree = T
<1>1. /\ Typed(node) /\ Shape(T, lev, nxt) /\ Links(node, hdr.root_page, T, lev, nxt)
  BY DEF Index
<1> DEFINE root == hdr.root_page
           K == lev[root]
<1>2. /\ root \in T /\ root \in Pages /\ K \in Nat
      /\ \A p \in T : p \in Pages /\ lev[p] \in Nat /\ lev[p] <= K
  BY <1>1, InnerIs DEF Links
<1>3. lev \in [Pages -> Nat]
  BY <1>1 DEF Shape
<1>4. \A p \in Pages : Under[p] = {p} \cup UNION {Under[c] : c \in Kids(p)}
  BY UnderIs
<1>5. \A p \in Pages : \A c \in Kids(p) : c \in T /\ c \in Pages /\ node[c].parent = p /\ lev[c] < lev[p]
  <2> SUFFICES ASSUME NEW p \in Pages, NEW c \in Kids(p)
               PROVE  c \in T /\ c \in Pages /\ node[c].parent = p /\ lev[c] < lev[p]
    OBVIOUS
  <2>1. c \in T /\ c \in Pages /\ node[c].parent = p /\ lev[c] \in Nat /\ lev[p] = lev[c] + 1
    BY KidsAre
  <2> QED BY <2>1
<1> HIDE DEF K
<1>6. \A p \in T : Under[p] \subseteq T
  <2> DEFINE Bad == {p \in T : ~(Under[p] \subseteq T)}
  <2> SUFFICES ASSUME Bad # {} PROVE FALSE
    OBVIOUS
  <2>1. \A x \in Bad : lev[x] \in Nat
    BY <1>2
  <2>2. PICK p \in Bad : \A y \in Bad : lev[p] <= lev[y]
    <3> HIDE DEF Bad
    <3> QED BY <2>1, LeastRank
  <2>3. p \in T /\ p \in Pages
    BY <1>2
  <2>4. ASSUME NEW c \in Kids(p) PROVE Under[c] \subseteq T
    <3>1. c \in T /\ lev[c] < lev[p] /\ lev[c] \in Nat /\ lev[p] \in Nat
      BY <1>2, <1>5, <2>3
    <3>2. c \notin Bad
      <4> HIDE DEF Bad
      <4> QED BY <2>2, <3>1
    <3> QED BY <3>1, <3>2
  <2>5. Under[p] \subseteq T
    BY <1>4, <2>3, <2>4
  <2> QED BY <2>5
<1>7. \A p \in Pages : \A x \in Pages : x \in Under[p] => \A d \in Kids(x) : d \in Under[p]
  <2> DEFINE Bad == {p \in Pages : \E x \in Pages : x \in Under[p] /\ ~(\A d \in Kids(x) : d \in Under[p])}
  <2> SUFFICES ASSUME Bad # {} PROVE FALSE
    OBVIOUS
  <2>1. \A x \in Bad : lev[x] \in Nat
    BY <1>3
  <2>2. PICK p \in Bad : \A y \in Bad : lev[p] <= lev[y]
    <3> HIDE DEF Bad
    <3> QED BY <2>1, LeastRank
  <2>3. p \in Pages /\ \E x \in Pages : x \in Under[p] /\ ~(\A d \in Kids(x) : d \in Under[p])
    OBVIOUS
  <2>4. PICK x \in Pages : x \in Under[p] /\ ~(\A d \in Kids(x) : d \in Under[p])
    BY <2>3
  <2>5. PICK d \in Kids(x) : d \notin Under[p]
    BY <2>4
  <2>6. d \in Under[d]
    BY <1>4, <1>5
  <2>7. x # p
    BY <1>4, <2>3, <2>5, <2>6
  <2>8. PICK c \in Kids(p) : x \in Under[c]
    BY <1>4, <2>3, <2>4, <2>7
  <2>9. c \in Pages /\ lev[c] < lev[p] /\ lev[c] \in Nat /\ lev[p] \in Nat
    BY <1>3, <1>5, <2>3
  <2>10. c \notin Bad
    <3> HIDE DEF Bad
    <3> QED BY <2>2, <2>9
  <2>11. d \in Under[c]
    BY <2>8, <2>9, <2>10
  <2>12. d \in Under[p]
    BY <1>4, <2>3, <2>8, <2>11
  <2> QED BY <2>5, <2>12
<1>8. \A q \in T : q \in Under[root]
  <2> DEFINE rank == [q \in T |-> K - lev[q]]
             Bad == {q \in T : q \notin Under[root]}
  <2> SUFFICES ASSUME Bad # {} PROVE FALSE
    OBVIOUS
  <2>1. \A x \in Bad : rank[x] \in Nat
    BY <1>2
  <2>2. PICK q \in Bad : \A y \in Bad : rank[q] <= rank[y]
    <3> HIDE DEF Bad, rank
    <3> QED BY <2>1, LeastRank
  <2>3. q \in T /\ q \notin Under[root] /\ q # root
    BY <1>2, <1>4
  <2> DEFINE x == node[q].parent
  <2>4. x \in T /\ x \in Pages /\ q \in Kids(x) /\ lev[x] = lev[q] + 1
    <3>1. x \in T /\ ~node[x].is_leaf /\ lev[x] = lev[q] + 1 /\ q \in ToSet(node[x].rids)
      BY <1>1, <2>3 DEF Links, ParentOK
    <3> QED BY <1>2, <3>1 DEF Kids
  <2> HIDE DEF x
  <2>5. ~(rank[q] <= rank[x])
    <3>1. rank[q] = K - lev[q] /\ rank[x] = K - lev[x]
      BY <2>3, <2>4
    <3> HIDE DEF rank
    <3> QED BY <1>2, <2>3, <2>4, <3>1
  <2>6. x \notin Bad
    <3> HIDE DEF rank, Bad
    <3> QED BY <2>2, <2>5
  <2>7. x \in Under[root]
    BY <2>4, <2>6
  <2>8. q \in Under[root]
    BY <1>2, <1>7, <2>4, <2>7
  <2> QED BY <2>3, <2>8
<1> QED
  BY <1>2, <1>6, <1>8 DEF Tree

-----------------------------------------------------------------------------
(* The lists of pages that a link leads through.                           *)

\* The recursion of FreeFrom and of Ring: the pages from one on, up to one of stop.
ChainOf(stop, next, chain) ==
  [n \in PageOrNone |-> IF n \in stop THEN << >> ELSE <<n>> \o chain[next[n]]]

\* A list of the pages that are on the way to one of stop.
Chained(s, stop, next) ==
  /\ s \in Seq(Pages) /\ IsInjective(s)
  /\ \A i \in 1 .. Len(s) : /\ s[i] \notin stop
                            /\ i < Len(s) => next[s[i]] = s[i + 1]
                            /\ i = Len(s) => next[s[i]] \in stop /\ next[s[i]] \in PageOrNone
  /\ \A n \in PageOrNone : n \notin stop /\ n \notin ToSet(s) =>
       next[n] \in stop /\ next[n] \in PageOrNone

LEMMA TailIs ==
  ASSUME NEW S, NEW s \in Seq(S), NEW i \in 1 .. Len(s)
  PROVE  /\ i < Len(s) => SubSeq(s, i, Len(s)) = <<s[i]>> \o SubSeq(s, i + 1, Len(s))
         /\ i = Len(s) => SubSeq(s, i, Len(s)) = <<s[i]>> \o << >>
<1> DEFINE m == Len(s)
<1>1. m \in Nat /\ m \in i .. m /\ i \in 1 .. m
  OBVIOUS
<1>2. SubSeq(s, i, m) = <<s[i]>> \o SubSeq(s, i + 1, m)
  BY <1>1, SubSeqRecursiveFirst
<1>3. i = m => SubSeq(s, i + 1, m) = << >>
  <2> DEFINE j == i + 1
  <2>1. i = m => j \in Int /\ m \in Int /\ m < j
    BY <1>1
  <2> HIDE DEF j, m
  <2>2. i = m => SubSeq(s, j, m) = << >>
    BY <2>1, SubSeqEmpty
  <2> QED BY <2>2 DEF j
<1> QED
  BY <1>2, <1>3

LEMMA ChainExists ==
  ASSUME NEW s, NEW stop, NEW next, Chained(s, stop, next)
  PROVE  \E chain : chain = ChainOf(stop, next, chain)
<1> DEFINE m == Len(s)
           At(n) == CHOOSE i \in 1 .. m : s[i] = n
           g == [n \in PageOrNone |-> IF n \in stop THEN << >>
                                      ELSE IF n \in ToSet(s) THEN SubSeq(s, At(n), m) ELSE <<n>> \o << >>]
<1>1. /\ s \in Seq(Pages) /\ IsInjective(s) /\ m \in Nat /\ DOMAIN s = 1 .. m
      /\ \A i \in 1 .. m : s[i] \notin stop /\ s[i] \in PageOrNone
      /\ \A i \in 1 .. m : i < m => next[s[i]] = s[i + 1]
      /\ \A i \in 1 .. m : i = m => next[s[i]] \in stop /\ next[s[i]] \in PageOrNone
      /\ \A n \in PageOrNone : n \notin stop /\ n \notin ToSet(s) => next[n] \in stop /\ next[n] \in PageOrNone
  <2>1. s \in Seq(Pages)
    BY DEF Chained
  <2>2. m \in Nat /\ DOMAIN s = 1 .. m /\ \A i \in 1 .. m : s[i] \in PageOrNone
    BY <2>1 DEF PageOrNone
  <2> QED BY <2>1, <2>2 DEF Chained
<1>2. \A n \in PageOrNone : n \in stop => g[n] = << >>
  OBVIOUS
<1>3. \A i \in 1 .. m : s[i] \in ToSet(s) /\ At(s[i]) = i
  <2>1. \A i, j \in 1 .. m : s[i] = s[j] => i = j
    BY <1>1 DEF IsInjective
  <2>2. \A i \in 1 .. m : s[i] \in ToSet(s)
    BY <1>1, InToSet
  <2> HIDE DEF m
  <2> QED BY <2>1, <2>2
<1>4. ASSUME NEW i \in 1 .. m PROVE g[s[i]] = SubSeq(s, i, m)
  <2> HIDE DEF m, At
  <2> QED BY <1>1, <1>3
<1>5. \A n \in PageOrNone : n \notin stop /\ n \notin ToSet(s) => g[n] = <<n>> \o << >>
  <2> HIDE DEF m, At
  <2> QED OBVIOUS
<1>6. g = [n \in PageOrNone |-> g[n]]
  OBVIOUS
<1> HIDE DEF g, At
<1>7. ASSUME NEW n \in PageOrNone, n \notin stop PROVE g[n] = <<n>> \o g[next[n]]
  <2>1. CASE n \in ToSet(s)
    <3>1. PICK i \in 1 .. m : s[i] = n
      BY <1>1, <2>1, InToSet
    <3>2. /\ i < m => SubSeq(s, i, m) = <<s[i]>> \o SubSeq(s, i + 1, m)
          /\ i = m => SubSeq(s, i, m) = <<s[i]>> \o << >>
      BY <1>1, TailIs
    <3>3. CASE i < m
      <4> DEFINE j == i + 1
      <4>1. j \in 1 .. m
        <5> HIDE DEF m
        <5> QED BY <1>1, <3>3
      <4>2. next[s[i]] = s[j]
        BY <1>1, <3>3
      <4>3. SubSeq(s, i, m) = <<s[i]>> \o SubSeq(s, j, m)
        BY <3>2, <3>3
      <4> HIDE DEF j, m
      <4>4. g[s[j]] = SubSeq(s, j, m) /\ g[s[i]] = SubSeq(s, i, m)
        BY <1>4, <4>1
      <4>5. g[n] = SubSeq(s, i, m)
        BY <3>1, <4>4
      <4>6. SubSeq(s, i, m) = <<n>> \o SubSeq(s, j, m)
        BY <3>1, <4>3
      <4>7. g[next[n]] = SubSeq(s, j, m)
        BY <3>1, <4>2, <4>4
      <4> QED BY <4>5, <4>6, <4>7
    <3>4. CASE ~(i < m)
      <4>1. i = m
        <5> m \in Nat
          BY <1>1
        <5> HIDE DEF m
        <5> QED BY <3>4
      <4>2. g[next[n]] = << >>
        BY <1>1, <1>2, <3>1, <4>1
      <4> HIDE DEF m
      <4> QED BY <1>4, <3>1, <3>2, <4>1, <4>2
    <3> QED BY <3>3, <3>4
  <2>2. CASE n \notin ToSet(s)
    <3>1. g[next[n]] = << >>
      BY <1>1, <1>2, <1>7, <2>2
    <3> QED BY <1>5, <1>7, <2>2, <3>1
  <2> QED BY <2>1, <2>2
<1>8. g = ChainOf(stop, next, g)
  BY <1>2, <1>6, <1>7 DEF ChainOf
<1> QED
  BY <1>8

LEMMA ChainIs ==
  ASSUME NEW s, NEW stop, NEW next, Chained(s, stop, next),
         NEW chain, chain = ChainOf(stop, next, chain)
  PROVE  /\ \A i \in 1 .. Len(s) : chain[s[i]] = SubSeq(s, i, Len(s))
         /\ \A n \in PageOrNone : n \in stop => chain[n] = << >>
<1> DEFINE m == Len(s)
<1>1. /\ s \in Seq(Pages) /\ m \in Nat
      /\ \A i \in 1 .. m : s[i] \notin stop /\ s[i] \in PageOrNone
      /\ \A i \in 1 .. m : i < m => next[s[i]] = s[i + 1]
      /\ \A i \in 1 .. m : i = m => next[s[i]] \in stop /\ next[s[i]] \in PageOrNone
  <2>1. s \in Seq(Pages)
    BY DEF Chained
  <2>2. m \in Nat /\ \A i \in 1 .. m : s[i] \in PageOrNone
    BY <2>1 DEF PageOrNone
  <2> QED BY <2>1, <2>2 DEF Chained
<1>2. \A n \in PageOrNone : chain[n] = IF n \in stop THEN << >> ELSE <<n>> \o chain[next[n]]
  <2> DEFINE e(n) == IF n \in stop THEN << >> ELSE <<n>> \o chain[next[n]]
  <2>1. chain = [n \in PageOrNone |-> e(n)]
    BY DEF ChainOf
  <2> HIDE DEF e
  <2>2. \A n \in PageOrNone : chain[n] = e(n)
    BY <2>1
  <2> QED BY <2>2 DEF e
<1> DEFINE rank == [i \in 1 .. m |-> m - i]
           Bad == {i \in 1 .. m : chain[s[i]] # SubSeq(s, i, m)}
<1>3. Bad = {}
  <2> SUFFICES ASSUME Bad # {} PROVE FALSE
    OBVIOUS
  <2>1. \A i \in Bad : rank[i] \in Nat
    BY <1>1
  <2>2. PICK i \in Bad : \A y \in Bad : rank[i] <= rank[y]
    <3> HIDE DEF Bad, rank
    <3> QED BY <2>1, LeastRank
  <2>3. i \in 1 .. m /\ chain[s[i]] # SubSeq(s, i, m)
    OBVIOUS
  <2>4. chain[s[i]] = <<s[i]>> \o chain[next[s[i]]]
    BY <1>1, <1>2, <2>3
  <2>5. /\ i < m => SubSeq(s, i, m) = <<s[i]>> \o SubSeq(s, i + 1, m)
        /\ i = m => SubSeq(s, i, m) = <<s[i]>> \o << >>
    BY <1>1, <2>3, TailIs
  <2>6. CASE i < m
    <3> DEFINE j == i + 1
    <3>1. j \in 1 .. m /\ ~(m - i <= m - j)
      <4> HIDE DEF m
      <4> QED BY <1>1, <2>3, <2>6
    <3>2. ~(rank[i] <= rank[j])
      <4>1. rank[i] = m - i /\ rank[j] = m - j
        <5> HIDE DEF m, j
        <5> QED BY <2>3, <3>1
      <4> QED BY <3>1, <4>1
    <3>3. next[s[i]] = s[j]
      BY <1>1, <2>3, <2>6
    <3>4. SubSeq(s, i, m) = <<s[i]>> \o SubSeq(s, j, m)
      BY <2>5, <2>6
    <3> HIDE DEF j, rank
    <3>5. j \notin Bad
      <4> HIDE DEF Bad
      <4> QED BY <2>2, <3>2
    <3> HIDE DEF m
    <3>6. chain[s[j]] = SubSeq(s, j, m)
      BY <3>1, <3>5
    <3> QED BY <2>3, <2>4, <3>3, <3>4, <3>6
  <2>7. CASE ~(i < m)
    <3>1. i = m
      BY <1>1, <2>3, <2>7
    <3>2. chain[next[s[i]]] = << >>
      BY <1>1, <1>2, <2>3, <3>1
    <3> QED BY <2>3, <2>4, <2>5, <3>1, <3>2
  <2> QED BY <2>6, <2>7
<1> QED
  BY <1>2, <1>3

\* The free list, from its head on.
LEMMA FreeIs ==
  ASSUME NEW T, NEW lev, NEW nxt, NEW fl, Index(node, hdr, work, T, lev, nxt, fl)
  PROVE  FreeFrom[hdr.first_free] = fl
<1> DEFINE stop == {NDX_NO_PAGE}
           next == [n \in PageOrNone |-> node[n].next_free]
           FreeOf(f) == [n \in PageOrNone |-> IF n = NDX_NO_PAGE THEN << >> ELSE <<n>> \o f[node[n].next_free]]
<1>1. /\ FreeList(node, hdr, T, fl) /\ Typed(node)
  BY DEF Index
<1>2. /\ fl \in Seq(Pages) /\ IsInjective(fl) /\ Len(fl) \in Nat /\ DOMAIN fl = 1 .. Len(fl)
      /\ \A i \in 1 .. Len(fl) : fl[i] \in Pages /\ fl[i] \in PageOrNone /\ fl[i] # NDX_NO_PAGE
  <2>1. fl \in Seq(Pages)
    BY <1>1 DEF FreeList
  <2>2. Len(fl) \in Nat /\ DOMAIN fl = 1 .. Len(fl) /\ \A i \in 1 .. Len(fl) : fl[i] \in Pages
    BY <2>1
  <2> QED BY <1>1, <2>1, <2>2, Constants DEF FreeList, PageOrNone
<1>3. /\ \A i \in 1 .. Len(fl) : node[fl[i]].next_free = IF i < Len(fl) THEN fl[i + 1] ELSE NDX_NO_PAGE
      /\ \A p \in Pages : p \notin ToSet(fl) => node[p].next_free = NDX_NO_PAGE
      /\ NDX_NO_PAGE \in PageOrNone
  BY <1>1, <1>2 DEF FreeList, PageOrNone
<1>4. \A f : ChainOf(stop, next, f) = FreeOf(f)
  BY DEF ChainOf
<1>5. Chained(fl, stop, next)
  <2>1. \A i \in 1 .. Len(fl) : next[fl[i]] = IF i < Len(fl) THEN fl[i + 1] ELSE NDX_NO_PAGE
    BY <1>2, <1>3
  <2>2. \A n \in PageOrNone : n \notin stop /\ n \notin ToSet(fl) => next[n] = NDX_NO_PAGE
    BY <1>3 DEF PageOrNone
  <2> HIDE DEF next
  <2>3. NDX_NO_PAGE \in stop /\ \A i \in 1 .. Len(fl) : fl[i] \notin stop
    BY <1>2
  <2>4. \A i \in 1 .. Len(fl) : i < Len(fl) => next[fl[i]] = fl[i + 1]
    BY <2>1
  <2>5. \A i \in 1 .. Len(fl) : i = Len(fl) => next[fl[i]] = NDX_NO_PAGE
    <3> SUFFICES ASSUME NEW i \in 1 .. Len(fl), i = Len(fl) PROVE ~(i < Len(fl))
      BY <2>1
    <3> QED BY <1>2
  <2> HIDE DEF stop
  <2> QED BY <1>2, <1>3, <2>2, <2>3, <2>4, <2>5 DEF Chained
<1>6. FreeFrom = CHOOSE f : f = FreeOf(f)
  BY DEF FreeFrom
<1>7. \E f : f = FreeOf(f)
  <2>1. \E f : f = ChainOf(stop, next, f)
    <3> HIDE DEF stop, next
    <3> QED BY <1>5, ChainExists
  <2>2. PICK f : f = ChainOf(stop, next, f)
    BY <2>1
  <2>3. f = FreeOf(f)
    <3> HIDE DEF stop, next, FreeOf
    <3> QED BY <1>4, <2>2
  <2> QED BY <2>3
<1>8. FreeFrom = ChainOf(stop, next, FreeFrom)
  <2>1. FreeFrom = FreeOf(FreeFrom)
    <3> HIDE DEF FreeOf
    <3> QED BY <1>6, <1>7
  <2> QED BY <1>4, <2>1
<1>9. /\ \A i \in 1 .. Len(fl) : FreeFrom[fl[i]] = SubSeq(fl, i, Len(fl))
      /\ \A n \in PageOrNone : n \in stop => FreeFrom[n] = << >>
  <2> HIDE DEF stop, next
  <2> QED BY <1>5, <1>8, ChainIs
<1>10. CASE fl = << >>
  <2>1. hdr.first_free = NDX_NO_PAGE
    BY <1>1, <1>10 DEF FreeList
  <2> QED BY <1>3, <1>9, <1>10, <2>1
<1>11. CASE fl # << >>
  <2> DEFINE one == 1
  <2>1. hdr.first_free = fl[one] /\ one \in 1 .. Len(fl) /\ one = 1
    <3>1. Len(fl) # 0
      BY <1>2, <1>11, NotNothing
    <3> QED BY <1>1, <1>2, <1>11, <3>1 DEF FreeList
  <2> HIDE DEF one
  <2>2. FreeFrom[fl[one]] = SubSeq(fl, one, Len(fl))
    BY <1>9, <2>1
  <2>3. SubSeq(fl, 1, Len(fl)) = fl
    BY <1>2, SubSeqFull
  <2> QED BY <2>1, <2>2, <2>3
<1> QED
  BY <1>10, <1>11

\* Every page of the file is a node of the tree or on the free list, and none is
\* both or is there twice: no split takes a page in use and no merge loses one.
THEOREM AllPagesAccounted == Spec => []PagesAccounted
<1>1. ASSUME NEW T, NEW lev, NEW nxt, NEW fl, Index(node, hdr, work, T, lev, nxt, fl)
      PROVE  PagesAccounted
  <2>1. FreeList(node, hdr, T, fl)
    BY <1>1 DEF Index
  <2>2. Tree = T /\ FreeFrom[hdr.first_free] = fl
    BY <1>1, TreeIs, FreeIs
  <2> QED BY <2>1, <2>2 DEF PagesAccounted, FreeList
<1>2. IInv => PagesAccounted
  BY <1>1 DEF IInv
<1> QED
  BY <1>2, Invariance, PTL

\* An inner node holds, with every child, the greatest key of that child, and the
\* child knows its parent: also between the rounds of a loop.
THEOREM ParentsAlwaysKnow == Spec => []ParentsKnow
<1>1. ASSUME NEW T, NEW lev, NEW nxt, NEW fl, Index(node, hdr, work, T, lev, nxt, fl)
      PROVE  ParentsKnow
  <2>1. Typed(node) /\ Shape(T, lev, nxt) /\ Links(node, hdr.root_page, T, lev, nxt)
    BY <1>1 DEF Index
  <2>2. Tree = T
    BY <1>1, TreeIs
  <2>3. ASSUME NEW p \in T, ~node[p].is_leaf, NEW i \in DOMAIN node[p].rids
        PROVE  LET c == node[p].rids[i] IN
               node[c].parent = p /\ node[c].keys # << >> /\ node[p].keys[i] = Last(node[c].keys)
    <3>1. i \in 1 .. Len(node[p].rids)
      <4>1. p \in Pages
        BY <2>1, InnerIs
      <4> QED BY <2>1, <2>3, <4>1, PageIs
    <3> DEFINE c == node[p].rids[i]
    <3>2. c \in T /\ c \in Pages /\ node[c].parent = p /\ c # hdr.root_page
      BY <2>1, <2>3, <3>1, ChildIs
    <3>3. node[p].keys[i] = Last(node[c].keys)
      BY <1>1, <2>3, <3>1, KeyIs
    <3> HIDE DEF c
    <3>4. node[c].keys # << >>
      BY <1>1, <3>2, KeysAre
    <3> QED BY <3>2, <3>3, <3>4 DEF c
  <2> QED BY <2>2, <2>3 DEF ParentsKnow
<1>2. IInv => ParentsKnow
  BY <1>1 DEF IInv
<1> QED
  BY <1>2, Invariance, PTL

\* The recursion of Depth.
DepthOf(depth) ==
  [n \in Pages |-> IF node[n].parent = NDX_NO_PAGE THEN 0 ELSE 1 + depth[node[n].parent]]

\* The depth of a node and its level are those of the root together.
LEMMA DepthIs ==
  ASSUME NEW T, NEW lev, NEW nxt, NEW fl, Index(node, hdr, work, T, lev, nxt, fl)
  PROVE  \A p \in T : Depth[p] = lev[hdr.root_page] - lev[p]
<1> DEFINE K == lev[hdr.root_page]
           g == [p \in Pages |-> IF p \in T THEN K - lev[p] ELSE 0]
<1>1. /\ Typed(node) /\ Shape(T, lev, nxt) /\ Links(node, hdr.root_page, T, lev, nxt)
      /\ RingOK(node, hdr.last_leaf, T, nxt) /\ Blank(node, T)
  BY DEF Index
<1>2. /\ hdr.root_page \in T /\ K \in Nat
      /\ \A p \in T : p \in Pages /\ lev[p] \in Nat /\ lev[p] <= K
  BY <1>1, InnerIs DEF Links
<1>3. /\ \A p \in Pages : node[p].parent # NDX_NO_PAGE =>
           p \in T /\ node[p].parent \in T /\ node[p].parent \in Pages /\ lev[node[p].parent] = lev[p] + 1
      /\ \A p \in T : node[p].parent = NDX_NO_PAGE => p = hdr.root_page
  <2>1. \A p \in T : node[p].parent = NDX_NO_PAGE => p = hdr.root_page
    BY <1>1 DEF Links, ParentOK
  <2> QED BY <1>1, <2>1, Parents
<1>4. DepthOf(g) = g
  <2>1. ASSUME NEW p \in Pages
        PROVE  (IF node[p].parent = NDX_NO_PAGE THEN 0 ELSE 1 + g[node[p].parent]) = g[p]
    <3>1. CASE node[p].parent = NDX_NO_PAGE
      <4>1. p \in T => K - lev[p] = 0
        BY <1>2, <1>3, <3>1
      <4> QED BY <3>1, <4>1
    <3>2. CASE node[p].parent # NDX_NO_PAGE
      <4> DEFINE x == node[p].parent
      <4>1. p \in T /\ x \in T /\ x \in Pages /\ lev[x] = lev[p] + 1
        BY <1>3, <3>2
      <4>2. g[x] = K - lev[x] /\ g[p] = K - lev[p]
        BY <4>1
      <4> HIDE DEF g, K, x
      <4>3. 1 + g[x] = g[p]
        BY <1>2, <4>1, <4>2
      <4> QED BY <3>2, <4>3 DEF x
    <3> QED BY <3>1, <3>2
  <2>2. g = [p \in Pages |-> g[p]]
    OBVIOUS
  <2> HIDE DEF g
  <2> QED BY <2>1, <2>2 DEF DepthOf
<1>5. Depth = CHOOSE f : f = DepthOf(f)
  BY DEF Depth, DepthOf
<1> HIDE DEF g
<1>6. Depth = DepthOf(Depth)
  <2>1. \E f : f = DepthOf(f)
    BY <1>4
  <2> QED BY <1>5, <2>1
<1>7. \A p \in Pages : Depth[p] = IF node[p].parent = NDX_NO_PAGE THEN 0 ELSE 1 + Depth[node[p].parent]
  BY <1>6 DEF DepthOf
<1> DEFINE rank == [q \in T |-> K - lev[q]]
           Bad == {q \in T : Depth[q] # K - lev[q]}
<1>8. Bad = {}
  <2> SUFFICES ASSUME Bad # {} PROVE FALSE
    OBVIOUS
  <2>1. \A x \in Bad : rank[x] \in Nat
    BY <1>2
  <2>2. PICK q \in Bad : \A y \in Bad : rank[q] <= rank[y]
    <3> HIDE DEF Bad, rank
    <3> QED BY <2>1, LeastRank
  <2>3. q \in T /\ q \in Pages /\ Depth[q] # K - lev[q]
    BY <1>2
  <2>4. CASE node[q].parent = NDX_NO_PAGE
    <3>1. K - lev[q] = 0
      BY <1>2, <1>3, <2>3, <2>4
    <3> QED BY <1>7, <2>3, <2>4, <3>1
  <2>5. CASE node[q].parent # NDX_NO_PAGE
    <3> DEFINE x == node[q].parent
    <3>1. x \in T /\ lev[x] = lev[q] + 1
      BY <1>3, <2>3, <2>5
    <3>2. Depth[q] = 1 + Depth[x]
      BY <1>7, <2>3, <2>5
    <3> HIDE DEF x
    <3>3. ~(rank[q] <= rank[x])
      <4>1. rank[q] = K - lev[q] /\ rank[x] = K - lev[x]
        BY <2>3, <3>1
      <4> HIDE DEF rank, K
      <4> QED BY <1>2, <2>3, <3>1, <4>1
    <3>4. x \notin Bad
      <4> HIDE DEF rank, Bad
      <4> QED BY <2>2, <3>3
    <3>5. Depth[x] = K - lev[x]
      BY <3>1, <3>4
    <3> HIDE DEF K
    <3>6. Depth[q] = K - lev[q]
      BY <1>2, <2>3, <3>1, <3>2, <3>5
    <3> QED BY <2>3, <3>6
  <2> QED BY <2>4, <2>5
<1> QED
  BY <1>8

\* The ring from the first leaf on is the list of the leaves.
LEMMA RingIs ==
  ASSUME NEW T, NEW lev, NEW nxt, NEW fl, Index(node, hdr, work, T, lev, nxt, fl),
         NEW L, LeafOrder(L, T, nxt)
  PROVE  LeafList = L
<1> DEFINE stop == {NDX_LEAF_HEADER_PAGE, NDX_NO_PAGE} \cup {n \in PageOrNone : ~node[n].is_leaf}
           next == [n \in PageOrNone |-> node[n].next_leaf]
           RingOf(f) == [n \in PageOrNone |->
                           IF n \in {NDX_LEAF_HEADER_PAGE, NDX_NO_PAGE} \/ ~node[n].is_leaf THEN << >>
                           ELSE <<n>> \o f[node[n].next_leaf]]
<1>1. /\ Typed(node) /\ Shape(T, lev, nxt) /\ Links(node, hdr.root_page, T, lev, nxt)
      /\ RingOK(node, hdr.last_leaf, T, nxt) /\ Blank(node, T)
  BY DEF Index
<1>2. /\ L \in Seq(T) /\ Len(L) \in Nat /\ Len(L) >= 1 /\ IsInjective(L)
      /\ \A p \in T : node[p].is_leaf => \E i \in 1 .. Len(L) : L[i] = p
      /\ \A i \in 1 .. Len(L) : L[i] \in T /\ L[i] \in Pages /\ node[L[i]].is_leaf
      /\ L[1] = first_leaf
      /\ \A i \in 1 .. Len(L) : nxt[L[i]] = IF i < Len(L) THEN L[i + 1] ELSE NDX_NO_PAGE
  BY DEF LeafOrder
<1>3. L \in Seq(Pages)
  <2>1. T \subseteq Pages
    BY <1>1 DEF Shape
  <2> QED BY <1>2, <2>1, SeqMonotonic
<1>4. \A f : ChainOf(stop, next, f) = RingOf(f)
  <2> SUFFICES ASSUME NEW f PROVE ChainOf(stop, next, f) = RingOf(f)
    OBVIOUS
  <2> DEFINE e(n) == IF n \in stop THEN << >> ELSE <<n>> \o f[next[n]]
             d(n) == IF n \in {NDX_LEAF_HEADER_PAGE, NDX_NO_PAGE} \/ ~node[n].is_leaf THEN << >>
                     ELSE <<n>> \o f[node[n].next_leaf]
  <2>1. ASSUME NEW n \in PageOrNone PROVE e(n) = d(n)
    <3>1. n \in stop <=> n \in {NDX_LEAF_HEADER_PAGE, NDX_NO_PAGE} \/ ~node[n].is_leaf
      OBVIOUS
    <3>2. next[n] = node[n].next_leaf
      OBVIOUS
    <3> HIDE DEF stop, next
    <3> QED BY <3>1, <3>2
  <2>2. ChainOf(stop, next, f) = [n \in PageOrNone |-> e(n)]
    BY DEF ChainOf
  <2>3. RingOf(f) = [n \in PageOrNone |-> d(n)]
    OBVIOUS
  <2> HIDE DEF e, d, RingOf, stop, next
  <2> QED BY <2>1, <2>2, <2>3
<1>5. Chained(L, stop, next)
  <2>1. ASSUME NEW i \in 1 .. Len(L)
        PROVE  /\ L[i] \in PageOrNone /\ L[i] \notin stop
               /\ next[L[i]] = IF i < Len(L) THEN L[i + 1] ELSE NDX_LEAF_HEADER_PAGE
    <3>1. L[i] \in T /\ L[i] \in Pages /\ L[i] # NDX_LEAF_HEADER_PAGE /\ L[i] # NDX_NO_PAGE /\ node[L[i]].is_leaf
      <4>1. L[i] # NDX_LEAF_HEADER_PAGE
        BY <1>1, <1>2 DEF Shape
      <4> QED BY <1>2, <4>1, Constants
    <3>2. node[L[i]].next_leaf = IF nxt[L[i]] = NDX_NO_PAGE THEN NDX_LEAF_HEADER_PAGE ELSE nxt[L[i]]
      BY <1>1, <3>1 DEF RingOK, LeafOK
    <3>3. i < Len(L) => nxt[L[i]] = L[i + 1] /\ nxt[L[i]] # NDX_NO_PAGE
      <4> SUFFICES ASSUME i < Len(L) PROVE nxt[L[i]] = L[i + 1] /\ nxt[L[i]] # NDX_NO_PAGE
        OBVIOUS
      <4> DEFINE j == i + 1
      <4>1. j \in 1 .. Len(L)
        BY <1>2
      <4>2. nxt[L[i]] = L[j]
        BY <1>2
      <4> HIDE DEF j
      <4>3. L[j] # NDX_NO_PAGE
        BY <1>2, <4>1, Constants
      <4> QED BY <4>2, <4>3 DEF j
    <3>4. ~(i < Len(L)) => nxt[L[i]] = NDX_NO_PAGE
      BY <1>2
    <3>5. next[L[i]] = node[L[i]].next_leaf /\ L[i] \in PageOrNone
      BY <3>1 DEF PageOrNone
    <3>6. L[i] \notin stop
      BY <3>1
    <3> HIDE DEF stop, next
    <3> QED BY <3>2, <3>3, <3>4, <3>5, <3>6
  <2>2. ASSUME NEW n \in PageOrNone, n \notin stop PROVE n \in ToSet(L)
    <3>1. n \in Pages /\ n # NDX_LEAF_HEADER_PAGE /\ node[n].is_leaf
      BY <2>2 DEF PageOrNone
    <3>2. n \in T
      BY <1>1, <3>1 DEF Blank
    <3> HIDE DEF stop
    <3> QED BY <1>2, <1>3, <3>1, <3>2, InToSet
  <2>3. NDX_LEAF_HEADER_PAGE \in stop /\ NDX_LEAF_HEADER_PAGE \in PageOrNone
    BY Constants DEF PageOrNone
  <2> HIDE DEF stop, next
  <2>4. \A i \in 1 .. Len(L) : i < Len(L) => next[L[i]] = L[i + 1]
    BY <2>1
  <2>5. \A i \in 1 .. Len(L) : i = Len(L) => next[L[i]] = NDX_LEAF_HEADER_PAGE
    <3> SUFFICES ASSUME NEW i \in 1 .. Len(L), i = Len(L) PROVE ~(i < Len(L))
      BY <2>1
    <3> QED BY <1>2
  <2> QED BY <1>2, <1>3, <2>1, <2>2, <2>3, <2>4, <2>5 DEF Chained
<1>6. Ring = CHOOSE f : f = RingOf(f)
  BY DEF Ring
<1> HIDE DEF stop, next, RingOf
<1>7. \E f : f = RingOf(f)
  <2>1. \E f : f = ChainOf(stop, next, f)
    BY <1>5, ChainExists
  <2> QED BY <1>4, <2>1
<1>8. Ring = ChainOf(stop, next, Ring)
  <2>1. Ring = RingOf(Ring)
    BY <1>6, <1>7
  <2> QED BY <1>4, <2>1
<1>9. \A i \in 1 .. Len(L) : Ring[L[i]] = SubSeq(L, i, Len(L))
  BY <1>5, <1>8, ChainIs
<1>10. SubSeq(L, 1, Len(L)) = L
  BY <1>3, SubSeqFull
<1> DEFINE one == 1
<1>11. one \in 1 .. Len(L) /\ L[one] = first_leaf /\ SubSeq(L, one, Len(L)) = L
  BY <1>2, <1>10
<1> HIDE DEF one
<1> QED
  BY <1>9, <1>11 DEF LeafList

\* All leaves are at the same level, and every node but the root is at least half
\* full: a split leaves two such nodes, and what borrows or merges is one again.
THEOREM AlwaysBalanced == Spec => []Balanced
<1>1. ASSUME NEW T, NEW lev, NEW nxt, NEW fl, Index(node, hdr, work, T, lev, nxt, fl)
      PROVE  Balanced
  <2>1. /\ Typed(node) /\ hdr \in Header /\ Shape(T, lev, nxt) /\ Links(node, hdr.root_page, T, lev, nxt)
        /\ Filled(node, hdr, T, work) /\ T \subseteq Pages
    BY <1>1 DEF Index, Shape
  <2>2. Tree = T
    BY <1>1, TreeIs
  <2>3. PICK L : LeafOrder(L, T, nxt)
    BY <1>1, LeavesInOrder
  <2>4. LeafList = L
    BY <1>1, <2>3, RingIs
  <2>5. \A p \in T : Depth[p] = lev[hdr.root_page] - lev[p]
    BY <1>1, DepthIs
  <2>6. \A i \in DOMAIN L : L[i] \in T /\ node[L[i]].is_leaf
    <3>1. L \in Seq(T) /\ \A i \in 1 .. Len(L) : L[i] \in T /\ node[L[i]].is_leaf
      BY <2>3 DEF LeafOrder
    <3>2. DOMAIN L = 1 .. Len(L)
      BY <3>1
    <3> QED BY <3>1, <3>2
  <2>7. first_leaf \in T /\ node[first_leaf].is_leaf
    BY <1>1 DEF Index, RingOK
  <2>8. \A i \in DOMAIN LeafList : Depth[LeafList[i]] = Depth[first_leaf]
    <3> SUFFICES ASSUME NEW i \in DOMAIN L PROVE Depth[L[i]] = Depth[first_leaf]
      BY <2>4
    <3>1. lev[L[i]] = 0 /\ lev[first_leaf] = 0
      BY <2>1, <2>6, <2>7, InnerIs
    <3> QED BY <2>5, <2>6, <2>7, <3>1
  <2>9. MinFill = MinOf(hdr)
    BY <2>1, Fill
  <2>10. \A p \in T \ {hdr.root_page} :
           Len(node[p].rids) >= MinFill - IF work = [todo |-> "underflow", page |-> p] THEN 1 ELSE 0
    BY <2>1, <2>9 DEF Filled, Extra
  <2>11. work = Idle /\ ~node[hdr.root_page].is_leaf => Len(node[hdr.root_page].rids) >= 2
    <3> SUFFICES ASSUME work = Idle, ~node[hdr.root_page].is_leaf PROVE Len(node[hdr.root_page].rids) >= 2
      OBVIOUS
    <3>1. ~(Len(node[hdr.root_page].rids) < 2)
      BY <2>1, IdleFilled
    <3>2. Len(node[hdr.root_page].rids) \in Nat
      <4>1. hdr.root_page \in Pages
        BY <2>1, Fill
      <4> QED BY <2>1, <4>1, PageIs
    <3> QED BY <3>1, <3>2
  <2> QED BY <2>2, <2>8, <2>10, <2>11 DEF Balanced
<1>2. IInv => Balanced
  BY <1>1 DEF IInv
<1> QED
  BY <1>2, Invariance, PTL

-----------------------------------------------------------------------------
(* Sequences put together.                                                 *)

\* The recursion of FlattenSeq.
FlatOf(seqs, flatten) ==
  [i \in 1 .. Len(seqs) |-> IF i = 1 THEN seqs[i] ELSE flatten[i - 1] \o seqs[i]]

\* The first sequences of seqs, one after the other.
Flat(flat, seqs, S) ==
  /\ flat \in [1 .. Len(seqs) -> Seq(S)] /\ FlattenSeq(seqs) = flat[Len(seqs)]
  /\ flat[1] = seqs[1]
  /\ \A i \in 1 .. Len(seqs) : i > 1 => flat[i] = flat[i - 1] \o seqs[i]

LEMMA FlatExists ==
  ASSUME NEW A, NEW seqs, NEW m \in Nat, m = Len(seqs), \A i \in 1 .. m : seqs[i] \in Seq(A)
  PROVE  \E flat : flat = FlatOf(seqs, flat)
<1> DEFINE S == 1 .. m
           V == Seq(A)
           rank == [i \in S |-> i]
           G == [a \in S \X [S -> V] |-> IF a[1] = 1 THEN seqs[a[1]] ELSE a[2][a[1] - 1] \o seqs[a[1]]]
<1>1. rank \in [S -> Nat]
  OBVIOUS
<1>2. V # {}
  <2>1. << >> \in V
    OBVIOUS
  <2> QED BY <2>1
<1>3. ASSUME NEW i \in S, NEW f \in [S -> V]
      PROVE  G[<<i, f>>] = IF i = 1 THEN seqs[i] ELSE f[i - 1] \o seqs[i]
  OBVIOUS
<1>4. G \in [S \X [S -> V] -> V]
  <2> SUFFICES ASSUME NEW a \in S \X [S -> V]
               PROVE  (IF a[1] = 1 THEN seqs[a[1]] ELSE a[2][a[1] - 1] \o seqs[a[1]]) \in V
    OBVIOUS
  <2>1. a[1] \in 1 .. m /\ a[2] \in [1 .. m -> V]
    OBVIOUS
  <2>2. a[1] # 1 => a[1] - 1 \in 1 .. m
    BY <2>1
  <2>3. a[1] # 1 => a[2][a[1] - 1] \in Seq(A)
    BY <2>1, <2>2
  <2>4. seqs[a[1]] \in Seq(A)
    BY <2>1
  <2>5. a[1] # 1 => a[2][a[1] - 1] \o seqs[a[1]] \in Seq(A)
    BY <2>3, <2>4, ConcatProperties
  <2> QED BY <2>4, <2>5
<1>5. Below(S, V, rank, G)
  <2> SUFFICES ASSUME NEW x \in S, NEW f \in [S -> V], NEW g \in [S -> V],
                      \A y \in S : rank[y] < rank[x] => f[y] = g[y]
               PROVE  G[<<x, f>>] = G[<<x, g>>]
    BY DEF Below
  <2>1. x # 1 => x - 1 \in S /\ rank[x - 1] < rank[x]
    OBVIOUS
  <2>2. x # 1 => f[x - 1] = g[x - 1]
    BY <2>1
  <2>3. G[<<x, f>>] = IF x = 1 THEN seqs[x] ELSE f[x - 1] \o seqs[x]
    BY <1>3
  <2>4. G[<<x, g>>] = IF x = 1 THEN seqs[x] ELSE g[x - 1] \o seqs[x]
    BY <1>3
  <2> HIDE DEF G
  <2> QED BY <2>2, <2>3, <2>4
<1> HIDE DEF G, S, V, rank
<1>6. Recurs(S, V, rank, G)
  BY <1>1, <1>2, <1>4, <1>5 DEF Recurs
<1>7. \E f \in [S -> V] : f = [x \in S |-> G[<<x, f>>]]
  BY <1>6, Recursion
<1>8. PICK f \in [S -> V] : f = [x \in S |-> G[<<x, f>>]]
  BY <1>7
<1>9. \A i \in S : f[i] = G[<<i, f>>]
  BY <1>8
<1>10. \A i \in S : f[i] = IF i = 1 THEN seqs[i] ELSE f[i - 1] \o seqs[i]
  BY <1>3, <1>9
<1>11. f = [i \in S |-> f[i]]
  BY <1>8
<1>12. f = [i \in S |-> IF i = 1 THEN seqs[i] ELSE f[i - 1] \o seqs[i]]
  BY <1>10, <1>11
<1>13. f = FlatOf(seqs, f)
  BY <1>12 DEF FlatOf, S
<1> QED
  BY <1>13

LEMMA FlattenIs ==
  ASSUME NEW A, NEW seqs, NEW m \in Nat, m = Len(seqs), m >= 1, \A i \in 1 .. m : seqs[i] \in Seq(A)
  PROVE  \E flat : Flat(flat, seqs, A)
<1> DEFINE flat == CHOOSE f : f = FlatOf(seqs, f)
<1>1. FlattenSeq(seqs) = flat[Len(seqs)]
  BY DEF FlattenSeq, FlatOf
<1>2. flat = FlatOf(seqs, flat)
  <2>1. \E f : f = FlatOf(seqs, f)
    BY FlatExists
  <2> QED BY <2>1
<1> HIDE DEF flat
<1>3. \A i \in 1 .. m : flat[i] = IF i = 1 THEN seqs[i] ELSE flat[i - 1] \o seqs[i]
  BY <1>2 DEF FlatOf
<1>4. flat = [i \in 1 .. m |-> flat[i]]
  BY <1>2 DEF FlatOf
<1> DEFINE Bad == {i \in 1 .. m : flat[i] \notin Seq(A)}
<1>5. Bad = {}
  <2> SUFFICES ASSUME Bad # {} PROVE FALSE
    OBVIOUS
  <2>1. Bad \subseteq Nat
    OBVIOUS
  <2>2. PICK i \in Bad : \A j \in Bad : i <= j
    <3> HIDE DEF Bad
    <3> QED BY <2>1, Least
  <2>3. i \in 1 .. m /\ flat[i] \notin Seq(A)
    OBVIOUS
  <2>4. i # 1
    BY <1>3, <2>3
  <2> DEFINE j == i - 1
  <2>5. j \in 1 .. m /\ ~(i <= j)
    BY <2>3, <2>4
  <2>6. flat[i] = flat[j] \o seqs[i]
    BY <1>3, <2>3, <2>4
  <2> HIDE DEF j
  <2>7. flat[j] \in Seq(A)
    BY <2>2, <2>5
  <2>8. seqs[i] \in Seq(A)
    BY <2>3
  <2>9. flat[j] \o seqs[i] \in Seq(A)
    BY <2>7, <2>8, ConcatProperties
  <2> QED BY <2>3, <2>6, <2>9
<1>6. flat \in [1 .. m -> Seq(A)]
  BY <1>4, <1>5
<1>7. flat[1] = seqs[1] /\ \A i \in 1 .. m : i > 1 => flat[i] = flat[i - 1] \o seqs[i]
  <2>1. 1 \in 1 .. m /\ \A i \in 1 .. m : i > 1 => i # 1
    OBVIOUS
  <2> QED BY <1>3, <2>1
<1>8. Flat(flat, seqs, A)
  BY <1>1, <1>6, <1>7 DEF Flat
<1> QED
  BY <1>8

\* Parts of s that follow each other.
PartsOf(s, seqs, m, from, to) ==
  /\ m \in Nat /\ m = Len(seqs) /\ m >= 1
  /\ \A i \in 1 .. m : /\ from[i] \in 1 .. Len(s) /\ to[i] \in from[i] .. Len(s)
                       /\ seqs[i] = SubSeq(s, from[i], to[i])
                       /\ i > 1 => from[i] = to[i - 1] + 1

\* Together they are the part from the beginning of the first to the end of the last.
LEMMA PartsTogether ==
  ASSUME NEW A, NEW s \in Seq(A), NEW seqs, NEW m, NEW from, NEW to, PartsOf(s, seqs, m, from, to)
  PROVE  FlattenSeq(seqs) = SubSeq(s, from[1], to[m]) /\ from[1] <= to[m]
<1> DEFINE n == Len(s)
<1> SUFFICES ASSUME m \in Nat, m = Len(seqs), m >= 1,
                    \A i \in 1 .. m : /\ from[i] \in 1 .. Len(s) /\ to[i] \in from[i] .. Len(s)
                                      /\ seqs[i] = SubSeq(s, from[i], to[i])
                                      /\ i > 1 => from[i] = to[i - 1] + 1
             PROVE  FlattenSeq(seqs) = SubSeq(s, from[1], to[m]) /\ from[1] <= to[m]
  BY DEF PartsOf
<1>0. n \in Nat /\ 1 \in 1 .. m /\ m \in 1 .. m
  OBVIOUS
<1>1. \A i \in 1 .. m : seqs[i] \in Seq(A)
  <2> SUFFICES ASSUME NEW i \in 1 .. m PROVE SubSeq(s, from[i], to[i]) \in Seq(A)
    OBVIOUS
  <2> DEFINE a == from[i]
             b == to[i]
  <2>1. a \in Nat /\ b \in Nat /\ 1 <= a /\ b <= n /\ a <= b + 1
    BY <1>0
  <2> HIDE DEF a, b
  <2>2. SubSeq(s, a, b) \in Seq(A)
    BY <2>1, SubSeqIs
  <2> QED BY <2>2 DEF a, b
<1>2. PICK flat : Flat(flat, seqs, A)
  BY <1>1, FlattenIs
<1>3. /\ FlattenSeq(seqs) = flat[m] /\ flat[1] = seqs[1]
      /\ \A i \in 1 .. m : i > 1 => flat[i] = flat[i - 1] \o seqs[i]
  BY <1>2 DEF Flat
<1> DEFINE Good(i) == flat[i] = SubSeq(s, from[1], to[i]) /\ from[1] <= to[i]
           Bad == {i \in 1 .. m : ~Good(i)}
<1>4. Bad = {}
  <2> SUFFICES ASSUME Bad # {} PROVE FALSE
    OBVIOUS
  <2>1. Bad \subseteq Nat
    OBVIOUS
  <2>2. PICK i \in Bad : \A j \in Bad : i <= j
    <3> HIDE DEF Bad
    <3> QED BY <2>1, Least
  <2>3. i \in 1 .. m /\ ~Good(i)
    OBVIOUS
  <2>4. CASE i = 1
    <3>1. flat[i] = SubSeq(s, from[1], to[i])
      BY <1>0, <1>3, <2>4
    <3>2. from[1] <= to[i]
      BY <1>0, <2>4
    <3> QED BY <2>3, <3>1, <3>2
  <2>5. CASE i # 1
    <3> DEFINE j == i - 1
               a == from[1]
               b == to[j]
               c == to[i]
               d == from[i]
    <3>1. j \in 1 .. m /\ ~(i <= j) /\ i > 1
      BY <2>3, <2>5
    <3>2. flat[i] = flat[j] \o SubSeq(s, d, c) /\ d = b + 1
      BY <1>3, <2>3, <3>1
    <3> HIDE DEF Bad
    <3>3. Good(j)
      <4> HIDE DEF j, Good
      <4> QED BY <2>2, <3>1 DEF Bad
    <3>4. flat[j] = SubSeq(s, a, b) /\ a <= b
      BY <3>3
    <3>5. a \in 1 .. n /\ b \in 1 .. n /\ d \in 1 .. n /\ c \in d .. n
      <4>1. a \in 1 .. n
        BY <1>0
      <4>2. d \in 1 .. n /\ c \in d .. n
        BY <2>3
      <4>3. b \in 1 .. n
        <5> HIDE DEF j
        <5>1. from[j] \in 1 .. n /\ b \in from[j] .. n
          BY <3>1
        <5> QED BY <5>1
      <4> QED BY <4>1, <4>2, <4>3
    <3> HIDE DEF a, b, c, d, j, Good, n
    <3>6. a \in 1 .. n + 1 /\ b \in a - 1 .. n /\ c \in b .. n /\ a <= c
      BY <1>0, <3>2, <3>4, <3>5
    <3>7. SubSeq(s, a, b) \o SubSeq(s, b + 1, c) = SubSeq(s, a, c)
      BY <3>6, ConcatAdjacentSubSeq DEF n
    <3>8. flat[i] = SubSeq(s, a, c)
      BY <3>2, <3>4, <3>7
    <3> QED BY <2>3, <3>6, <3>8 DEF Good, a, c
  <2> QED BY <2>4, <2>5
<1>5. Good(m)
  BY <1>0, <1>4
<1> QED
  BY <1>3, <1>5

-----------------------------------------------------------------------------
(* The leaves under a node.                                                *)

\* The recursion of Leaves.
LeavesOf(leaves) ==
  [n \in Pages |-> IF node[n].is_leaf THEN <<n>>
                   ELSE FlattenSeq([i \in DOMAIN node[n].rids |-> leaves[node[n].rids[i]]])]

LEMMA LeavesExist ==
  ASSUME NEW T, NEW lev, NEW nxt, NEW fl, Index(node, hdr, work, T, lev, nxt, fl)
  PROVE  \E leaves : leaves = LeavesOf(leaves)
<1> DEFINE S == Pages
           V == Seq(Pages)
           Pieces(p, f) == [i \in DOMAIN node[p].rids |-> f[node[p].rids[i]]]
           G == [a \in S \X [S -> V] |-> IF node[a[1]].is_leaf THEN <<a[1]>> ELSE FlattenSeq(Pieces(a[1], a[2]))]
<1>1. Typed(node) /\ lev \in [S -> Nat]
  BY DEF Index, Shape
<1>2. ASSUME NEW p \in S, ~node[p].is_leaf
      PROVE  /\ node[p].rids \in Seq(Pages) /\ Len(node[p].rids) \in Nat
             /\ DOMAIN node[p].rids = 1 .. Len(node[p].rids)
             /\ \A i \in DOMAIN node[p].rids : node[p].rids[i] \in Pages /\ lev[node[p].rids[i]] < lev[p]
  <2>1. node[p].rids \in Seq(Pages) /\ Len(node[p].rids) \in Nat /\ DOMAIN node[p].rids = 1 .. Len(node[p].rids)
    BY <1>1, <1>2, PageIs
  <2>2. ASSUME NEW i \in DOMAIN node[p].rids PROVE node[p].rids[i] \in Pages /\ lev[node[p].rids[i]] < lev[p]
    <3> DEFINE c == node[p].rids[i]
    <3>1. c \in Kids(p)
      BY <1>2 DEF Kids, ToSet
    <3> HIDE DEF c
    <3>2. c \in Pages /\ lev[c] \in Nat /\ lev[p] = lev[c] + 1
      BY <3>1, KidsAre
    <3>3. lev[c] < lev[p]
      BY <3>2
    <3> QED BY <3>2, <3>3 DEF c
  <2> QED BY <2>1, <2>2
<1>3. ASSUME NEW p \in S, NEW f \in [S -> V]
      PROVE  G[<<p, f>>] = IF node[p].is_leaf THEN <<p>> ELSE FlattenSeq(Pieces(p, f))
  OBVIOUS
<1>4. ASSUME NEW p \in S, NEW f \in [S -> V], ~node[p].is_leaf PROVE FlattenSeq(Pieces(p, f)) \in V
  <2> DEFINE s == Pieces(p, f)
             m == Len(node[p].rids)
  <2>1. m \in Nat /\ s = [i \in 1 .. m |-> f[node[p].rids[i]]] /\ \A i \in 1 .. m : f[node[p].rids[i]] \in V
    BY <1>2, <1>4
  <2>2. Len(s) = m /\ \A i \in 1 .. m : s[i] \in V
    <3> HIDE DEF m, s, V
    <3> QED BY <2>1
  <2>3. CASE m = 0
    <3>1. s = << >>
      <4> HIDE DEF m, s
      <4> QED BY <2>1, <2>3
    <3> HIDE DEF s
    <3>2. FlattenSeq(s) = << >>
      BY <3>1 DEF FlattenSeq
    <3>3. << >> \in V
      OBVIOUS
    <3> QED BY <3>2, <3>3 DEF s
  <2>4. CASE m # 0
    <3> HIDE DEF s, m
    <3>1. m >= 1
      BY <2>1, <2>4
    <3>2. PICK flat : Flat(flat, s, Pages)
      BY <2>1, <2>2, <3>1, FlattenIs
    <3>3. flat \in [1 .. m -> Seq(Pages)] /\ FlattenSeq(s) = flat[m]
      BY <2>2, <3>2 DEF Flat
    <3>4. m \in 1 .. m
      BY <2>1, <3>1
    <3>5. FlattenSeq(s) \in Seq(Pages)
      BY <3>3, <3>4
    <3> QED BY <3>5 DEF s
  <2> QED BY <2>3, <2>4
<1>5. G \in [S \X [S -> V] -> V]
  <2> SUFFICES ASSUME NEW a \in S \X [S -> V]
               PROVE  (IF node[a[1]].is_leaf THEN <<a[1]>> ELSE FlattenSeq(Pieces(a[1], a[2]))) \in V
    OBVIOUS
  <2>1. a[1] \in Pages /\ a[2] \in [S -> V]
    OBVIOUS
  <2>2. <<a[1]>> \in V
    BY <2>1
  <2> HIDE DEF Pieces, V, S
  <2> QED BY <1>4, <2>1, <2>2 DEF S
<1>6. Below(S, V, lev, G)
  <2> SUFFICES ASSUME NEW x \in S, NEW f \in [S -> V], NEW g \in [S -> V],
                      \A y \in S : lev[y] < lev[x] => f[y] = g[y]
               PROVE  G[<<x, f>>] = G[<<x, g>>]
    BY DEF Below
  <2>1. ~node[x].is_leaf => \A i \in DOMAIN node[x].rids : f[node[x].rids[i]] = g[node[x].rids[i]]
    BY <1>2
  <2>2. ~node[x].is_leaf => Pieces(x, f) = Pieces(x, g)
    BY <2>1
  <2>3. G[<<x, f>>] = IF node[x].is_leaf THEN <<x>> ELSE FlattenSeq(Pieces(x, f))
    BY <1>3
  <2>4. G[<<x, g>>] = IF node[x].is_leaf THEN <<x>> ELSE FlattenSeq(Pieces(x, g))
    BY <1>3
  <2> HIDE DEF G, Pieces
  <2> QED BY <2>2, <2>3, <2>4
<1> HIDE DEF G, S, V, Pieces
<1>7. Recurs(S, V, lev, G)
  <2>1. << >> \in V
    BY DEF V
  <2> QED BY <1>1, <1>5, <1>6, <2>1 DEF Recurs
<1>8. \E f \in [S -> V] : f = [x \in S |-> G[<<x, f>>]]
  BY <1>7, Recursion
<1>9. PICK f \in [S -> V] : f = [x \in S |-> G[<<x, f>>]]
  BY <1>8
<1>10. \A p \in S : f[p] = G[<<p, f>>]
  BY <1>9
<1>11. \A p \in S : f[p] = IF node[p].is_leaf THEN <<p>> ELSE FlattenSeq(Pieces(p, f))
  BY <1>3, <1>10
<1>12. f = [p \in S |-> f[p]]
  BY <1>9
<1>13. f = [p \in S |-> IF node[p].is_leaf THEN <<p>> ELSE FlattenSeq(Pieces(p, f))]
  BY <1>11, <1>12
<1>14. f = LeavesOf(f)
  BY <1>13 DEF LeavesOf, S, Pieces
<1> QED
  BY <1>14

LEMMA LeavesIs ==
  ASSUME NEW T, NEW lev, NEW nxt, NEW fl, Index(node, hdr, work, T, lev, nxt, fl), NEW p \in Pages
  PROVE  Leaves[p] = IF node[p].is_leaf THEN <<p>>
                     ELSE FlattenSeq([i \in DOMAIN node[p].rids |-> Leaves[node[p].rids[i]]])
<1>1. Leaves = CHOOSE f : f = LeavesOf(f)
  BY DEF Leaves, LeavesOf
<1>2. \E f : f = LeavesOf(f)
  BY LeavesExist
<1>3. Leaves = LeavesOf(Leaves)
  BY <1>1, <1>2
<1> QED
  BY <1>3 DEF LeavesOf

\* The leaves under the nodes of one level, from one node to the next.
Blocks(L, T, lev, nxt, k, a, b) ==
  \A p \in T : lev[p] = k =>
    /\ a[p] \in 1 .. Len(L) /\ b[p] \in a[p] .. Len(L) /\ Leaves[p] = SubSeq(L, a[p], b[p])
    /\ nxt[p] # NDX_NO_PAGE => a[nxt[p]] = b[p] + 1
    /\ nxt[p] = NDX_NO_PAGE => b[p] = Len(L)
    /\ (\A y \in T : nxt[y] # p) => a[p] = 1

LEMMA LeafBlocks ==
  ASSUME NEW T, NEW lev, NEW nxt, NEW fl, Index(node, hdr, work, T, lev, nxt, fl),
         NEW L, LeafOrder(L, T, nxt)
  PROVE  \E a, b : Blocks(L, T, lev, nxt, 0, a, b)
<1> DEFINE m == Len(L)
           at == [p \in T |-> CHOOSE i \in 1 .. m : L[i] = p]
<1>1. /\ Typed(node) /\ Shape(T, lev, nxt) /\ Links(node, hdr.root_page, T, lev, nxt)
  BY DEF Index
<1>2. /\ L \in Seq(T) /\ m \in Nat /\ m >= 1 /\ DOMAIN L = 1 .. m /\ IsInjective(L)
      /\ \A p \in T : node[p].is_leaf => \E i \in 1 .. m : L[i] = p
      /\ \A i \in 1 .. m : L[i] \in T /\ L[i] \in Pages /\ node[L[i]].is_leaf
      /\ \A i \in 1 .. m : nxt[L[i]] = IF i < m THEN L[i + 1] ELSE NDX_NO_PAGE
  <2>1. L \in Seq(T) /\ m \in Nat
    BY DEF LeafOrder
  <2>2. DOMAIN L = 1 .. m
    BY <2>1
  <2> QED BY <2>1, <2>2 DEF LeafOrder
<1>3. \A i \in 1 .. m : at[L[i]] = i
  <2>1. \A i, j \in 1 .. m : L[i] = L[j] => i = j
    BY <1>2 DEF IsInjective
  <2> SUFFICES ASSUME NEW i \in 1 .. m PROVE at[L[i]] = i
    OBVIOUS
  <2>2. at[L[i]] = CHOOSE j \in 1 .. m : L[j] = L[i]
    BY <1>2
  <2> HIDE DEF at, m
  <2> QED BY <2>1, <2>2
<1> HIDE DEF at
<1>4. ASSUME NEW p \in T, lev[p] = 0
      PROVE  /\ at[p] \in 1 .. m /\ at[p] \in at[p] .. m /\ Leaves[p] = SubSeq(L, at[p], at[p])
             /\ nxt[p] # NDX_NO_PAGE => at[nxt[p]] = at[p] + 1
             /\ nxt[p] = NDX_NO_PAGE => at[p] = m
             /\ (\A y \in T : nxt[y] # p) => at[p] = 1
  <2>1. node[p].is_leaf /\ p \in Pages
    BY <1>1, <1>4, InnerIs
  <2>2. PICK i \in 1 .. m : L[i] = p
    BY <1>2, <2>1
  <2>3. at[p] = i /\ i \in i .. m /\ i \in Nat
    BY <1>2, <1>3, <2>2
  <2>4. Leaves[p] = SubSeq(L, i, i)
    <3>1. Leaves[p] = <<p>>
      BY <2>1, LeavesIs
    <3>2. SubSeq(L, i, i) \in Seq(T) /\ Len(SubSeq(L, i, i)) = i + 1 - i
          /\ \A j \in 1 .. i + 1 - i : SubSeq(L, i, i)[j] = L[i + j - 1]
      <4>1. 1 <= i /\ i <= Len(L) /\ i <= i + 1
        BY <1>2
      <4> HIDE DEF m
      <4> QED BY <1>2, <2>3, <4>1, SubSeqIs
    <3>3. i + 1 - i = 1 /\ i + 1 - 1 = i /\ 1 \in 1 .. 1
      BY <2>3
    <3> DEFINE t == SubSeq(L, i, i)
    <3>4. t \in Seq(T) /\ Len(t) = 1 /\ t[1] = p
      BY <2>2, <3>2, <3>3
    <3> HIDE DEF t
    <3>5. t = <<p>>
      BY <3>4
    <3> QED BY <3>1, <3>5 DEF t
  <2>5. nxt[p] # NDX_NO_PAGE => at[nxt[p]] = i + 1
    <3> SUFFICES ASSUME nxt[p] # NDX_NO_PAGE PROVE at[nxt[p]] = i + 1
      OBVIOUS
    <3> DEFINE j == i + 1
    <3>1. i < m
      BY <1>2, <2>2
    <3>2. j \in 1 .. m
      <4> HIDE DEF m
      <4> QED BY <1>2, <3>1
    <3>3. nxt[p] = L[j]
      BY <1>2, <2>2, <3>1
    <3> HIDE DEF j, m
    <3> QED BY <1>3, <3>2, <3>3 DEF j
  <2>6. nxt[p] = NDX_NO_PAGE => i = m
    <3> SUFFICES ASSUME i < m PROVE nxt[p] # NDX_NO_PAGE
      <4> HIDE DEF m
      <4> QED BY <1>2
    <3> DEFINE j == i + 1
    <3>1. j \in 1 .. m /\ nxt[p] = L[j]
      BY <1>2, <2>2
    <3> HIDE DEF j, m
    <3> QED BY <1>2, <3>1, Constants
  <2>7. (\A y \in T : nxt[y] # p) => i = 1
    <3> SUFFICES ASSUME i > 1 PROVE \E y \in T : nxt[y] = p
      <4> HIDE DEF m
      <4> QED BY <1>2
    <3> DEFINE j == i - 1
    <3>1. j \in 1 .. m /\ j < m /\ j + 1 = i
      BY <1>2
    <3> HIDE DEF j, m
    <3>2. nxt[L[j]] = p /\ L[j] \in T
      BY <1>2, <2>2, <3>1
    <3> QED BY <3>2
  <2> QED BY <2>3, <2>4, <2>5, <2>6, <2>7
<1> HIDE DEF m
<1>5. Blocks(L, T, lev, nxt, 0, at, at)
  BY <1>4 DEF Blocks, m
<1> QED
  BY <1>5

LEMMA BlocksUp ==
  ASSUME NEW T, NEW lev, NEW nxt, NEW fl, Index(node, hdr, work, T, lev, nxt, fl),
         NEW L, LeafOrder(L, T, nxt), NEW k \in Nat, NEW a, NEW b, Blocks(L, T, lev, nxt, k, a, b)
  PROVE  \E a2, b2 : Blocks(L, T, lev, nxt, k + 1, a2, b2)
<1> DEFINE m == Len(L)
           a2 == [p \in T |-> a[node[p].rids[1]]]
           b2 == [p \in T |-> b[node[p].rids[Len(node[p].rids)]]]
<1>1. /\ Typed(node) /\ Shape(T, lev, nxt) /\ Links(node, hdr.root_page, T, lev, nxt)
  BY DEF Index
<1>2. L \in Seq(T) /\ m \in Nat
  BY DEF LeafOrder
<1>3. ASSUME NEW p \in T, lev[p] = k
      PROVE  /\ a[p] \in 1 .. m /\ b[p] \in a[p] .. m /\ Leaves[p] = SubSeq(L, a[p], b[p])
             /\ nxt[p] # NDX_NO_PAGE => a[nxt[p]] = b[p] + 1
             /\ nxt[p] = NDX_NO_PAGE => b[p] = m
             /\ (\A y \in T : nxt[y] # p) => a[p] = 1
  BY <1>3 DEF Blocks
<1>4. ASSUME NEW p \in T, lev[p] = k + 1
      PROVE  /\ a2[p] \in 1 .. m /\ b2[p] \in a2[p] .. m /\ Leaves[p] = SubSeq(L, a2[p], b2[p])
             /\ nxt[p] # NDX_NO_PAGE => a2[nxt[p]] = b2[p] + 1
             /\ nxt[p] = NDX_NO_PAGE => b2[p] = m
             /\ (\A y \in T : nxt[y] # p) => a2[p] = 1
  <2> DEFINE rs == node[p].rids
             n == Len(rs)
             one == 1
  <2>1. ~node[p].is_leaf /\ p \in Pages /\ n \in Nat /\ one \in 1 .. n /\ n \in 1 .. n /\ DOMAIN rs = 1 .. n
    <3>1. ~node[p].is_leaf /\ p \in Pages
      BY <1>1, <1>4, InnerIs
    <3>2. one \in 1 .. n /\ n \in 1 .. n
      BY <1>1, <3>1, InnerIs
    <3> QED BY <1>1, <3>1, <3>2, PageIs
  <2>2. ASSUME NEW i \in 1 .. n
        PROVE  /\ rs[i] \in T /\ rs[i] \in Pages /\ lev[rs[i]] = k
               /\ nxt[rs[i]] = IF i < n THEN rs[i + 1] ELSE FirstOfNext(node, nxt, p)
    <3>1. /\ rs[i] \in T /\ rs[i] \in Pages /\ lev[p] = lev[rs[i]] + 1 /\ lev[rs[i]] \in Nat
          /\ nxt[rs[i]] = IF i < n THEN rs[i + 1] ELSE FirstOfNext(node, nxt, p)
      BY <1>1, <2>1, ChildIs
    <3> QED BY <1>4, <3>1
  <2>3. a2[p] = a[rs[one]] /\ b2[p] = b[rs[n]]
    OBVIOUS
  <2> DEFINE from == [i \in 1 .. n |-> a[rs[i]]]
             to == [i \in 1 .. n |-> b[rs[i]]]
             seqs == [i \in DOMAIN rs |-> Leaves[rs[i]]]
  <2>4. Leaves[p] = FlattenSeq(seqs)
    BY <2>1, LeavesIs
  <2>5. Len(seqs) = n /\ \A i \in 1 .. n : seqs[i] = Leaves[rs[i]] /\ from[i] = a[rs[i]] /\ to[i] = b[rs[i]]
    <3> HIDE DEF n, rs
    <3>1. seqs = [i \in 1 .. n |-> Leaves[rs[i]]]
      BY <2>1
    <3> HIDE DEF seqs
    <3> QED BY <2>1, <3>1
  <2> HIDE DEF from, to, seqs, a2, b2
  <2>6. ASSUME NEW i \in 1 .. n
        PROVE  /\ from[i] \in 1 .. m /\ to[i] \in from[i] .. m /\ seqs[i] = SubSeq(L, from[i], to[i])
               /\ i > 1 => from[i] = to[i - 1] + 1
    <3>1. from[i] \in 1 .. m /\ to[i] \in from[i] .. m /\ seqs[i] = SubSeq(L, from[i], to[i])
      <4> HIDE DEF rs, n, m
      <4> QED BY <1>3, <2>2, <2>5
    <3>2. ASSUME i > 1 PROVE from[i] = to[i - 1] + 1
      <4> DEFINE j == i - 1
      <4>1. j \in 1 .. n /\ j < n /\ j + 1 = i
        BY <2>1, <3>2
      <4> HIDE DEF j, rs, n, m
      <4>2. nxt[rs[j]] = rs[i]
        BY <2>2, <4>1
      <4>3. rs[i] # NDX_NO_PAGE
        BY <2>2, Constants
      <4>4. a[rs[i]] = b[rs[j]] + 1
        BY <1>3, <2>2, <4>1, <4>2, <4>3
      <4>5. from[i] = to[j] + 1
        BY <2>5, <4>1, <4>4
      <4> QED BY <4>5 DEF j
    <3> QED BY <3>1, <3>2
  <2>7. n >= 1
    BY <2>1
  <2>8. FlattenSeq(seqs) = SubSeq(L, from[1], to[n]) /\ from[1] <= to[n]
    <3> HIDE DEF n, m
    <3>1. PartsOf(L, seqs, n, from, to)
      BY <2>1, <2>5, <2>6, <2>7 DEF PartsOf, m
    <3> QED BY <1>2, <3>1, PartsTogether
  <2>9. a2[p] = from[1] /\ b2[p] = to[n]
    <3>1. from[one] = a[rs[one]] /\ to[n] = b[rs[n]]
      <4> HIDE DEF one, n
      <4> QED BY <2>1, <2>5
    <3> QED BY <2>3, <3>1
  <2>10. a2[p] \in 1 .. m /\ b2[p] \in a2[p] .. m
    <3>1. from[one] \in 1 .. m /\ to[n] \in from[n] .. m /\ from[n] \in 1 .. m
      <4> HIDE DEF one, n, m
      <4> QED BY <2>1, <2>6
    <3> HIDE DEF n, m
    <3> QED BY <1>2, <2>8, <2>9, <3>1
  <2>11. nxt[rs[n]] = FirstOfNext(node, nxt, p) /\ rs[n] \in T /\ lev[rs[n]] = k
    <3>1. ~(n < n)
      BY <2>1
    <3> HIDE DEF n, rs
    <3> QED BY <2>1, <2>2, <3>1
  <2>12. ASSUME nxt[p] # NDX_NO_PAGE PROVE a2[nxt[p]] = b2[p] + 1
    <3> DEFINE z == nxt[p]
               x == node[z].rids[one]
    <3>1. z \in T /\ lev[z] = lev[p]
      BY <1>1, <2>12, InnerIs
    <3>2. ~node[z].is_leaf
      BY <1>1, <2>1, <3>1, InnerIs
    <3>3. one \in 1 .. Len(node[z].rids)
      BY <1>1, <3>1, <3>2, InnerIs
    <3>4. x \in Pages
      BY <1>1, <3>1, <3>2, <3>3, ChildIs
    <3>5. nxt[rs[n]] = x /\ x # NDX_NO_PAGE
      BY <2>11, <2>12, <3>4, Constants DEF FirstOfNext
    <3>6. a2[z] = a[x]
      BY <3>1 DEF a2
    <3> HIDE DEF x, z, rs, n
    <3>7. a[x] = b[rs[n]] + 1
      BY <1>3, <2>11, <3>5
    <3> QED BY <2>3, <3>6, <3>7 DEF z
  <2>13. ASSUME nxt[p] = NDX_NO_PAGE PROVE b2[p] = m
    <3>1. nxt[rs[n]] = NDX_NO_PAGE
      BY <2>11, <2>13 DEF FirstOfNext
    <3> HIDE DEF rs, n, m
    <3> QED BY <1>3, <2>3, <2>11, <3>1
  <2>14. ASSUME \A y \in T : nxt[y] # p PROVE a2[p] = 1
    <3> DEFINE c == rs[one]
    <3>1. c \in T /\ lev[c] = k /\ c # NDX_NO_PAGE
      BY <2>1, <2>2, Constants
    <3>2. ASSUME NEW y \in T, nxt[y] = c PROVE FALSE
      <4>1. nxt[y] # NDX_NO_PAGE /\ node[p].rids[one] = nxt[y] /\ one \in 1 .. Len(node[p].rids) /\ one = 1
        BY <2>1, <3>1, <3>2
      <4> HIDE DEF one
      <4>2. node[y].parent \in T /\ nxt[node[y].parent] = p
        BY <1>1, <2>1, <4>1, NeighboursAre
      <4> QED BY <2>14, <4>2
    <3> HIDE DEF c
    <3>3. a[c] = 1
      BY <1>3, <3>1, <3>2
    <3> QED BY <2>3, <3>3 DEF c
  <2>15. Leaves[p] = SubSeq(L, a2[p], b2[p])
    BY <2>4, <2>8, <2>9
  <2> QED BY <2>10, <2>12, <2>13, <2>14, <2>15
<1> HIDE DEF m, a2, b2
<1>5. Blocks(L, T, lev, nxt, k + 1, a2, b2)
  BY <1>4 DEF Blocks, m
<1> QED
  BY <1>5

\* The leaves under the root are all the leaves, in their order.
LEMMA LeavesAre ==
  ASSUME NEW T, NEW lev, NEW nxt, NEW fl, Index(node, hdr, work, T, lev, nxt, fl),
         NEW L, LeafOrder(L, T, nxt)
  PROVE  Leaves[hdr.root_page] = L
<1> DEFINE K == lev[hdr.root_page]
           Found(k) == \E a, b : Blocks(L, T, lev, nxt, k, a, b)
           Bad == {k \in Nat : ~Found(k)}
<1>1. /\ Typed(node) /\ Shape(T, lev, nxt) /\ Links(node, hdr.root_page, T, lev, nxt)
  BY DEF Index
<1>2. hdr.root_page \in T /\ nxt[hdr.root_page] = NDX_NO_PAGE /\ K \in Nat
  BY <1>1, InnerIs DEF Links
<1>3. Bad = {}
  <2> SUFFICES ASSUME Bad # {} PROVE FALSE
    OBVIOUS
  <2>1. Bad \subseteq Nat
    OBVIOUS
  <2>2. PICK k \in Bad : \A j \in Bad : k <= j
    <3> HIDE DEF Bad
    <3> QED BY <2>1, Least
  <2>3. k \in Nat /\ ~Found(k)
    OBVIOUS
  <2>4. k # 0
    <3>1. Found(0)
      BY LeafBlocks
    <3> QED BY <2>3, <3>1
  <2> DEFINE j == k - 1
  <2>5. j \in Nat /\ j + 1 = k /\ ~(k <= j)
    BY <2>3, <2>4
  <2> HIDE DEF j
  <2>6. Found(j)
    <3>1. j \notin Bad
      <4> HIDE DEF Bad
      <4> QED BY <2>2, <2>5
    <3> QED BY <2>5, <3>1
  <2>7. PICK a, b : Blocks(L, T, lev, nxt, j, a, b)
    BY <2>6
  <2>8. \E a2, b2 : Blocks(L, T, lev, nxt, j + 1, a2, b2)
    BY <2>5, <2>7, BlocksUp
  <2>9. Found(j + 1)
    BY <2>8
  <2> QED BY <2>3, <2>5, <2>9
<1>4. PICK a, b : Blocks(L, T, lev, nxt, K, a, b)
  BY <1>2, <1>3
<1> DEFINE root == hdr.root_page
<1>5. Leaves[root] = SubSeq(L, a[root], b[root]) /\ b[root] = Len(L) /\ a[root] = 1
  <2>1. \A y \in T : nxt[y] # root
    BY <1>1, NoneBeforeRoot
  <2> QED BY <1>2, <1>4, <2>1 DEF Blocks
<1>6. SubSeq(L, 1, Len(L)) = L
  <2>1. L \in Seq(T)
    BY DEF LeafOrder
  <2> QED BY <2>1, SubSeqFull
<1> QED
  BY <1>5, <1>6

\* Where the parts of a flattened sequence begin: part i is after the first start[i].
Starts(start, seqs, m, s) ==
  /\ start \in [1 .. m -> Nat] /\ start[1] = 0 /\ Len(s) \in Nat /\ DOMAIN s = 1 .. Len(s)
  /\ \A i \in 1 .. m : i < m => start[i + 1] = start[i] + Len(seqs[i])
  /\ start[m] + Len(seqs[m]) = Len(s)
  /\ \A i, j \in 1 .. m : i < j => start[i] + Len(seqs[i]) <= start[j]
  /\ \A i \in 1 .. m : \A x \in 1 .. Len(seqs[i]) :
       start[i] + x \in 1 .. Len(s) /\ s[start[i] + x] = seqs[i][x]
  /\ \A n \in 1 .. Len(s) : \E i \in 1 .. m : \E x \in 1 .. Len(seqs[i]) : n = start[i] + x

\* The first i parts of flat.
Begun(flat, start, seqs, i) ==
  /\ Len(flat[i]) = start[i] + Len(seqs[i])
  /\ \A h \in 1 .. i : start[h] + Len(seqs[h]) <= Len(flat[i])
  /\ \A h \in 1 .. i : \A x \in 1 .. Len(seqs[h]) :
       start[h] + x \in 1 .. Len(flat[i]) /\ flat[i][start[h] + x] = seqs[h][x]
  /\ \A n \in 1 .. Len(flat[i]) : \E h \in 1 .. i : \E x \in 1 .. Len(seqs[h]) : n = start[h] + x

LEMMA BegunNext ==
  ASSUME NEW A, NEW seqs, NEW m \in Nat, \A i \in 1 .. m : seqs[i] \in Seq(A),
         NEW flat, \A i \in 1 .. m : flat[i] \in Seq(A),
         NEW start, \A i \in 1 .. m : start[i] \in Nat,
         NEW j \in Nat, NEW i \in 1 .. m, j \in 1 .. m, i = j + 1,
         flat[i] = flat[j] \o seqs[i], start[i] = Len(flat[j]), Begun(flat, start, seqs, j)
  PROVE  Begun(flat, start, seqs, i)
<1> DEFINE l == Len(flat[j])
           r == Len(seqs[i])
<1>1. flat[j] \in Seq(A) /\ seqs[i] \in Seq(A) /\ l \in Nat /\ r \in Nat /\ \A h \in 1 .. m : Len(seqs[h]) \in Nat
  OBVIOUS
<1>2. Len(flat[i]) = l + r /\ \A n \in 1 .. l + r : flat[i][n] = IF n <= l THEN flat[j][n] ELSE seqs[i][n - l]
  <2> DEFINE p == flat[j]
             q == seqs[i]
             f == flat[i]
  <2>1. p \in Seq(A) /\ q \in Seq(A) /\ f = p \o q
    BY <1>1
  <2> HIDE DEF p, q, f
  <2>2. Len(f) = Len(p) + Len(q) /\ \A n \in 1 .. Len(p) + Len(q) : f[n] = IF n <= Len(p) THEN p[n] ELSE q[n - Len(p)]
    BY <2>1, ConcatProperties
  <2> QED BY <2>2 DEF p, q, f
<1>3. /\ \A h \in 1 .. j : start[h] + Len(seqs[h]) <= l
      /\ \A h \in 1 .. j : \A x \in 1 .. Len(seqs[h]) : start[h] + x \in 1 .. l /\ flat[j][start[h] + x] = seqs[h][x]
      /\ \A n \in 1 .. l : \E h \in 1 .. j : \E x \in 1 .. Len(seqs[h]) : n = start[h] + x
  BY DEF Begun
<1>4. start[i] = l
  OBVIOUS
<1>5. \A h \in 1 .. i : h \in 1 .. j \/ h = i
  OBVIOUS
<1>6. \A h \in 1 .. j : h \in 1 .. i /\ h \in 1 .. m
  OBVIOUS
<1> HIDE DEF l, r
<1>7. ASSUME NEW h \in 1 .. i PROVE start[h] + Len(seqs[h]) <= l + r
  <2>1. CASE h \in 1 .. j
    <3>1. start[h] + Len(seqs[h]) <= l /\ start[h] \in Nat /\ Len(seqs[h]) \in Nat
      BY <1>1, <1>3, <1>6, <2>1
    <3> QED BY <1>1, <3>1
  <2>2. CASE h = i
    BY <1>1, <1>4, <2>2 DEF r
  <2> QED BY <1>5, <2>1, <2>2
<1>8. ASSUME NEW h \in 1 .. i, NEW x \in 1 .. Len(seqs[h])
      PROVE  start[h] + x \in 1 .. l + r /\ flat[i][start[h] + x] = seqs[h][x]
  <2> DEFINE n == start[h] + x
  <2>1. CASE h \in 1 .. j
    <3>1. n \in 1 .. l /\ flat[j][n] = seqs[h][x]
      BY <1>3, <2>1
    <3> HIDE DEF n
    <3>2. n \in 1 .. l + r /\ n <= l
      BY <1>1, <3>1
    <3>3. flat[i][n] = seqs[h][x]
      BY <1>2, <3>1, <3>2
    <3> QED BY <3>2, <3>3 DEF n
  <2>2. CASE h = i
    <3>1. n = l + x /\ x \in 1 .. r
      BY <1>4, <2>2 DEF r
    <3>2. n \in 1 .. l + r /\ ~(n <= l) /\ n - l = x
      <4> HIDE DEF n
      <4> QED BY <1>1, <3>1
    <3> HIDE DEF n
    <3>3. flat[i][n] = seqs[i][x]
      BY <1>2, <3>2
    <3> QED BY <2>2, <3>2, <3>3 DEF n
  <2> QED BY <1>5, <2>1, <2>2
<1>9. ASSUME NEW n \in 1 .. l + r PROVE \E h \in 1 .. i : \E x \in 1 .. Len(seqs[h]) : n = start[h] + x
  <2>1. CASE n <= l
    <3>1. n \in 1 .. l
      BY <1>1, <2>1
    <3>2. PICK h \in 1 .. j : \E x \in 1 .. Len(seqs[h]) : n = start[h] + x
      BY <1>3, <3>1
    <3> QED BY <1>6, <3>2
  <2>2. CASE ~(n <= l)
    <3> DEFINE x == n - l
    <3>1. x \in 1 .. r /\ n = l + x
      BY <1>1, <2>2
    <3> HIDE DEF x
    <3>2. x \in 1 .. Len(seqs[i]) /\ n = start[i] + x /\ i \in 1 .. i
      BY <1>4, <3>1 DEF r
    <3> QED BY <3>2
  <2> QED BY <2>1, <2>2
<1>10. Len(flat[i]) = start[i] + Len(seqs[i])
  BY <1>2, <1>4 DEF r
<1>11. l + r = Len(flat[i])
  BY <1>2
<1>12. \A h \in 1 .. i : start[h] + Len(seqs[h]) <= Len(flat[i])
  BY <1>7, <1>11
<1>13. \A h \in 1 .. i : \A x \in 1 .. Len(seqs[h]) :
         start[h] + x \in 1 .. Len(flat[i]) /\ flat[i][start[h] + x] = seqs[h][x]
  BY <1>8, <1>11
<1>14. \A n \in 1 .. Len(flat[i]) : \E h \in 1 .. i : \E x \in 1 .. Len(seqs[h]) : n = start[h] + x
  BY <1>9, <1>11
<1> QED
  BY <1>10, <1>12, <1>13, <1>14 DEF Begun

LEMMA StartsAre ==
  ASSUME NEW A, NEW seqs, NEW m \in Nat, m = Len(seqs), m >= 1, \A i \in 1 .. m : seqs[i] \in Seq(A)
  PROVE  FlattenSeq(seqs) \in Seq(A) /\ \E start : Starts(start, seqs, m, FlattenSeq(seqs))
<1>1. PICK flat : Flat(flat, seqs, A)
  BY FlattenIs
<1>2. /\ \A i \in 1 .. m : flat[i] \in Seq(A)
      /\ FlattenSeq(seqs) = flat[m] /\ flat[1] = seqs[1]
      /\ \A i \in 1 .. m : i > 1 => flat[i] = flat[i - 1] \o seqs[i]
  BY <1>1 DEF Flat
<1> DEFINE start == [i \in 1 .. m |-> IF i = 1 THEN 0 ELSE Len(flat[i - 1])]
<1>3. \A i \in 1 .. m : Len(flat[i]) \in Nat /\ Len(seqs[i]) \in Nat
  <2> SUFFICES ASSUME NEW i \in 1 .. m PROVE Len(flat[i]) \in Nat /\ Len(seqs[i]) \in Nat
    OBVIOUS
  <2>1. flat[i] \in Seq(A) /\ seqs[i] \in Seq(A)
    BY <1>2
  <2> QED BY <2>1
<1>4. start[1] = 0 /\ 1 \in 1 .. m /\ m \in 1 .. m
  OBVIOUS
<1>5. ASSUME NEW i \in 1 .. m, i > 1 PROVE i - 1 \in 1 .. m /\ start[i] = Len(flat[i - 1]) /\ flat[i] = flat[i - 1] \o seqs[i]
  <2>1. i - 1 \in 1 .. m /\ i # 1
    BY <1>5
  <2> QED BY <1>2, <1>5, <2>1
<1>6. start = [i \in 1 .. m |-> start[i]]
  OBVIOUS
<1> HIDE DEF start
<1>7. \A i \in 1 .. m : start[i] \in Nat
  <2> SUFFICES ASSUME NEW i \in 1 .. m PROVE start[i] \in Nat
    OBVIOUS
  <2>1. CASE i > 1
    <3> DEFINE j == i - 1
    <3>1. j \in 1 .. m /\ start[i] = Len(flat[j])
      BY <1>5, <2>1
    <3> HIDE DEF j
    <3> QED BY <1>3, <3>1
  <2>2. CASE ~(i > 1)
    <3>1. i = 1
      BY <2>2
    <3> QED BY <1>4, <3>1
  <2> QED BY <2>1, <2>2
<1> DEFINE Bad == {i \in 1 .. m : ~Begun(flat, start, seqs, i)}
<1>8. Bad = {}
  <2> SUFFICES ASSUME Bad # {} PROVE FALSE
    OBVIOUS
  <2>1. Bad \subseteq Nat
    OBVIOUS
  <2>2. PICK i \in Bad : \A j \in Bad : i <= j
    <3> HIDE DEF Bad
    <3> QED BY <2>1, Least
  <2>3. i \in 1 .. m /\ ~Begun(flat, start, seqs, i)
    OBVIOUS
  <2>4. CASE i = 1
    <3> DEFINE r == Len(seqs[1])
    <3>1. flat[1] = seqs[1] /\ start[1] = 0 /\ r \in Nat
      BY <1>2, <1>3, <1>4
    <3>2. \A x \in 1 .. r : 0 + x = x
      BY <3>1
    <3>3. 0 + r = r /\ 1 .. 1 = {1}
      BY <3>1
    <3> HIDE DEF r
    <3>4. Len(flat[1]) = r
      BY <3>1 DEF r
    <3>5. \A h \in 1 .. 1 : start[h] + Len(seqs[h]) <= r
      BY <3>1, <3>3 DEF r
    <3>6. \A h \in 1 .. 1 : \A x \in 1 .. Len(seqs[h]) : start[h] + x \in 1 .. r /\ flat[1][start[h] + x] = seqs[h][x]
      BY <3>1, <3>2, <3>3 DEF r
    <3>7. \A n \in 1 .. r : \E h \in 1 .. 1 : \E x \in 1 .. Len(seqs[h]) : n = start[h] + x
      BY <3>1, <3>2, <3>3 DEF r
    <3>8. Len(flat[1]) = start[1] + Len(seqs[1])
      BY <3>1, <3>3, <3>4 DEF r
    <3>9. Begun(flat, start, seqs, 1)
      BY <3>4, <3>5, <3>6, <3>7, <3>8 DEF Begun
    <3> QED BY <2>3, <2>4, <3>9
  <2>5. CASE i # 1
    <3> DEFINE j == i - 1
    <3>1. j \in 1 .. m /\ j \in Nat /\ i = j + 1 /\ ~(i <= j) /\ i > 1
      BY <2>3, <2>5
    <3>2. flat[i] = flat[j] \o seqs[i] /\ start[i] = Len(flat[j])
      BY <1>5, <2>3, <3>1
    <3> HIDE DEF j
    <3>3. j \notin Bad
      <4> HIDE DEF Bad
      <4> QED BY <2>2, <3>1
    <3>4. Begun(flat, start, seqs, j)
      BY <3>1, <3>3
    <3> HIDE DEF Bad
    <3>5. Begun(flat, start, seqs, i)
      BY <1>2, <1>7, <2>3, <3>1, <3>2, <3>4, BegunNext
    <3> QED BY <2>3, <3>5
  <2> QED BY <2>4, <2>5
<1>9. \A i \in 1 .. m : Begun(flat, start, seqs, i)
  BY <1>8
<1> DEFINE s == flat[m]
<1>10. Begun(flat, start, seqs, m)
  BY <1>4, <1>9
<1>11. s \in Seq(A) /\ Len(s) \in Nat /\ DOMAIN s = 1 .. Len(s)
  <2>1. s \in Seq(A)
    BY <1>2, <1>4
  <2> HIDE DEF s
  <2> QED BY <2>1
<1>12. ASSUME NEW i \in 1 .. m, i < m PROVE start[i + 1] = start[i] + Len(seqs[i])
  <2> DEFINE j == i + 1
  <2>1. j \in 1 .. m /\ j > 1 /\ j - 1 = i
    BY <1>12
  <2> HIDE DEF j
  <2>2. start[j] = Len(flat[i])
    BY <1>5, <2>1
  <2>3. Len(flat[i]) = start[i] + Len(seqs[i])
    BY <1>9 DEF Begun
  <2> QED BY <2>2, <2>3 DEF j
<1>13. ASSUME NEW i \in 1 .. m, NEW j \in 1 .. m, i < j PROVE start[i] + Len(seqs[i]) <= start[j]
  <2> DEFINE h == j - 1
  <2>1. h \in 1 .. m /\ i \in 1 .. h /\ j > 1
    BY <1>13
  <2>2. start[j] = Len(flat[h])
    BY <1>5, <2>1
  <2> HIDE DEF h
  <2>3. start[i] + Len(seqs[i]) <= Len(flat[h])
    BY <1>9, <2>1 DEF Begun
  <2> QED BY <2>2, <2>3
<1>14. start \in [1 .. m -> Nat]
  BY <1>6, <1>7
<1>15. start[m] + Len(seqs[m]) = Len(s)
  BY <1>10 DEF Begun
<1>16. Starts(start, seqs, m, s)
  BY <1>4, <1>10, <1>11, <1>12, <1>13, <1>14, <1>15 DEF Starts, Begun
<1> QED
  BY <1>2, <1>11, <1>16


-----------------------------------------------------------------------------
(* The keys of the leaves, one leaf after the other.                       *)

KeysOf(L) == [i \in DOMAIN L |-> node[L[i]].keys]
RidsOf(L) == [i \in DOMAIN L |-> node[L[i]].rids]

LEMMA LeavesApart ==
  ASSUME NEW T, NEW lev, NEW nxt, NEW fl, Index(node, hdr, work, T, lev, nxt, fl),
         NEW L, LeafOrder(L, T, nxt), NEW a \in 1 .. Len(L), NEW b \in 1 .. Len(L), a < b,
         NEW x \in 1 .. Len(node[L[a]].keys), NEW y \in 1 .. Len(node[L[b]].keys)
  PROVE  node[L[a]].keys[x] <= node[L[b]].keys[y]
<1> DEFINE m == Len(L)
           c == b - 1
           s == node[L[b]].keys
           d == c + 1
           one == 1
<1>1. m \in Nat
  BY DEF LeafOrder
<1>2. c \in 1 .. m /\ a <= c /\ c < m /\ d = b /\ m > 1
  BY <1>1
<1>3. Len(s) \in Nat /\ Ascend(s) /\ DOMAIN s = 1 .. Len(s) /\ \A i \in 1 .. Len(s) : s[i] \in Int
  BY LeafKeys
<1>4. one \in 1 .. Len(s)
  BY <1>2, LeafKeys
<1>5. Last(node[L[c]].keys) <= node[L[d]].keys[one]
  <2> HIDE DEF c
  <2> QED BY <1>2, LeafKeys
<1>6. node[L[a]].keys[x] <= Last(node[L[c]].keys)
  <2> HIDE DEF c
  <2> QED BY <1>2, LeavesAscend
<1>7. s[one] <= s[y]
  <2>1. one = y \/ one < y
    OBVIOUS
  <2> HIDE DEF one
  <2>2. y \in 1 .. Len(s)
    OBVIOUS
  <2> HIDE DEF s
  <2>3. one < y => s[one] <= s[y]
    BY <1>3, <1>4, <2>2 DEF Ascend
  <2>4. s[one] \in Int
    BY <1>3, <1>4
  <2>5. one = y => s[one] <= s[y]
    BY <2>4
  <2> QED BY <2>1, <2>3, <2>5
<1>8. node[L[a]].keys[x] \in Int
  BY LeafKeys
<1>9. Last(node[L[c]].keys) \in Int
  <2> HIDE DEF c
  <2>1. /\ Last(node[L[c]].keys) = node[L[c]].keys[Len(node[L[c]].keys)]
        /\ Len(node[L[c]].keys) \in 1 .. Len(node[L[c]].keys)
    BY <1>2, LeafKeys
  <2>2. \A i \in 1 .. Len(node[L[c]].keys) : node[L[c]].keys[i] \in Int
    BY <1>2, LeafKeys
  <2> QED BY <2>1, <2>2
<1>10. s[one] \in Int /\ s[y] \in Int
  <2>1. y \in 1 .. Len(s)
    OBVIOUS
  <2> HIDE DEF s, one
  <2> QED BY <1>3, <1>4, <2>1
<1>11. node[L[d]].keys = s
  BY <1>2
<1> DEFINE k1 == node[L[a]].keys[x]
           k2 == Last(node[L[c]].keys)
           k3 == s[one]
           k4 == s[y]
<1>12. k1 <= k2 /\ k2 <= k3 /\ k3 <= k4 /\ k1 \in Int /\ k2 \in Int /\ k3 \in Int /\ k4 \in Int
  <2> HIDE DEF s, one, c, d
  <2> QED BY <1>5, <1>6, <1>7, <1>8, <1>9, <1>10, <1>11
<1>13. k1 <= k4
  <2> HIDE DEF k1, k2, k3, k4
  <2> QED BY <1>12
<1> QED BY <1>13

\* Between two places of flattened sequences the first is in an earlier part, or
\* earlier in the same part.
LEMMA StartsOrder ==
  ASSUME NEW start, NEW seqs, NEW m \in Nat, NEW s, Starts(start, seqs, m, s),
         \A i \in 1 .. m : Len(seqs[i]) \in Nat,
         NEW a \in 1 .. m, NEW b \in 1 .. m, NEW x \in 1 .. Len(seqs[a]), NEW y \in 1 .. Len(seqs[b])
  PROVE  start[a] + x < start[b] + y <=> (a < b \/ (a = b /\ x < y))
<1> DEFINE sa == start[a]
           sb == start[b]
           la == Len(seqs[a])
           lb == Len(seqs[b])
<1>1. sa \in Nat /\ sb \in Nat /\ la \in Nat /\ lb \in Nat /\ x \in 1 .. la /\ y \in 1 .. lb
  BY DEF Starts
<1>2. a < b => sa + la <= sb
  BY DEF Starts
<1>3. b < a => sb + lb <= sa
  BY DEF Starts
<1>4. a = b => sa = sb
  OBVIOUS
<1> HIDE DEF sa, sb, la, lb
<1>5. a < b => sa + x < sb + y
  BY <1>1, <1>2
<1>6. b < a => ~(sa + x < sb + y)
  BY <1>1, <1>3
<1>7. a = b => (sa + x < sb + y <=> x < y)
  BY <1>1, <1>4
<1>8. a < b \/ b < a \/ a = b
  OBVIOUS
<1>9. (a < b => ~(a = b)) /\ (b < a => ~(a < b) /\ ~(a = b)) /\ (a = b => ~(a < b))
  OBVIOUS
<1>10. sa + x < sb + y <=> (a < b \/ (a = b /\ x < y))
  BY <1>5, <1>6, <1>7, <1>8, <1>9
<1> QED BY <1>10 DEF sa, sb

LEMMA KeyListIs ==
  ASSUME NEW T, NEW lev, NEW nxt, NEW fl, Index(node, hdr, work, T, lev, nxt, fl),
         NEW L, LeafOrder(L, T, nxt)
  PROVE  /\ KeyList \in Seq(Int) /\ Ascend(KeyList)
         /\ \E start : Starts(start, KeysOf(L), Len(L), KeyList)
<1> DEFINE m == Len(L)
           seqs == KeysOf(L)
           s == KeyList
<1>1. LeafList = L
  BY RingIs
<1>2. L \in Seq(T) /\ m \in Nat /\ m >= 1 /\ \A i \in 1 .. m : L[i] \in Pages
  BY DEF LeafOrder
<1>3. DOMAIN L = 1 .. m
  BY <1>2
<1>4. s = FlattenSeq(seqs)
  BY <1>1 DEF KeyList, KeysOf
<1>5. seqs = [i \in 1 .. m |-> node[L[i]].keys]
  BY <1>3 DEF KeysOf
<1> HIDE DEF s, seqs
<1>6. m = Len(seqs) /\ \A i \in 1 .. m : seqs[i] = node[L[i]].keys
  <2> HIDE DEF m
  <2> QED BY <1>2, <1>5
<1>7. \A i \in 1 .. m : seqs[i] \in Seq(Int) /\ Len(seqs[i]) \in Nat
  BY <1>2, <1>6, KeysAre
<1>8. s \in Seq(Int) /\ \E start : Starts(start, seqs, m, s)
  BY <1>2, <1>4, <1>6, <1>7, StartsAre
<1>9. PICK start : Starts(start, seqs, m, s)
  BY <1>8
<1>10. /\ Len(s) \in Nat /\ DOMAIN s = 1 .. Len(s)
       /\ \A i \in 1 .. m : \A x \in 1 .. Len(seqs[i]) : s[start[i] + x] = seqs[i][x]
       /\ \A n \in 1 .. Len(s) : \E i \in 1 .. m : \E x \in 1 .. Len(seqs[i]) : n = start[i] + x
  BY <1>9 DEF Starts
<1>11. ASSUME NEW j \in 1 .. Len(s), NEW k \in 1 .. Len(s), j < k PROVE s[j] <= s[k]
  <2>1. PICK a \in 1 .. m : \E x \in 1 .. Len(seqs[a]) : j = start[a] + x
    BY <1>10
  <2>2. PICK x \in 1 .. Len(seqs[a]) : j = start[a] + x
    BY <2>1
  <2>3. PICK b \in 1 .. m : \E y \in 1 .. Len(seqs[b]) : k = start[b] + y
    BY <1>10
  <2>4. PICK y \in 1 .. Len(seqs[b]) : k = start[b] + y
    BY <2>3
  <2>5. a < b \/ (a = b /\ x < y)
    <3>1. start[a] + x < start[b] + y
      BY <1>11, <2>2, <2>4
    <3> HIDE DEF m
    <3> QED BY <1>2, <1>7, <1>9, <3>1, StartsOrder
  <2>6. s[j] = node[L[a]].keys[x] /\ s[k] = node[L[b]].keys[y] /\ seqs[a] = node[L[a]].keys /\ seqs[b] = node[L[b]].keys
    <3>1. s[j] = seqs[a][x] /\ s[k] = seqs[b][y]
      BY <1>10, <2>2, <2>4
    <3> QED BY <1>6, <3>1
  <2>7. CASE a < b
    <3>1. node[L[a]].keys[x] <= node[L[b]].keys[y]
      BY <2>6, <2>7, LeavesApart
    <3> QED BY <2>6, <3>1
  <2>8. CASE a = b /\ x < y
    <3>1. Ascend(node[L[a]].keys) /\ DOMAIN node[L[a]].keys = 1 .. Len(node[L[a]].keys)
      BY LeafKeys
    <3>2. x \in 1 .. Len(node[L[a]].keys) /\ y \in 1 .. Len(node[L[a]].keys)
      BY <2>6, <2>8
    <3>3. node[L[a]].keys[x] <= node[L[a]].keys[y]
      BY <2>8, <3>1, <3>2 DEF Ascend
    <3> QED BY <2>6, <2>8, <3>3
  <2> QED BY <2>5, <2>7, <2>8
<1>12. Ascend(s)
  BY <1>10, <1>11 DEF Ascend
<1> QED
  BY <1>8, <1>12 DEF s, seqs

\* The ring of the leaves holds exactly the leaves under the root, from left to
\* right, linked both ways up to last_leaf, and their keys ascend, whatever splits
\* and merges have done to the chain.
THEOREM RingAlwaysFollowsTree == Spec => []RingFollowsTree
<1>1. ASSUME NEW T, NEW lev, NEW nxt, NEW fl, Index(node, hdr, work, T, lev, nxt, fl)
      PROVE  RingFollowsTree
  <2>1. /\ Shape(T, lev, nxt) /\ RingOK(node, hdr.last_leaf, T, nxt)
    BY <1>1 DEF Index
  <2>2. PICK L : LeafOrder(L, T, nxt)
    BY <1>1, LeavesInOrder
  <2> DEFINE m == Len(L)
  <2>3. LeafList = L
    BY <1>1, <2>2, RingIs
  <2>4. Leaves[hdr.root_page] = L
    BY <1>1, <2>2, LeavesAre
  <2>5. /\ L \in Seq(T) /\ m \in Nat /\ m >= 1 /\ IsInjective(L)
        /\ \A i \in 1 .. m : L[i] \in T /\ L[i] \in Pages /\ node[L[i]].is_leaf
        /\ L[1] = first_leaf /\ L[m] = hdr.last_leaf
        /\ \A i \in 1 .. m : nxt[L[i]] = IF i < m THEN L[i + 1] ELSE NDX_NO_PAGE
    BY <2>2 DEF LeafOrder
  <2>6. DOMAIN L = 1 .. m
    BY <2>5
  <2>7. Last(L) = hdr.last_leaf
    BY <2>5 DEF Last
  <2>8. /\ node[NDX_LEAF_HEADER_PAGE].next_leaf = first_leaf
        /\ node[NDX_LEAF_HEADER_PAGE].prev_leaf = hdr.last_leaf
    BY <2>1 DEF RingOK, IndexPageHeader
  <2>9. ASSUME NEW i \in DOMAIN L
        PROVE  node[L[i]].prev_leaf = IF i = 1 THEN NDX_LEAF_HEADER_PAGE ELSE L[i - 1]
    <3>1. CASE i = 1
      <4>1. node[first_leaf].prev_leaf = NDX_LEAF_HEADER_PAGE
        BY <2>1 DEF RingOK
      <4> QED BY <2>5, <3>1, <4>1
    <3>2. CASE i # 1
      <4> DEFINE j == i - 1
                 k == j + 1
      <4>1. j \in 1 .. m /\ j < m /\ k = i /\ i \in 1 .. m
        BY <2>5, <2>6, <3>2
      <4> HIDE DEF j
      <4>2. nxt[L[j]] = L[k] /\ L[j] \in T
        BY <2>5, <4>1
      <4>3. nxt[L[j]] = L[i] /\ L[i] \in T /\ L[i] # NDX_NO_PAGE
        BY <2>5, <4>1, <4>2, Constants
      <4>4. LeafOK(node, hdr.last_leaf, T, nxt, L[j])
        BY <2>1, <2>5, <4>1 DEF RingOK
      <4>5. node[L[i]].prev_leaf = L[j]
        BY <4>3, <4>4 DEF LeafOK
      <4> QED BY <3>2, <4>5 DEF j
    <3> QED BY <3>1, <3>2
  <2>10. IsSorted(KeyList, LAMBDA x, y : x <= y)
    <3>1. KeyList \in Seq(Int) /\ Ascend(KeyList)
      BY <1>1, <2>2, KeyListIs
    <3> DEFINE s == KeyList
    <3>2. DOMAIN s = 1 .. Len(s)
      <4> HIDE DEF s
      <4> QED BY <3>1 DEF s
    <3> QED BY <3>1, <3>2 DEF IsSorted, Ascend
  <2> QED BY <2>3, <2>4, <2>7, <2>8, <2>9, <2>10 DEF RingFollowsTree
<1>2. IInv => RingFollowsTree
  BY <1>1 DEF IInv
<1> QED
  BY <1>2, Invariance, PTL

-----------------------------------------------------------------------------
(* The places of the entries, in the order of a scan.                      *)

\* The leaves before the i-th hold start[i] entries, all leaves together k.
Spread(L, start, k) ==
  /\ Len(L) \in Nat /\ Len(L) >= 1 /\ k \in Nat /\ Len(L) \in 1 .. Len(L)
  /\ start \in [1 .. Len(L) -> Nat] /\ start[1] = 0
  /\ \A i \in 1 .. Len(L) : Len(node[L[i]].keys) \in Nat /\ Len(node[L[i]].rids) = Len(node[L[i]].keys)
  /\ \A i \in 1 .. Len(L) : i < Len(L) => start[i + 1] = start[i] + Len(node[L[i]].keys)
  /\ start[Len(L)] + Len(node[L[Len(L)]].keys) = k
  /\ \A i, j \in 1 .. Len(L) : i < j => start[i] + Len(node[L[i]].keys) <= start[j]
  /\ \A i \in 1 .. Len(L) : \A x \in 1 .. Len(node[L[i]].keys) :
       /\ start[i] + x \in 1 .. k
       /\ KeyList[start[i] + x] = node[L[i]].keys[x] /\ RidList[start[i] + x] = node[L[i]].rids[x]
  /\ \A n \in 1 .. k : \E i \in 1 .. Len(L) : \E x \in 1 .. Len(node[L[i]].keys) : n = start[i] + x
  /\ KeyList \in Seq(Int) /\ Len(KeyList) = k /\ DOMAIN KeyList = 1 .. k /\ Ascend(KeyList)
  /\ RidList \in Seq(Rids) /\ Len(RidList) = k /\ DOMAIN RidList = 1 .. k

\* Parts of the same lengths begin at the same places.
LEMMA SameStarts ==
  ASSUME NEW m \in Nat, NEW f, NEW s, NEW seqs, Starts(f, seqs, m, s),
         NEW g, NEW s2, NEW seqs2, Starts(g, seqs2, m, s2),
         \A i \in 1 .. m : Len(seqs[i]) = Len(seqs2[i])
  PROVE  f = g
<1>1. /\ f \in [1 .. m -> Nat] /\ g \in [1 .. m -> Nat] /\ f[1] = g[1]
      /\ \A i \in 1 .. m : i < m => f[i + 1] = f[i] + Len(seqs[i])
      /\ \A i \in 1 .. m : i < m => g[i + 1] = g[i] + Len(seqs[i])
  BY DEF Starts
<1> DEFINE Bad == {i \in 1 .. m : f[i] # g[i]}
<1>2. Bad = {}
  <2> SUFFICES ASSUME Bad # {} PROVE FALSE
    OBVIOUS
  <2>1. Bad \subseteq Nat
    OBVIOUS
  <2>2. PICK i \in Bad : \A j \in Bad : i <= j
    <3> HIDE DEF Bad
    <3> QED BY <2>1, Least
  <2>3. i \in 1 .. m /\ f[i] # g[i] /\ i # 1
    BY <1>1
  <2> DEFINE j == i - 1
             k == j + 1
  <2>4. j \in 1 .. m /\ j < m /\ k = i /\ ~(i <= j)
    BY <2>3
  <2> HIDE DEF j
  <2>5. f[j] = g[j]
    BY <2>2, <2>4
  <2>6. f[k] = g[k]
    BY <1>1, <2>4, <2>5
  <2> QED BY <2>3, <2>4, <2>6
<1>3. \A i \in 1 .. m : f[i] = g[i]
  BY <1>2
<1> HIDE DEF Bad
<1> QED BY <1>1, <1>3

LEMMA SpreadExists ==
  ASSUME NEW T, NEW lev, NEW nxt, NEW fl, Index(node, hdr, work, T, lev, nxt, fl),
         NEW L, LeafOrder(L, T, nxt)
  PROVE  \E start : Spread(L, start, Len(KeyList))
<1> DEFINE m == Len(L)
           ks == KeysOf(L)
           rs == RidsOf(L)
           k == Len(KeyList)
<1>1. L \in Seq(T) /\ m \in Nat /\ m >= 1 /\ \A i \in 1 .. m : L[i] \in Pages /\ node[L[i]].is_leaf
  BY DEF LeafOrder
<1>2. DOMAIN L = 1 .. m /\ LeafList = L
  BY <1>1, RingIs
<1>3. m = Len(ks) /\ m = Len(rs) /\ \A i \in 1 .. m : ks[i] = node[L[i]].keys /\ rs[i] = node[L[i]].rids
  <2>1. ks = [i \in 1 .. m |-> node[L[i]].keys] /\ rs = [i \in 1 .. m |-> node[L[i]].rids]
    BY <1>2 DEF KeysOf, RidsOf
  <2> HIDE DEF m, ks, rs
  <2> QED BY <1>1, <2>1
<1>4. RidList = FlattenSeq(rs)
  BY <1>2 DEF RidList, RidsOf
<1>5. KeyList \in Seq(Int) /\ Ascend(KeyList) /\ \E f : Starts(f, ks, m, KeyList)
  BY KeyListIs
<1> HIDE DEF ks, rs
<1>6. \A i \in 1 .. m : rs[i] \in Seq(Rids) /\ Len(rs[i]) \in Nat /\ Len(ks[i]) = Len(rs[i])
  <2> SUFFICES ASSUME NEW i \in 1 .. m PROVE rs[i] \in Seq(Rids) /\ Len(rs[i]) \in Nat /\ Len(ks[i]) = Len(rs[i])
    OBVIOUS
  <2>1. Typed(node)
    BY DEF Index
  <2> QED BY <1>1, <1>3, <2>1, PageIs
<1>7. RidList \in Seq(Rids) /\ \E g : Starts(g, rs, m, RidList)
  BY <1>1, <1>3, <1>4, <1>6, StartsAre
<1>8. PICK f : Starts(f, ks, m, KeyList)
  BY <1>5
<1>9. PICK g : Starts(g, rs, m, RidList)
  BY <1>7
<1>10. f = g
  BY <1>1, <1>6, <1>8, <1>9, SameStarts
<1>11. m \in 1 .. m
  BY <1>1
<1> HIDE DEF m
<1>12. /\ f \in [1 .. m -> Nat] /\ f[1] = 0 /\ Len(KeyList) \in Nat /\ DOMAIN KeyList = 1 .. Len(KeyList)
       /\ \A i \in 1 .. m : i < m => f[i + 1] = f[i] + Len(ks[i])
       /\ f[m] + Len(ks[m]) = Len(KeyList)
       /\ \A i, j \in 1 .. m : i < j => f[i] + Len(ks[i]) <= f[j]
       /\ \A i \in 1 .. m : \A x \in 1 .. Len(ks[i]) :
            f[i] + x \in 1 .. Len(KeyList) /\ KeyList[f[i] + x] = ks[i][x]
       /\ \A n \in 1 .. Len(KeyList) : \E i \in 1 .. m : \E x \in 1 .. Len(ks[i]) : n = f[i] + x
  BY <1>8 DEF Starts
<1>13. /\ f[m] + Len(rs[m]) = Len(RidList) /\ DOMAIN RidList = 1 .. Len(RidList)
       /\ \A i \in 1 .. m : \A x \in 1 .. Len(rs[i]) : RidList[f[i] + x] = rs[i][x]
  BY <1>9, <1>10 DEF Starts
<1>14. Len(RidList) = Len(KeyList)
  BY <1>6, <1>11, <1>12, <1>13
<1> HIDE DEF k
<1>15. \A i \in 1 .. m : Len(node[L[i]].keys) \in Nat /\ Len(node[L[i]].rids) = Len(node[L[i]].keys)
  BY <1>3, <1>6
<1>16. \A i \in 1 .. m : \A x \in 1 .. Len(node[L[i]].keys) :
         /\ f[i] + x \in 1 .. Len(KeyList)
         /\ KeyList[f[i] + x] = node[L[i]].keys[x] /\ RidList[f[i] + x] = node[L[i]].rids[x]
  <2> SUFFICES ASSUME NEW i \in 1 .. m, NEW x \in 1 .. Len(node[L[i]].keys)
               PROVE  /\ f[i] + x \in 1 .. Len(KeyList)
                      /\ KeyList[f[i] + x] = node[L[i]].keys[x] /\ RidList[f[i] + x] = node[L[i]].rids[x]
    OBVIOUS
  <2>1. x \in 1 .. Len(ks[i]) /\ x \in 1 .. Len(rs[i]) /\ ks[i] = node[L[i]].keys /\ rs[i] = node[L[i]].rids
    BY <1>3, <1>6
  <2>2. f[i] + x \in 1 .. Len(KeyList) /\ KeyList[f[i] + x] = ks[i][x]
    BY <1>12, <2>1
  <2>3. RidList[f[i] + x] = rs[i][x]
    BY <1>13, <2>1
  <2> QED BY <2>1, <2>2, <2>3
<1>17. \A n \in 1 .. Len(KeyList) : \E i \in 1 .. m : \E x \in 1 .. Len(node[L[i]].keys) : n = f[i] + x
  <2> SUFFICES ASSUME NEW n \in 1 .. Len(KeyList)
               PROVE  \E i \in 1 .. m : \E x \in 1 .. Len(node[L[i]].keys) : n = f[i] + x
    OBVIOUS
  <2>1. PICK i \in 1 .. m : \E x \in 1 .. Len(ks[i]) : n = f[i] + x
    BY <1>12
  <2>2. ks[i] = node[L[i]].keys
    BY <1>3
  <2> QED BY <2>1, <2>2
<1>18. /\ \A i \in 1 .. m : i < m => f[i + 1] = f[i] + Len(node[L[i]].keys)
       /\ f[m] + Len(node[L[m]].keys) = Len(KeyList)
       /\ \A i, j \in 1 .. m : i < j => f[i] + Len(node[L[i]].keys) <= f[j]
  BY <1>3, <1>11, <1>12
<1>19. Spread(L, f, Len(KeyList))
  BY <1>1, <1>5, <1>7, <1>11, <1>12, <1>13, <1>14, <1>15, <1>16, <1>17, <1>18 DEF Spread, m
<1> QED BY <1>19

\* The n-th place of a scan of all entries; after them comes the end.
Place(L, start, n, iid) ==
  \E a \in 1 .. Len(L), s \in Nat :
    /\ iid = <<L[a], s>> /\ n = start[a] + s + 1
    /\ s < Len(node[L[a]].keys) \/ (a = Len(L) /\ s = Len(node[L[a]].keys))

LEMMA PlaceOnly ==
  ASSUME NEW L, NEW start, NEW k, Spread(L, start, k),
         NEW n, NEW iid, Place(L, start, n, iid), NEW jid, Place(L, start, n, jid)
  PROVE  iid = jid
<1> DEFINE m == Len(L)
           len(i) == Len(node[L[i]].keys)
<1>1. /\ m \in Nat /\ \A i \in 1 .. m : start[i] \in Nat /\ len(i) \in Nat
      /\ \A i, j \in 1 .. m : i < j => start[i] + len(i) <= start[j]
  BY DEF Spread
<1>2. PICK a \in 1 .. m, s \in Nat : /\ iid = <<L[a], s>> /\ n = start[a] + s + 1
                                     /\ s < len(a) \/ (a = m /\ s = len(a))
  BY DEF Place
<1>3. PICK b \in 1 .. m, t \in Nat : /\ jid = <<L[b], t>> /\ n = start[b] + t + 1
                                     /\ t < len(b) \/ (b = m /\ t = len(b))
  BY DEF Place
<1> DEFINE sa == start[a]
           sb == start[b]
           la == len(a)
           lb == len(b)
<1>4. sa \in Nat /\ sb \in Nat /\ la \in Nat /\ lb \in Nat /\ sa + s + 1 = sb + t + 1
  BY <1>1, <1>2, <1>3
<1>5. (a < b => sa + la <= sb) /\ (b < a => sb + lb <= sa) /\ (a = b => sa = sb)
  BY <1>1
<1>6. (s < la \/ (a = m /\ s = la)) /\ (t < lb \/ (b = m /\ t = lb))
  BY <1>2, <1>3
<1> HIDE DEF sa, sb, la, lb, m, len
<1>7. ~(a < b)
  <2> SUFFICES ASSUME a < b PROVE FALSE
    OBVIOUS
  <2>1. a # m
    BY <1>1
  <2>2. s < la
    BY <1>6, <2>1
  <2> QED BY <1>4, <1>5, <2>2
<1>8. ~(b < a)
  <2> SUFFICES ASSUME b < a PROVE FALSE
    OBVIOUS
  <2>1. b # m
    BY <1>1
  <2>2. t < lb
    BY <1>6, <2>1
  <2> QED BY <1>4, <1>5, <2>2
<1>9. a = b
  BY <1>1, <1>7, <1>8
<1>10. s = t
  BY <1>4, <1>5, <1>9
<1> QED BY <1>2, <1>3, <1>9, <1>10

\* Only the end comes after all entries.
LEMMA PlaceLast ==
  ASSUME NEW T, NEW lev, NEW nxt, NEW fl, Index(node, hdr, work, T, lev, nxt, fl),
         NEW L, LeafOrder(L, T, nxt), NEW start, NEW k, Spread(L, start, k)
  PROVE  /\ Place(L, start, k + 1, LeafEnd) /\ Place(L, start, 1, <<first_leaf, 0>>)
         /\ LeafEnd = <<L[Len(L)], Len(node[L[Len(L)]].keys)>>
<1> DEFINE m == Len(L)
           e == Len(node[L[m]].keys)
           one == 1
           zero == 0
<1>1. m \in Nat /\ m \in 1 .. m /\ one \in 1 .. m /\ L[m] = hdr.last_leaf /\ L[one] = first_leaf
  BY DEF LeafOrder
<1>2. LeafEnd = <<L[m], e>>
  BY <1>1 DEF LeafEnd
<1>3. e \in Nat /\ start[m] \in Nat /\ start[m] + e = k /\ start[one] = 0 /\ Len(node[L[one]].keys) \in Nat
  BY <1>1 DEF Spread
<1>4. k + 1 = start[m] + e + 1 /\ 1 = start[one] + zero + 1 /\ zero \in Nat
  BY <1>3
<1>5. zero < Len(node[L[one]].keys) \/ (one = m /\ zero = Len(node[L[one]].keys))
  <2>1. m > 1 => Len(node[L[one]].keys) >= 1
    <3> SUFFICES ASSUME m > 1 PROVE Len(node[L[one]].keys) >= 1
      OBVIOUS
    <3> HIDE DEF one
    <3> QED BY <1>1, LeafKeys
  <2>2. m > 1 \/ one = m
    <3>1. m \in Nat /\ m >= 1
      BY DEF LeafOrder
    <3> HIDE DEF m
    <3> QED BY <3>1
  <2> DEFINE l == Len(node[L[one]].keys)
  <2>3. l \in Nat /\ (m > 1 => l >= 1)
    BY <1>3, <2>1
  <2> HIDE DEF one, m, l
  <2>4. zero < l \/ (one = m /\ zero = l)
    BY <2>2, <2>3
  <2> QED BY <2>4 DEF l
<1> HIDE DEF m, e, one, zero
<1>6. Place(L, start, k + 1, LeafEnd)
  BY <1>1, <1>2, <1>3, <1>4 DEF Place, m, e
<1>7. Place(L, start, 1, <<first_leaf, zero>>)
  BY <1>1, <1>4, <1>5 DEF Place, m
<1> QED BY <1>2, <1>6, <1>7 DEF m, e, zero

LEMMA PlaceNext ==
  ASSUME NEW T, NEW lev, NEW nxt, NEW fl, Index(node, hdr, work, T, lev, nxt, fl),
         NEW L, LeafOrder(L, T, nxt), NEW start, NEW k, Spread(L, start, k),
         NEW n \in Nat, NEW iid, Place(L, start, n, iid), iid # LeafEnd
  PROVE  n <= k /\ Place(L, start, n + 1, NextID(iid))
<1> DEFINE m == Len(L)
           len(i) == Len(node[L[i]].keys)
<1>1. /\ m \in Nat /\ m \in 1 .. m /\ \A i \in 1 .. m : start[i] \in Nat /\ len(i) \in Nat /\ L[i] \in T /\ L[i] \in Pages
      /\ \A i \in 1 .. m : i < m => start[i + 1] = start[i] + len(i)
      /\ \A i \in 1 .. m : \A x \in 1 .. len(i) : start[i] + x \in 1 .. k
      /\ k \in Nat /\ \A i \in 1 .. m : nxt[L[i]] = IF i < m THEN L[i + 1] ELSE NDX_NO_PAGE
      /\ \A i \in 1 .. m : node[L[i]].is_leaf
  BY DEF Spread, LeafOrder
<1>2. PICK a \in 1 .. m, s \in Nat : /\ iid = <<L[a], s>> /\ n = start[a] + s + 1
                                     /\ s < len(a) \/ (a = m /\ s = len(a))
  BY DEF Place
<1>3. LeafEnd = <<L[m], len(m)>>
  BY PlaceLast
<1>4. s < len(a)
  BY <1>2, <1>3
<1> DEFINE q == len(a)
           sa == start[a]
           s2 == s + 1
<1>5. q \in Nat /\ sa \in Nat /\ s < q /\ s2 \in Nat /\ s2 <= q /\ s2 \in 1 .. q
  BY <1>1, <1>4
<1>6. n = sa + s2 /\ n + 1 = sa + s2 + 1
  <2>1. n = sa + s + 1
    BY <1>2
  <2> HIDE DEF sa
  <2>2. sa + s + 1 = sa + s2
    BY <1>5
  <2>3. n = sa + s2
    BY <2>1, <2>2
  <2> HIDE DEF s2
  <2> QED BY <2>3
<1>7. n <= k
  <2>1. sa + s2 \in 1 .. k
    BY <1>1, <1>5
  <2> HIDE DEF sa, s2
  <2> QED BY <1>1, <1>6, <2>1
<1>8. node[L[a]].next_leaf = IF a < m THEN L[a + 1] ELSE NDX_LEAF_HEADER_PAGE
  <2>1. RingOK(node, hdr.last_leaf, T, nxt)
    BY DEF Index
  <2>2. LeafOK(node, hdr.last_leaf, T, nxt, L[a])
    BY <1>1, <2>1 DEF RingOK
  <2>3. a < m => L[a + 1] # NDX_NO_PAGE
    <3> SUFFICES ASSUME a < m PROVE L[a + 1] # NDX_NO_PAGE
      OBVIOUS
    <3>1. a + 1 \in 1 .. m
      BY <1>1
    <3> QED BY <1>1, <3>1, Constants
  <2>4. nxt[L[a]] = IF a < m THEN L[a + 1] ELSE NDX_NO_PAGE
    BY <1>1
  <2> HIDE DEF m
  <2> QED BY <2>2, <2>3, <2>4 DEF LeafOK
<1>9. NextID(iid) = IF s2 < q THEN <<L[a], s2>>
                    ELSE IF node[L[a]].next_leaf \in {NDX_LEAF_HEADER_PAGE, NDX_NO_PAGE} THEN LeafEnd
                         ELSE <<node[L[a]].next_leaf, 0>>
  <2>1. iid[1] = L[a] /\ iid[2] = s
    BY <1>2
  <2> QED BY <2>1 DEF NextID
<1>10. CASE s2 < q
  <2>1. NextID(iid) = <<L[a], s2>>
    BY <1>9, <1>10
  <2> HIDE DEF s2
  <2>2. Place(L, start, n + 1, NextID(iid))
    BY <1>5, <1>6, <1>10, <2>1 DEF Place
  <2> QED BY <1>7, <2>2
<1>11. CASE ~(s2 < q) /\ a < m
  <2> DEFINE a2 == a + 1
             zero == 0
  <2>1. a2 \in 1 .. m /\ m > 1 /\ zero \in Nat /\ s2 = q
    BY <1>1, <1>5, <1>11
  <2>2. start[a2] = sa + q
    BY <1>1, <1>11
  <2>3. NextID(iid) = <<L[a2], zero>>
    <3>1. L[a2] \in Pages /\ L[a2] \in T
      BY <1>1, <2>1
    <3>2. NDX_LEAF_HEADER_PAGE \notin T
      BY DEF Index, Shape
    <3> QED BY <1>8, <1>9, <1>11, <3>1, <3>2, Constants
  <2> HIDE DEF a2, zero
  <2>4. zero < len(a2)
    <3>1. Len(node[L[a2]].keys) >= 1 /\ Len(node[L[a2]].keys) \in Nat
      BY <2>1, LeafKeys
    <3> QED BY <3>1 DEF zero
  <2>5. n + 1 = start[a2] + zero + 1
    BY <1>5, <1>6, <2>1, <2>2 DEF zero
  <2>6. Place(L, start, n + 1, NextID(iid))
    BY <2>1, <2>3, <2>4, <2>5 DEF Place
  <2> QED BY <1>7, <2>6
<1>12. CASE ~(s2 < q) /\ ~(a < m)
  <2>1. a = m /\ s2 = q
    BY <1>1, <1>5, <1>12
  <2>2. NextID(iid) = <<L[a], s2>>
    BY <1>3, <1>8, <1>9, <1>12, <2>1
  <2> HIDE DEF s2
  <2>3. Place(L, start, n + 1, NextID(iid))
    BY <1>5, <1>6, <2>1, <2>2 DEF Place
  <2> QED BY <1>7, <2>3
<1> QED BY <1>10, <1>11, <1>12

LEMMA PlaceEnd ==
  ASSUME NEW T, NEW lev, NEW nxt, NEW fl, Index(node, hdr, work, T, lev, nxt, fl),
         NEW L, LeafOrder(L, T, nxt), NEW start, NEW k, Spread(L, start, k),
         NEW n, Place(L, start, n, LeafEnd)
  PROVE  n = k + 1
<1> DEFINE m == Len(L)
           e == Len(node[L[m]].keys)
<1>1. LeafEnd = <<L[m], e>>
  BY PlaceLast
<1>2. PICK a \in 1 .. m, s \in Nat : LeafEnd = <<L[a], s>> /\ n = start[a] + s + 1
  BY DEF Place
<1>3. \A i, j \in 1 .. m : L[i] = L[j] => i = j
  <2>1. L \in Seq(T) /\ IsInjective(L)
    BY DEF LeafOrder
  <2>2. DOMAIN L = 1 .. m
    BY <2>1
  <2> QED BY <2>1, <2>2 DEF IsInjective
<1>4. m \in 1 .. m /\ start[m] + e = k
  BY DEF Spread
<1>5. L[a] = L[m] /\ s = e
  BY <1>1, <1>2
<1> HIDE DEF m, e
<1>6. a = m
  BY <1>3, <1>4, <1>5
<1> QED BY <1>2, <1>4, <1>5, <1>6

\* The first n + 1 places.
Placed(L, start, ids, n) ==
  ids \in Runs /\ Len(ids) = n + 1 /\ \A i \in 1 .. n + 1 : Place(L, start, i, ids[i])

LEMMA PlacedNext ==
  ASSUME NEW T, NEW lev, NEW nxt, NEW fl, Index(node, hdr, work, T, lev, nxt, fl),
         NEW L, LeafOrder(L, T, nxt), NEW start, NEW k, Spread(L, start, k),
         NEW n \in Nat, NEW ids, Placed(L, start, ids, n)
  PROVE  /\ n < k => Last(ids) # LeafEnd /\ Placed(L, start, Append(ids, NextID(Last(ids))), n + 1)
         /\ n = k => Last(ids) = LeafEnd
<1>1. /\ ids \in Seq(Pages \X Nat) /\ ids # << >> /\ Len(ids) = n + 1
      /\ \A i \in 1 .. n + 1 : Place(L, start, i, ids[i])
  BY DEF Placed, Runs
<1>2. Last(ids) = ids[n + 1] /\ Last(ids) \in Pages \X Nat
  BY <1>1, LastIs
<1>3. n + 1 \in 1 .. n + 1 /\ n + 1 \in Nat /\ k \in Nat
  BY DEF Spread
<1> DEFINE l == Last(ids)
           j == n + 1
<1>4. Place(L, start, j, l)
  BY <1>1, <1>2, <1>3
<1>5. ASSUME n = k PROVE l = LeafEnd
  <2>1. Place(L, start, j, LeafEnd)
    BY <1>5, PlaceLast
  <2> HIDE DEF l, j
  <2> QED BY <1>4, <2>1, PlaceOnly
<1>6. ASSUME n < k PROVE l # LeafEnd
  <2> SUFFICES ASSUME l = LeafEnd PROVE FALSE
    OBVIOUS
  <2>1. Place(L, start, j, LeafEnd)
    BY <1>4
  <2> HIDE DEF l, j
  <2>2. j = k + 1
    BY <2>1, PlaceEnd
  <2> QED BY <1>3, <1>6, <2>2 DEF j
<1>7. ASSUME n < k PROVE Placed(L, start, Append(ids, NextID(l)), n + 1)
  <2> DEFINE x == NextID(l)
             ids2 == Append(ids, x)
             h == j + 1
  <2>1. l # LeafEnd
    BY <1>6, <1>7
  <2>2. Place(L, start, h, x)
    <3>1. j \in Nat
      OBVIOUS
    <3> HIDE DEF l, j
    <3> QED BY <1>4, <2>1, <3>1, PlaceNext
  <2>3. x \in Pages \X Nat
    <3>1. Typed(node) /\ hdr \in Header
      BY DEF Index
    <3> QED BY <1>2, <3>1, NextTyped
  <2> HIDE DEF x, l
  <2>4. ids2 \in Seq(Pages \X Nat) /\ Len(ids2) = h /\ ids2[h] = x /\ \A i \in 1 .. j : ids2[i] = ids[i]
    BY <1>1, <2>3
  <2>5. j \in Nat /\ h \in Nat /\ h >= 1
    OBVIOUS
  <2> HIDE DEF ids2, h
  <2>6. ids2 # << >>
    BY <2>4, <2>5, HasMember
  <2>7. ASSUME NEW i \in 1 .. h PROVE Place(L, start, i, ids2[i])
    <3>1. i \in 1 .. j \/ i = h
      BY <2>5 DEF h
    <3>2. CASE i \in 1 .. j
      BY <1>1, <2>4, <3>2
    <3>3. CASE i = h
      BY <2>2, <2>4, <3>3
    <3> QED BY <3>1, <3>2, <3>3
  <2>8. ids2 \in Runs
    BY <2>4, <2>6 DEF Runs
  <2> QED BY <2>4, <2>7, <2>8 DEF Placed, ids2, x, h, l
<1> QED BY <1>5, <1>6, <1>7

\* There are no more entries in the leaves than entries.
LEMMA EntriesFit ==
  ASSUME NEW T, NEW lev, NEW nxt, NEW fl, Index(node, hdr, work, T, lev, nxt, fl),
         NEW L, LeafOrder(L, T, nxt), NEW start, NEW k, Spread(L, start, k)
  PROVE  k <= Cardinality(Entry)
<1> DEFINE m == Len(L)
           pair(n) == <<KeyList[n], RidList[n]>>
           f == [n \in 1 .. k |-> pair(n)]
<1>1. /\ k \in Nat
      /\ \A i \in 1 .. m : Len(node[L[i]].rids) = Len(node[L[i]].keys) /\ Len(node[L[i]].keys) \in Nat
      /\ \A i \in 1 .. m : \A x \in 1 .. Len(node[L[i]].keys) :
           /\ KeyList[start[i] + x] = node[L[i]].keys[x] /\ RidList[start[i] + x] = node[L[i]].rids[x]
      /\ \A n \in 1 .. k : \E i \in 1 .. m : \E x \in 1 .. Len(node[L[i]].keys) : n = start[i] + x
  BY DEF Spread
<1>2. /\ \A i, j \in 1 .. m : L[i] = L[j] => i = j
      /\ \A i \in 1 .. m : L[i] \in T /\ L[i] \in Pages /\ node[L[i]].is_leaf
  <2>1. L \in Seq(T) /\ IsInjective(L)
    BY DEF LeafOrder
  <2>2. DOMAIN L = 1 .. m
    BY <2>1
  <2> QED BY <2>1, <2>2 DEF IsInjective, LeafOrder
<1>3. Typed(node) /\ EntriesOK(node, T)
  BY DEF Index
<1>4. ASSUME NEW n \in 1 .. k
      PROVE  \E i \in 1 .. m, x \in Nat : /\ x \in DOMAIN node[L[i]].rids /\ n = start[i] + x
                                          /\ KeyList[n] = node[L[i]].keys[x] /\ RidList[n] = node[L[i]].rids[x]
  <2>1. PICK i \in 1 .. m : \E x \in 1 .. Len(node[L[i]].keys) : n = start[i] + x
    BY <1>1
  <2>2. PICK x \in 1 .. Len(node[L[i]].keys) : n = start[i] + x
    BY <2>1
  <2>3. DOMAIN node[L[i]].rids = 1 .. Len(node[L[i]].keys)
    BY <1>1, <1>2, <1>3, PageIs
  <2>4. x \in Nat /\ x \in DOMAIN node[L[i]].rids
    BY <1>1, <2>3
  <2>5. KeyList[n] = node[L[i]].keys[x] /\ RidList[n] = node[L[i]].rids[x]
    BY <1>1, <2>2
  <2> QED BY <2>2, <2>4, <2>5
<1>5. ASSUME NEW n \in 1 .. k PROVE f[n] \in Entry
  <2>1. PICK i \in 1 .. m, x \in Nat : /\ x \in DOMAIN node[L[i]].rids /\ n = start[i] + x
                                       /\ KeyList[n] = node[L[i]].keys[x] /\ RidList[n] = node[L[i]].rids[x]
    BY <1>4
  <2>2. <<node[L[i]].keys[x], node[L[i]].rids[x]>> \in Entry
    BY <1>2, <1>3, <2>1 DEF EntriesOK
  <2> QED BY <2>1, <2>2
<1>6. ASSUME NEW n \in 1 .. k, NEW h \in 1 .. k, f[n] = f[h] PROVE n = h
  <2>1. PICK i \in 1 .. m, x \in Nat : /\ x \in DOMAIN node[L[i]].rids /\ n = start[i] + x
                                       /\ KeyList[n] = node[L[i]].keys[x] /\ RidList[n] = node[L[i]].rids[x]
    BY <1>4
  <2>2. PICK j \in 1 .. m, y \in Nat : /\ y \in DOMAIN node[L[j]].rids /\ h = start[j] + y
                                       /\ KeyList[h] = node[L[j]].keys[y] /\ RidList[h] = node[L[j]].rids[y]
    BY <1>4
  <2>3. RidList[n] = RidList[h]
    <3>1. pair(n) = pair(h)
      <4> HIDE DEF pair
      <4> QED BY <1>6
    <3> HIDE DEF f
    <3> QED BY <3>1
  <2>4. L[i] = L[j] /\ x = y
    <3>1. node[L[i]].rids[x] = node[L[j]].rids[y]
      BY <2>1, <2>2, <2>3
    <3>2. L[i] \in T /\ L[j] \in T /\ node[L[i]].is_leaf /\ node[L[j]].is_leaf
      BY <1>2
    <3> QED BY <1>3, <2>1, <2>2, <3>1, <3>2 DEF EntriesOK
  <2>5. i = j
    BY <1>2, <2>4
  <2> QED BY <2>1, <2>2, <2>4, <2>5
<1>7. f \in Injection(1 .. k, Entry)
  <2>1. f \in [1 .. k -> Entry]
    BY <1>5
  <2>2. DOMAIN f = 1 .. k
    OBVIOUS
  <2> HIDE DEF f
  <2>3. \A n, h \in 1 .. k : f[n] = f[h] => n = h
    BY <1>6
  <2> QED BY <2>1, <2>2, <2>3 DEF Injection, IsInjective
<1> HIDE DEF f
<1>8. IsFiniteSet(Entry)
  BY EntryAssumption
<1>9. Cardinality(1 .. k) <= Cardinality(Entry)
  BY <1>7, <1>8, FS_Injection
<1>10. Cardinality(1 .. k) = k
  <2>1. Cardinality(1 .. k) = IF 1 > k THEN 0 ELSE k - 1 + 1
    BY <1>1, FS_Interval
  <2> QED BY <1>1, <2>1
<1> QED BY <1>9, <1>10

\* A scan of all entries goes through their places to the end.
LEMMA ScanAll ==
  ASSUME NEW T, NEW lev, NEW nxt, NEW fl, Index(node, hdr, work, T, lev, nxt, fl),
         NEW L, LeafOrder(L, T, nxt), NEW start, NEW k, Spread(L, start, k)
  PROVE  Placed(L, start, Scan(<<first_leaf, 0>>, LeafEnd), k)
<1> DEFINE lower == <<first_leaf, 0>>
           upper == LeafEnd
           run == CHOOSE run : run = RunOf(lower, upper, run)
           Go(ids) == IF Last(ids) = upper THEN ids ELSE Append(ids, NextID(Last(ids)))
<1>1. Typed(node) /\ hdr \in Header /\ k \in Nat
  BY DEF Index, Spread
<1>2. lower \in Pages \X Nat
  BY Constants DEF first_leaf
<1>3. Scan(lower, upper) = run[Cardinality(Entry)]
  BY DEF Scan, RunOf
<1>4. run = RunOf(lower, upper, run)
  <2>1. \E f : f = RunOf(lower, upper, f)
    <3> HIDE DEF upper, lower
    <3> QED BY <1>1, <1>2, RunExists
  <2> QED BY <2>1
<1> HIDE DEF run
<1>5. /\ run[0] = <<lower>>
      /\ \A n \in Nat : n # 0 => run[n] = Go(run[n - 1])
  <2> DEFINE g == RunOf(lower, upper, run)
  <2>1. \A n \in Nat : g[n] = IF n = 0 THEN <<lower>> ELSE Go(run[n - 1])
    BY DEF RunOf
  <2> HIDE DEF g, Go
  <2>2. run = g
    BY <1>4 DEF g
  <2> QED BY <2>1, <2>2
<1>6. Placed(L, start, run[0], 0)
  <2> DEFINE ids == <<lower>>
             one == 1
  <2>1. ids \in Seq(Pages \X Nat) /\ Len(ids) = 1 /\ ids[1] = lower
    BY <1>2
  <2>2. Place(L, start, 1, lower)
    BY PlaceLast
  <2> HIDE DEF ids, lower
  <2>3. ids # << >>
    <3>1. Len(ids) >= 1
      BY <2>1
    <3> QED BY <2>1, <3>1, HasMember
  <2>4. ids \in Runs /\ Len(ids) = 0 + 1 /\ \A i \in 1 .. 0 + 1 : Place(L, start, i, ids[i])
    BY <2>1, <2>2, <2>3 DEF Runs
  <2>5. Placed(L, start, ids, 0)
    BY <2>4 DEF Placed
  <2> QED BY <1>5, <2>5 DEF ids
<1> DEFINE Fits(c) == (c <= k => Placed(L, start, run[c], c)) /\ (c >= k => Placed(L, start, run[c], k))
           Bad == {c \in Nat : ~Fits(c)}
<1> HIDE DEF Go, upper, lower
<1>7. Bad = {}
  <2> SUFFICES ASSUME Bad # {} PROVE FALSE
    OBVIOUS
  <2>1. Bad \subseteq Nat
    OBVIOUS
  <2>2. PICK c \in Bad : \A j \in Bad : c <= j
    <3> HIDE DEF Bad
    <3> QED BY <2>1, Least
  <2>3. c \in Nat /\ ~Fits(c)
    OBVIOUS
  <2>4. c # 0
    <3>1. 0 >= k => k = 0
      BY <1>1
    <3>2. Fits(0)
      BY <1>6, <3>1
    <3> HIDE DEF Fits
    <3> QED BY <2>3, <3>2
  <2> DEFINE d == c - 1
  <2>5. d \in Nat /\ ~(c <= d) /\ c = d + 1 /\ (c <= k => d < k) /\ (d < k => c <= k)
    BY <1>1, <2>3, <2>4
  <2>6. run[c] = Go(run[d])
    BY <1>5, <2>3, <2>4
  <2> HIDE DEF d
  <2>7. Fits(d)
    <3>1. d \notin Bad
      <4> HIDE DEF Bad
      <4> QED BY <2>2, <2>5
    <3> HIDE DEF Fits
    <3> QED BY <2>5, <3>1
  <2>8. CASE d < k
    <3>1. Placed(L, start, run[d], d)
      BY <1>1, <2>5, <2>7, <2>8
    <3>2. Last(run[d]) # LeafEnd /\ Placed(L, start, Append(run[d], NextID(Last(run[d]))), d + 1)
      BY <2>5, <2>8, <3>1, PlacedNext
    <3>3. Placed(L, start, run[c], c)
      BY <2>5, <2>6, <3>2 DEF Go, upper
    <3>4. c >= k => c = k
      BY <1>1, <2>3, <2>5, <2>8
    <3>5. Fits(c)
      BY <3>3, <3>4
    <3> HIDE DEF Fits
    <3> QED BY <2>3, <3>5
  <2>9. CASE ~(d < k)
    <3>1. d >= k /\ ~(c <= k)
      BY <1>1, <2>5, <2>9
    <3>2. Placed(L, start, run[d], k)
      BY <2>7, <3>1
    <3>3. Last(run[d]) = LeafEnd
      BY <1>1, <3>2, PlacedNext
    <3>4. Placed(L, start, run[c], k)
      BY <2>6, <3>2, <3>3 DEF Go, upper
    <3>5. Fits(c)
      BY <3>1, <3>4
    <3> HIDE DEF Fits
    <3> QED BY <2>3, <3>5
  <2> QED BY <2>8, <2>9
<1>8. Cardinality(Entry) \in Nat
  BY EntryAssumption, FS_CardinalityType
<1>9. k <= Cardinality(Entry)
  BY EntriesFit
<1> DEFINE c == Cardinality(Entry)
<1>10. c \in Nat /\ c >= k
  BY <1>1, <1>8, <1>9
<1> HIDE DEF c
<1>11. Fits(c)
  <2>1. c \notin Bad
    <3> HIDE DEF Bad
    <3> QED BY <1>7
  <2> HIDE DEF Fits
  <2> QED BY <1>10, <2>1
<1>12. Placed(L, start, run[c], k)
  BY <1>10, <1>11
<1> QED BY <1>3, <1>12 DEF c, lower, upper

\* The search for the end of such a set of keys comes to the place after them.
LEMMA CutPlace ==
  ASSUME NEW T, NEW lev, NEW nxt, NEW fl, Index(node, hdr, work, T, lev, nxt, fl),
         NEW L, LeafOrder(L, T, nxt), NEW start, NEW k, Spread(L, start, k),
         NEW B, DownTo(B), NEW q, NEW s \in Nat, CutAt(T, nxt, B, q, s),
         NEW n, n = Cardinality({i \in DOMAIN KeyList : KeyList[i] \in B})
  PROVE  Place(L, start, 1 + n, <<q, s>>) /\ 1 + n \in 1 .. k + 1
<1> DEFINE m == Len(L)
           len(i) == Len(node[L[i]].keys)
<1>1. /\ m \in Nat /\ m \in 1 .. m /\ k \in Nat
      /\ \A i \in 1 .. m : start[i] \in Nat /\ len(i) \in Nat
      /\ \A i, j \in 1 .. m : i < j => start[i] + len(i) <= start[j]
      /\ \A i \in 1 .. m : \A x \in 1 .. len(i) :
           start[i] + x \in 1 .. k /\ KeyList[start[i] + x] = node[L[i]].keys[x]
      /\ \A j \in 1 .. k : \E i \in 1 .. m : \E x \in 1 .. len(i) : j = start[i] + x
      /\ start[m] + len(m) = k
      /\ KeyList \in Seq(Int) /\ Len(KeyList) = k /\ DOMAIN KeyList = 1 .. k /\ Ascend(KeyList)
  BY DEF Spread
<1>2. /\ \A i \in 1 .. m : L[i] \in T
      /\ \A p \in T : node[p].is_leaf => \E i \in 1 .. m : L[i] = p
      /\ L[m] = hdr.last_leaf /\ \A i \in 1 .. m : i < m => nxt[L[i]] = L[i + 1]
  BY DEF LeafOrder
<1>3. /\ q \in T /\ node[q].is_leaf /\ s \in 0 .. Len(node[q].keys)
      /\ \A j \in 1 .. Len(node[q].keys) : node[q].keys[j] \in B <=> j <= s
      /\ \A y \in T : nxt[y] = q => Last(node[y].keys) \in B
      /\ s = Len(node[q].keys) => q = hdr.last_leaf
  BY DEF CutAt
<1>4. PICK a \in 1 .. m : L[a] = q
  BY <1>2, <1>3
<1>5. \A i, j \in 1 .. m : L[i] = L[j] => i = j
  <2>1. L \in Seq(T) /\ IsInjective(L)
    BY DEF LeafOrder
  <2>2. DOMAIN L = 1 .. m
    BY <2>1
  <2> QED BY <2>1, <2>2 DEF IsInjective
<1> DEFINE sa == start[a]
           la == len(a)
           N == sa + s
<1>6. sa \in Nat /\ la \in Nat /\ s <= la /\ (s = la => a = m) /\ (a = m => sa + la = k)
  <2>1. s = la => a = m
    BY <1>1, <1>2, <1>3, <1>4, <1>5
  <2> QED BY <1>1, <1>3, <1>4, <2>1
<1>7. N \in 0 .. k
  <2>1. CASE s = la
    <3> HIDE DEF la, sa
    <3> QED BY <1>1, <1>6, <2>1
  <2>2. CASE s # la
    <3> DEFINE t == s + 1
    <3>1. t \in 1 .. la
      BY <1>6, <2>2
    <3>2. sa + t \in 1 .. k
      BY <1>1, <3>1
    <3> HIDE DEF la, sa
    <3> QED BY <1>1, <1>6, <3>2
  <2> QED BY <2>1, <2>2
<1>8. ASSUME NEW c \in 1 .. m, NEW x \in 1 .. len(c) PROVE node[L[c]].keys[x] \in B <=> start[c] + x <= N
  <2> DEFINE sc == start[c]
             lc == len(c)
             key == node[L[c]].keys[x]
  <2>1. sc \in Nat /\ lc \in Nat /\ x \in 1 .. lc
    BY <1>1
  <2>2. key \in Int
    BY LeafKeys
  <2>3. CASE c < a
    <3> DEFINE d == a - 1
               h == d + 1
    <3>1. d \in 1 .. m /\ c <= d /\ d < m /\ h = a /\ m > 1
      BY <1>1, <2>3
    <3> HIDE DEF d
    <3>2. nxt[L[d]] = q /\ L[d] \in T
      BY <1>2, <1>4, <3>1
    <3>3. Last(node[L[d]].keys) \in B
      BY <1>3, <3>2
    <3>4. key <= Last(node[L[d]].keys)
      BY <3>1, LeavesAscend
    <3>5. Last(node[L[d]].keys) \in Int
      <4>1. /\ Last(node[L[d]].keys) = node[L[d]].keys[Len(node[L[d]].keys)]
            /\ Len(node[L[d]].keys) \in 1 .. Len(node[L[d]].keys)
        BY <3>1, LeafKeys
      <4>2. \A i \in 1 .. Len(node[L[d]].keys) : node[L[d]].keys[i] \in Int
        BY <3>1, LeafKeys
      <4> QED BY <4>1, <4>2
    <3>6. key \in B
      <4> HIDE DEF key
      <4> QED BY <2>2, <3>3, <3>4, <3>5 DEF DownTo
    <3>7. sc + lc <= sa
      BY <1>1, <2>3
    <3>8. sc + x <= N
      <4> HIDE DEF sc, lc, sa
      <4> QED BY <1>6, <2>1, <3>7
    <3> QED BY <3>6, <3>8
  <2>4. CASE c = a
    <3>1. key \in B <=> x <= s
      BY <1>3, <1>4, <2>4
    <3>2. sc = sa
      BY <2>4
    <3>3. sc + x <= N <=> x <= s
      <4> HIDE DEF sc, sa
      <4> QED BY <1>6, <3>2
    <3> QED BY <3>1, <3>3
  <2>5. CASE a < c
    <3> DEFINE t == s + 1
               y == node[L[a]].keys[t]
    <3>1. a # m
      BY <1>1, <2>5
    <3>2. t \in 1 .. la /\ ~(t <= s)
      <4> HIDE DEF la
      <4> QED BY <1>6, <3>1
    <3> HIDE DEF t
    <3>3. y \notin B
      BY <1>3, <1>4, <3>2
    <3>4. y <= key
      BY <2>5, <3>2, LeavesApart
    <3>5. y \in Int
      BY <3>2, LeafKeys
    <3>6. key \notin B
      <4> HIDE DEF key, y
      <4> QED BY <2>2, <3>3, <3>4, <3>5 DEF DownTo
    <3>7. sa + la <= sc
      BY <1>1, <2>5
    <3>8. ~(sc + x <= N)
      <4> HIDE DEF sc, la, sa
      <4> QED BY <1>6, <2>1, <3>7
    <3> QED BY <3>6, <3>8
  <2>6. c < a \/ c = a \/ a < c
    OBVIOUS
  <2> QED BY <2>3, <2>4, <2>5, <2>6
<1> HIDE DEF N, sa, la
<1>9. \A j \in 1 .. k : KeyList[j] \in B <=> j <= N
  <2> SUFFICES ASSUME NEW j \in 1 .. k PROVE KeyList[j] \in B <=> j <= N
    OBVIOUS
  <2>1. PICK c \in 1 .. m : \E x \in 1 .. len(c) : j = start[c] + x
    BY <1>1
  <2>2. PICK x \in 1 .. len(c) : j = start[c] + x
    BY <2>1
  <2>3. KeyList[j] = node[L[c]].keys[x]
    BY <1>1, <2>2
  <2>4. node[L[c]].keys[x] \in B <=> start[c] + x <= N
    BY <1>8
  <2> QED BY <2>2, <2>3, <2>4
<1>10. n \in 0 .. k /\ \A j \in 1 .. k : KeyList[j] \in B <=> j <= n
  <2>1. KeyList \in Seq(Int) /\ Len(KeyList) = k /\ Ascend(KeyList)
    BY <1>1
  <2>2. n \in 0 .. Len(KeyList) /\ \A j \in 1 .. Len(KeyList) : KeyList[j] \in B <=> j <= n
    BY <2>1, SlotIs
  <2> QED BY <2>1, <2>2
<1>11. n = N
  <2>1. \A j \in 1 .. k : j <= n <=> j <= N
    BY <1>9, <1>10
  <2>2. ~(n < N)
    <3> SUFFICES ASSUME n < N PROVE FALSE
      OBVIOUS
    <3>1. N \in 1 .. k /\ ~(N <= n) /\ N <= N
      BY <1>1, <1>7, <1>10
    <3> QED BY <2>1, <3>1
  <2>3. ~(N < n)
    <3> SUFFICES ASSUME N < n PROVE FALSE
      OBVIOUS
    <3>1. n \in 1 .. k /\ ~(n <= N) /\ n <= n
      BY <1>1, <1>7, <1>10
    <3> QED BY <2>1, <3>1
  <2> QED BY <1>7, <1>10, <2>2, <2>3
<1>12. 1 + n = start[a] + s + 1
  BY <1>6, <1>11 DEF N, sa
<1>13. s < len(a) \/ (a = m /\ s = len(a))
  <2>1. s < la \/ (a = m /\ s = la)
    BY <1>6
  <2> QED BY <2>1 DEF la
<1>14. Place(L, start, 1 + n, <<q, s>>)
  BY <1>4, <1>12, <1>13 DEF Place
<1>15. 1 + n \in 1 .. k + 1
  BY <1>1, <1>10
<1> QED BY <1>14, <1>15

\* A scan from leaf_begin to leaf_end returns every entry of the leaves once, in
\* their order, and lower_bound and upper_bound of any key are the places on it
\* where the entries with that key begin and end, though the search goes by the
\* keys of the inner nodes, which only maintain_parent keeps true.
THEOREM BoundsAlwaysExact == Spec => []BoundsExact
<1>1. ASSUME NEW T, NEW lev, NEW nxt, NEW fl, Index(node, hdr, work, T, lev, nxt, fl)
      PROVE  BoundsExact
  <2>1. PICK L : LeafOrder(L, T, nxt)
    BY <1>1, LeavesInOrder
  <2> DEFINE k == Len(KeyList)
             ids == Scan(<<first_leaf, 0>>, LeafEnd)
  <2>2. PICK start : Spread(L, start, k)
    BY <1>1, <2>1, SpreadExists
  <2>3. Placed(L, start, ids, k)
    BY <1>1, <2>1, <2>2, ScanAll
  <2>4. /\ k \in Nat /\ RidList \in Seq(Rids) /\ Len(RidList) = k /\ DOMAIN RidList = 1 .. k
        /\ \A i \in 1 .. Len(L) : \A x \in 1 .. Len(node[L[i]].keys) :
             RidList[start[i] + x] = node[L[i]].rids[x]
        /\ \A i \in 1 .. Len(L) : start[i] \in Nat /\ Len(node[L[i]].keys) \in Nat
        /\ Len(L) \in 1 .. Len(L) /\ start[Len(L)] + Len(node[L[Len(L)]].keys) = k
    BY <2>2 DEF Spread
  <2> HIDE DEF k, ids
  <2>5. Len(ids) = k + 1 /\ \A i \in 1 .. k + 1 : Place(L, start, i, ids[i])
    BY <2>3 DEF Placed
  <2>6. Last(ids) = LeafEnd
    BY <1>1, <2>1, <2>2, <2>3, <2>4, PlacedNext
  <2>7. ASSUME NEW i \in 1 .. k PROVE RidAt(ids[i]) = RidList[i]
    <3>1. Place(L, start, i, ids[i])
      <4>1. i \in 1 .. k + 1
        BY <2>4
      <4> QED BY <2>5, <4>1
    <3>2. PICK a \in 1 .. Len(L), s \in Nat :
            /\ ids[i] = <<L[a], s>> /\ i = start[a] + s + 1
            /\ s < Len(node[L[a]].keys) \/ (a = Len(L) /\ s = Len(node[L[a]].keys))
      BY <3>1 DEF Place
    <3> DEFINE x == s + 1
               l == Len(node[L[a]].keys)
               sa == start[a]
    <3>3. sa \in Nat /\ l \in Nat /\ i = sa + s + 1 /\ (s < l \/ (a = Len(L) /\ s = l))
      BY <2>4, <3>2
    <3>4. a = Len(L) => sa + l = k
      BY <2>4
    <3>5. x \in 1 .. l /\ sa + x = i
      <4> HIDE DEF l, sa
      <4> QED BY <2>4, <3>3, <3>4
    <3>6. RidAt(ids[i]) = node[L[a]].rids[x]
      BY <3>2 DEF RidAt
    <3> HIDE DEF x
    <3>7. RidList[sa + x] = node[L[a]].rids[x]
      BY <2>4, <3>5
    <3> QED BY <3>5, <3>6, <3>7
  <2>8. [i \in 1 .. Len(ids) - 1 |-> RidAt(ids[i])] = RidList
    <3>1. Len(ids) - 1 = k
      BY <2>4, <2>5
    <3>2. RidList = [i \in 1 .. k |-> RidList[i]]
      BY <2>4
    <3> QED BY <2>7, <3>1, <3>2
  <2>9. ASSUME NEW key \in Keys
        PROVE  /\ LowerBound(key) = ids[1 + Cardinality({i \in DOMAIN KeyList : KeyList[i] < key})]
               /\ UpperBound(key) = ids[1 + Cardinality({i \in DOMAIN KeyList : KeyList[i] <= key})]
    <3>1. key \in Int
      BY KeysAreInts
    <3>2. DownTo(Less(key)) /\ DownTo(AtMost(key))
      BY <3>1 DEF DownTo, Less, AtMost
    <3>3. KeyList \in Seq(Int) /\ \A i \in DOMAIN KeyList : KeyList[i] \in Int
      <4>1. KeyList \in Seq(Int) /\ DOMAIN KeyList = 1 .. k
        BY <2>2 DEF Spread
      <4>2. Len(KeyList) = k
        BY <2>2 DEF Spread
      <4> QED BY <4>1, <4>2, ElementOfSeq
    <3>4. {i \in DOMAIN KeyList : KeyList[i] < key} = {i \in DOMAIN KeyList : KeyList[i] \in Less(key)}
      BY <3>3 DEF Less
    <3>5. {i \in DOMAIN KeyList : KeyList[i] <= key} = {i \in DOMAIN KeyList : KeyList[i] \in AtMost(key)}
      BY <3>3 DEF AtMost
    <3> DEFINE lo == Cardinality({i \in DOMAIN KeyList : KeyList[i] \in Less(key)})
               up == Cardinality({i \in DOMAIN KeyList : KeyList[i] \in AtMost(key)})
    <3>6. PICK q \in Pages, s \in Nat : LowerBound(key) = <<q, s>> /\ CutAt(T, nxt, Less(key), q, s)
      BY <1>1, <3>1, BoundsCut
    <3>7. PICK r \in Pages, t \in Nat : UpperBound(key) = <<r, t>> /\ CutAt(T, nxt, AtMost(key), r, t)
      BY <1>1, <3>1, BoundsCut
    <3>8. Place(L, start, 1 + lo, LowerBound(key)) /\ 1 + lo \in 1 .. k + 1
      <4>1. Place(L, start, 1 + lo, <<q, s>>) /\ 1 + lo \in 1 .. k + 1
        BY <1>1, <2>1, <2>2, <3>2, <3>6, CutPlace
      <4> QED BY <3>6, <4>1
    <3>9. Place(L, start, 1 + up, UpperBound(key)) /\ 1 + up \in 1 .. k + 1
      <4>1. Place(L, start, 1 + up, <<r, t>>) /\ 1 + up \in 1 .. k + 1
        BY <1>1, <2>1, <2>2, <3>2, <3>7, CutPlace
      <4> QED BY <3>7, <4>1
    <3> HIDE DEF lo, up
    <3>10. LowerBound(key) = ids[1 + lo]
      <4>1. Place(L, start, 1 + lo, ids[1 + lo])
        BY <2>5, <3>8
      <4> QED BY <2>2, <3>8, <4>1, PlaceOnly
    <3>11. UpperBound(key) = ids[1 + up]
      <4>1. Place(L, start, 1 + up, ids[1 + up])
        BY <2>5, <3>9
      <4> QED BY <2>2, <3>9, <4>1, PlaceOnly
    <3> QED BY <3>4, <3>5, <3>10, <3>11 DEF lo, up
  <2> QED BY <2>6, <2>8, <2>9 DEF BoundsExact, ids
<1>2. IInv => BoundsExact
  BY <1>1 DEF IInv
<1> QED
  BY <1>2, Invariance, PTL

-----------------------------------------------------------------------------
(* The index implements the set of its entries.                            *)

\* The entries held are those of the leaves.
HeldExact == \A x : x \in Held <=> \E k, r : x = <<k, r>> /\ Has(node, k, r)

LEMMA HeldIs ==
  ASSUME IInv
  PROVE  HeldExact
<1>1. PICK T, lev, nxt, fl : Index(node, hdr, work, T, lev, nxt, fl)
  BY DEF IInv
<1>2. PICK L : LeafOrder(L, T, nxt)
  BY <1>1, LeavesInOrder
<1>3. LeafList = L
  BY <1>1, <1>2, RingIs
<1>4. Typed(node) /\ Blank(node, T) /\ node[NDX_LEAF_HEADER_PAGE].rids = << >>
  BY <1>1 DEF Index, RingOK, IndexPageHeader
<1>5. /\ L \in Seq(T) /\ \A p \in T : node[p].is_leaf => \E i \in 1 .. Len(L) : L[i] = p
      /\ \A i \in 1 .. Len(L) : L[i] \in Pages /\ node[L[i]].is_leaf
  BY <1>2 DEF LeafOrder
<1>6. \A p : p \in ToSet(L) <=> \E i \in 1 .. Len(L) : L[i] = p
  BY <1>5, InToSet
<1>7. Held = UNION {{<<node[p].keys[i], node[p].rids[i]>> : i \in DOMAIN node[p].rids} : p \in ToSet(L)}
  BY <1>3 DEF Held
<1>8. ASSUME NEW x, x \in Held PROVE \E k, r : x = <<k, r>> /\ Has(node, k, r)
  <2>1. PICK p \in ToSet(L) : x \in {<<node[p].keys[i], node[p].rids[i]>> : i \in DOMAIN node[p].rids}
    BY <1>7, <1>8
  <2>2. PICK i \in DOMAIN node[p].rids : x = <<node[p].keys[i], node[p].rids[i]>>
    BY <2>1
  <2>3. p \in Pages /\ node[p].is_leaf
    BY <1>5, <1>6
  <2>4. Has(node, node[p].keys[i], node[p].rids[i])
    BY <2>3 DEF Has
  <2> QED BY <2>2, <2>4
<1>9. ASSUME NEW k, NEW r, Has(node, k, r) PROVE <<k, r>> \in Held
  <2>1. PICK p \in Pages : node[p].is_leaf /\ \E j \in DOMAIN node[p].rids : node[p].keys[j] = k /\ node[p].rids[j] = r
    BY <1>9 DEF Has
  <2>2. PICK j \in DOMAIN node[p].rids : node[p].keys[j] = k /\ node[p].rids[j] = r
    BY <2>1
  <2>3. p \in T
    BY <1>4, <2>1, <2>2 DEF Blank
  <2>4. p \in ToSet(L)
    BY <1>5, <1>6, <2>1, <2>3
  <2> QED BY <1>7, <2>2, <2>4
<1> QED
  BY <1>8, <1>9 DEF HeldExact

LEMMA SameHeld ==
  ASSUME HeldExact, HeldExact', SameEntries(node')
  PROVE  Held' = Held
<1>1. \A x : x \in Held' <=> \E k, r : x = <<k, r>> /\ Has(node', k, r)
  BY DEF HeldExact
<1>2. \A x : x \in Held <=> \E k, r : x = <<k, r>> /\ Has(node, k, r)
  BY DEF HeldExact
<1>3. \A k, r : Has(node', k, r) <=> Has(node, k, r)
  BY DEF SameEntries
<1>4. \A x : x \in Held' <=> x \in Held
  BY <1>1, <1>2, <1>3
<1> QED
  BY <1>4

LEMMA InsertHeld ==
  ASSUME HeldExact, HeldExact', NEW e \in Entry, Gains(node', e[1], e[2])
  PROVE  e \notin Held /\ Held' = Held \cup {e}
<1>1. \A x : x \in Held' <=> \E k, r : x = <<k, r>> /\ Has(node', k, r)
  BY DEF HeldExact
<1>2. \A x : x \in Held <=> \E k, r : x = <<k, r>> /\ Has(node, k, r)
  BY DEF HeldExact
<1>3. /\ ~Has(node, e[1], e[2])
      /\ \A x, y : Has(node', x, y) <=> Has(node, x, y) \/ (x = e[1] /\ y = e[2])
  BY DEF Gains
<1>4. e = <<e[1], e[2]>>
  BY EntryAssumption
<1>5. \A k, r : <<k, r>> = e <=> k = e[1] /\ r = e[2]
  BY <1>4
<1>6. e \notin Held
  BY <1>2, <1>3, <1>5
<1>7. \A x : x \in Held' <=> x \in Held \/ x = e
  BY <1>1, <1>2, <1>3, <1>4, <1>5
<1> QED
  BY <1>6, <1>7

LEMMA DeleteHeld ==
  ASSUME HeldExact, HeldExact', NEW e \in Entry, Loses(node', e[1], e[2])
  PROVE  e \in Held /\ Held' = Held \ {e}
<1>1. \A x : x \in Held' <=> \E k, r : x = <<k, r>> /\ Has(node', k, r)
  BY DEF HeldExact
<1>2. \A x : x \in Held <=> \E k, r : x = <<k, r>> /\ Has(node, k, r)
  BY DEF HeldExact
<1>3. /\ Has(node, e[1], e[2])
      /\ \A x, y : Has(node', x, y) <=> Has(node, x, y) /\ ~(x = e[1] /\ y = e[2])
  BY DEF Loses
<1>4. e = <<e[1], e[2]>>
  BY EntryAssumption
<1>5. \A k, r : <<k, r>> = e <=> k = e[1] /\ r = e[2]
  BY <1>4
<1>6. e \in Held
  BY <1>2, <1>3, <1>4
<1>7. \A x : x \in Held' <=> x \in Held /\ x # e
  BY <1>1, <1>2, <1>3, <1>4, <1>5
<1> QED
  BY <1>6, <1>7

\* A step of an insert or a delete is one of the set of entries, and those that
\* rebalance the tree change no entry; the last of them returns.
LEMMA NextRefines ==
  ASSUME IInv, HeldExact, HeldExact', [Next]_vars
  PROVE  [Store!Next]_Store!vars
<1>1. PICK T, lev, nxt, fl : Index(node, hdr, work, T, lev, nxt, fl)
  BY DEF IInv
<1>0. (work' # Idle) \in BOOLEAN
  OBVIOUS
<1>2. ASSUME NEW e \in Entry, InsertEntry(e) PROVE Store!Insert(e)
  <2>1. work = Idle
    BY <1>2 DEF InsertEntry
  <2>2. e \notin Held /\ Held' = Held \cup {e}
    BY <1>1, <1>2, InsertEntryStep, InsertHeld
  <2> QED BY <1>0, <2>1, <2>2 DEF Store!Insert
<1>3. ASSUME NEW e \in Entry, DeleteEntry(e) PROVE Store!Delete(e)
  <2>1. work = Idle
    BY <1>3 DEF DeleteEntry
  <2>2. e \in Held /\ Held' = Held \ {e}
    BY <1>1, <1>3, DeleteEntryStep, DeleteHeld
  <2> QED BY <1>0, <2>1, <2>2 DEF Store!Delete
<1>4. ASSUME Rebalance PROVE work # Idle /\ SameEntries(node')
  <2>1. work.todo \in {"overflow", "underflow"}
    BY <1>4 DEF Rebalance, GrowRoot, Split, ShrinkRoot, BorrowLeft, BorrowRight, MergeLeft, MergeRight, HasUnderflow
  <2>2. work # Idle
    BY <2>1 DEF Idle
  <2>3. SameEntries(node')
    BY <1>1, <1>4, GrowRootStep, SplitStep, ShrinkRootStep, BorrowLeftStep, BorrowRightStep,
       MergeLeftStep, MergeRightStep DEF Rebalance
  <2> QED BY <2>2, <2>3
<1>5. CASE Rebalance
  <2>1. work # Idle /\ Held' = Held
    BY <1>4, <1>5, SameHeld
  <2>2. CASE work' = Idle
    <3>1. Store!Return
      BY <2>1, <2>2 DEF Store!Return
    <3> QED BY <3>1 DEF Store!Next
  <2>3. CASE work' # Idle
    <3>1. UNCHANGED Store!vars
      BY <2>1, <2>3 DEF Store!vars
    <3> QED BY <3>1
  <2> QED BY <2>2, <2>3
<1>6. CASE UNCHANGED vars
  <2>1. work' = work /\ node' = node
    BY <1>6 DEF vars
  <2>2. Held' = Held
    BY <2>1, SameHeld DEF SameEntries
  <2>3. UNCHANGED Store!vars
    BY <2>1, <2>2 DEF Store!vars
  <2> QED BY <2>3
<1>7. CASE \E e \in Entry : InsertEntry(e) \/ DeleteEntry(e)
  <2>1. \E e \in Entry : Store!Insert(e) \/ Store!Delete(e)
    BY <1>2, <1>3, <1>7
  <2> QED BY <2>1 DEF Store!Next
<1> QED
  BY <1>5, <1>6, <1>7 DEF Next

LEMMA InitRefines ==
  ASSUME Init, HeldExact
  PROVE  Store!Init
<1>1. \A p \in Pages : node[p].rids = << >>
  BY DEF Init, IndexPageHeader, Released
<1>2. \A k, r : ~Has(node, k, r)
  BY <1>1 DEF Has
<1>3. Held = {}
  BY <1>2 DEF HeldExact
<1>4. work = Idle
  BY DEF Init
<1> QED
  BY <1>3, <1>4 DEF Store!Init

\* Every behaviour of the index is one of the set of its entries: an insert adds its
\* entry, a delete takes out its own, and no split, loan or merge loses or invents one.
THEOREM ImplementsStore == Spec => Implements
<1>1. IInv => HeldExact
  BY HeldIs
<1>2. Init /\ HeldExact => Store!Init
  BY InitRefines
<1>3. IInv /\ HeldExact /\ HeldExact' /\ [Next]_vars => [Store!Next]_Store!vars
  BY NextRefines
<1> QED
  BY <1>1, <1>2, <1>3, Invariance, PTL DEF Spec, Implements, Store!Spec
=============================================================================
