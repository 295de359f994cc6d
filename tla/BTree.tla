------------------------------- MODULE BTree -------------------------------
(***************************************************************************)
(* An index file (IndexHandle): a B+ tree whose inner nodes hold, with     *)
(* every child, the greatest key under that child.  The leaves are linked  *)
(* in a ring through the page NDX_LEAF_HEADER_PAGE; the pages no longer in *)
(* the tree are linked through next_free.  The header is read when the     *)
(* index is opened and written when it is closed, as that of a record file *)
(* is (see RecordFile); here the index is open.                            *)
(*                                                                         *)
(* insert_entry and delete_entry change a leaf and then go up the tree in  *)
(* a loop that splits, borrows or merges.  The change of the leaf is one   *)
(* step and every round of the loop is one; work says which node the loop  *)
(* has come to, and no other operation starts before the loop ends: nobody *)
(* else uses the index meanwhile, the one thing its callers must ensure.   *)
(*                                                                         *)
(* Positions in a node count from 1 here, slots of an IndexID from 0.  An  *)
(* \E over a set of one value is a LET that TLC evaluates only once.       *)
(***************************************************************************)
EXTENDS Integers, Sequences, FiniteSets, SequencesExt

CONSTANTS
  Orders,       \* the orders there may be: the children a node may have
  MaxPage,      \* bound: the greatest page number
  Entry         \* the entries <<key, rid>> that may be inserted

NDX_NO_PAGE == -1
NDX_LEAF_HEADER_PAGE == 1
NDX_INIT_ROOT_PAGE == 2
NDX_INIT_NUM_PAGES == 3

ASSUME OrdersAssumption == \A o \in Orders : o \in Nat /\ o > 2
ASSUME MaxPageAssumption == MaxPage \in Nat /\ MaxPage >= NDX_INIT_NUM_PAGES
ASSUME EntryAssumption ==
  /\ IsFiniteSet(Entry)
  /\ \A e \in Entry : e = <<e[1], e[2]>> /\ e[1] \in Int
  /\ \A e, f \in Entry : e[2] = f[2] => e = f

Pages == NDX_LEAF_HEADER_PAGE .. MaxPage
PageOrNone == Pages \cup {NDX_NO_PAGE}
Keys == {e[1] : e \in Entry}
Rids == {e[2] : e \in Entry}

\* IndexFileHeader::first_leaf, which nothing changes.
first_leaf == NDX_INIT_ROOT_PAGE

VARIABLES
  hdr,          \* the IndexFileHeader in the handle
  node,         \* the page of every node: its IndexPageHeader, its keys, and its
                \* record ids (in a leaf) or children (in an inner node)
  work          \* the node an operation still has to rebalance

vars == <<hdr, node, work>>

Idle == [todo |-> "nothing", page |-> NDX_NO_PAGE]

-----------------------------------------------------------------------------
(* Nodes.                                                                  *)

\* The constructor of IndexPageHeader, over a node without entries.
IndexPageHeader(parent, is_leaf, prev_leaf, next_leaf) ==
  [next_free |-> NDX_NO_PAGE, parent |-> parent, is_leaf |-> is_leaf,
   prev_leaf |-> prev_leaf, next_leaf |-> next_leaf, keys |-> << >>, rids |-> << >>]

\* insert_key and insert_record_id; erase_key and erase_record_id.
InsertPair(n, i, k, r) == [n EXCEPT !.keys = InsertAt(@, i, k), !.rids = InsertAt(@, i, r)]
ErasePair(n, i) == [n EXCEPT !.keys = RemoveAt(@, i), !.rids = RemoveAt(@, i)]

\* insert_keys and insert_record_ids at the end of a node, of all those of another.
Joined(n, m) == [n EXCEPT !.keys = @ \o m.keys, !.rids = @ \o m.rids]

\* find_child: the position of page c among the children of node n.
FindChild(n, c) ==
  CHOOSE i \in DOMAIN n.rids : n.rids[i] = c /\ \A j \in 1 .. i - 1 : n.rids[j] # c

\* IndexNodeHandle::lower_bound and upper_bound, the binary search of the keys of
\* a node: the first slot whose key is not less than k, or is greater than k, which
\* is as many as there are keys before it.
NodeLowerBound(n, k) == Cardinality({i \in DOMAIN n.keys : n.keys[i] < k})
NodeUpperBound(n, k) == Cardinality({i \in DOMAIN n.keys : n.keys[i] <= k})

\* IndexHandle::leaf_end.
LeafEnd == <<hdr.last_leaf, Len(node[hdr.last_leaf].keys)>>

\* IndexHandle::lower_bound and upper_bound, which differ in the search of a node:
\* slot[p] is where the search of page p ends.
Search(slot) ==
  LET from[p \in Pages] ==
        LET found == slot[p] < Len(node[p].keys) IN
        IF ~node[p].is_leaf
        THEN IF found THEN from[node[p].rids[slot[p] + 1]] ELSE LeafEnd
        ELSE IF found THEN <<p, slot[p]>>
             ELSE IF node[p].next_leaf \in {NDX_LEAF_HEADER_PAGE, NDX_NO_PAGE} THEN LeafEnd
                  ELSE <<node[p].next_leaf, 0>>
  IN from[hdr.root_page]

LowerBound(k) == Search([p \in Pages |-> NodeLowerBound(node[p], k)])
UpperBound(k) == Search([p \in Pages |-> NodeUpperBound(node[p], k)])

\* IndexIterator::next.
NextID(iid) ==
  LET n == node[iid[1]] IN
  IF iid[2] + 1 < Len(n.keys) THEN <<iid[1], iid[2] + 1>>
  ELSE IF n.next_leaf \in {NDX_LEAF_HEADER_PAGE, NDX_NO_PAGE} THEN LeafEnd
       ELSE <<n.next_leaf, 0>>

\* The places an IndexIterator goes through from lower on, upper the last; it is
\* stopped after as many steps as there are entries.
Scan(lower, upper) ==
  LET run[steps \in Nat] ==
        IF steps = 0 THEN <<lower>>
        ELSE LET ids == run[steps - 1] IN
             IF Last(ids) = upper THEN ids ELSE Append(ids, NextID(Last(ids)))
  IN run[Cardinality(Entry)]

RidAt(iid) == node[iid[1]].rids[iid[2] + 1]

-----------------------------------------------------------------------------
(* Pages and links.                                                        *)

\* create_node: the page of a new node, and the header after taking it.
NewPage == IF hdr.first_free = NDX_NO_PAGE THEN hdr.num_pages ELSE hdr.first_free

\* Slip: the page taken stays the head of the free list.
HeaderAfterNewKeepsFree ==
  IF hdr.first_free = NDX_NO_PAGE THEN [hdr EXCEPT !.num_pages = @ + 1] ELSE hdr

HeaderAfterNew ==
  IF hdr.first_free = NDX_NO_PAGE
  THEN [hdr EXCEPT !.num_pages = @ + 1]
  ELSE [hdr EXCEPT !.first_free = node[hdr.first_free].next_free]

\* release_node.  The next use of the page overwrites all but next_free, so
\* what else it holds meanwhile is left out.
Released(next_free) ==
  [IndexPageHeader(NDX_NO_PAGE, FALSE, NDX_NO_PAGE, NDX_NO_PAGE) EXCEPT !.next_free = next_free]

\* The nodes from page n up to the root.
PathUp(nodes, n) ==
  LET up[p \in Pages] ==
        IF nodes[p].parent = NDX_NO_PAGE THEN {p} ELSE {p} \cup up[nodes[p].parent]
  IN up[n]

\* Slip: only the parent is told, not its parent in turn.
MaintainParentOnce(nodes, n) ==
  LET p == nodes[n].parent
      i == FindChild(nodes[p], n)
  IN IF p = NDX_NO_PAGE THEN nodes ELSE [nodes EXCEPT ![p].keys[i] = Last(nodes[n].keys)]

\* maintain_parent: the greatest key of every node from n up goes to its parent;
\* told[p] are the keys of page p when the nodes below it are done.
MaintainParent(nodes, n) ==
  LET path == PathUp(nodes, n)
      told[p \in Pages] ==
        IF p = n \/ p \notin path THEN nodes[p].keys
        ELSE LET c == CHOOSE c \in ToSet(nodes[p].rids) : c \in path
                 i == FindChild(nodes[p], c)
             IN IF told[c] = << >> THEN nodes[p].keys
                ELSE IF i > Len(nodes[p].keys) THEN Append(nodes[p].keys, Last(told[c]))
                ELSE ReplaceAt(nodes[p].keys, i, Last(told[c]))
  IN [p \in Pages |-> [nodes[p] EXCEPT !.keys = told[p]]]

\* maintain_child, for those of the pages in rids that became children of n.
Adopted(nodes, n, rids) ==
  IF nodes[n].is_leaf THEN nodes
  ELSE [c \in Pages |-> IF c \in ToSet(rids) THEN [nodes[c] EXCEPT !.parent = n] ELSE nodes[c]]

\* Slip: the page after the erased leaf still points back to it.
WithoutLeafForward(nodes, n) ==
  IF ~nodes[n].is_leaf THEN nodes
  ELSE [nodes EXCEPT ![nodes[n].prev_leaf].next_leaf = nodes[n].next_leaf]

\* erase_leaf.
WithoutLeaf(nodes, n) ==
  IF ~nodes[n].is_leaf THEN nodes
  ELSE [nodes EXCEPT ![nodes[n].prev_leaf].next_leaf = nodes[n].next_leaf,
                     ![nodes[n].next_leaf].prev_leaf = nodes[n].prev_leaf]

-----------------------------------------------------------------------------
\* create_index, which works the order out from the length of a key (PageLayout).
Init ==
  /\ \E o \in Orders :
       hdr = [btree_order |-> o, first_free |-> NDX_NO_PAGE, num_pages |-> NDX_INIT_NUM_PAGES,
              root_page |-> NDX_INIT_ROOT_PAGE, last_leaf |-> NDX_INIT_ROOT_PAGE]
  /\ node = [p \in Pages |->
               CASE p = NDX_LEAF_HEADER_PAGE ->
                      IndexPageHeader(NDX_NO_PAGE, TRUE, NDX_INIT_ROOT_PAGE, NDX_INIT_ROOT_PAGE)
                 [] p = NDX_INIT_ROOT_PAGE ->
                      IndexPageHeader(NDX_NO_PAGE, TRUE, NDX_LEAF_HEADER_PAGE, NDX_LEAF_HEADER_PAGE)
                 [] OTHER -> Released(NDX_NO_PAGE)]
  /\ work = Idle

MinFill == (hdr.btree_order + 1) \div 2

\* Slip: the spare place of a node counts as one of its places.
OverflowAtLate(nodes, n) ==
  IF Len(nodes[n].rids) > hdr.btree_order + 1 THEN [todo |-> "overflow", page |-> n] ELSE Idle

\* The conditions of the loops of insert_entry and delete_entry.
OverflowAt(nodes, n) ==
  IF Len(nodes[n].rids) > hdr.btree_order THEN [todo |-> "overflow", page |-> n] ELSE Idle

UnderflowAt(nodes, n) ==
  IF Len(nodes[n].rids) < MinFill THEN [todo |-> "underflow", page |-> n] ELSE Idle

-----------------------------------------------------------------------------
(* insert_entry.                                                           *)

\* The entry goes to its leaf.  The callers give a record no second entry.
InsertEntry(e) ==
  LET iid == UpperBound(e[1])
      put == [node EXCEPT ![iid[1]] = InsertPair(@, iid[2] + 1, e[1], e[2])]
      after == IF iid = LeafEnd THEN MaintainParent(put, iid[1]) ELSE put
  IN
  /\ work = Idle
  /\ \A p \in Pages : node[p].is_leaf => e[2] \notin ToSet(node[p].rids)
  /\ node' = after
  /\ work' = OverflowAt(after, iid[1])
  /\ UNCHANGED hdr

\* The overfull node is the root: it gets a parent, the new root.
GrowRoot ==
  LET n == work.page
      r == NewPage
      root == InsertPair(IndexPageHeader(NDX_NO_PAGE, FALSE, NDX_NO_PAGE, NDX_NO_PAGE),
                         1, Last(node[n].keys), n)
  IN
  /\ work.todo = "overflow"
  /\ node[n].parent = NDX_NO_PAGE
  /\ r \in Pages
  /\ node' = [node EXCEPT ![r] = root, ![n].parent = r]
  /\ hdr' = [HeaderAfterNew EXCEPT !.root_page = r]
  /\ UNCHANGED work

\* Slip: the entry whose key goes up is not given to the brother.
HalvedLosesEntry(n, b, s) ==
  LET p == node[n].parent
      i == FindChild(node[p], n)
      cut == [node EXCEPT
                ![n].keys = SubSeq(@, 1, s),
                ![n].rids = SubSeq(@, 1, s),
                ![p].keys = InsertAt(@, i, node[n].keys[s]),
                ![p].rids = InsertAt(@, i + 1, b),
                ![b] = [IndexPageHeader(p, node[n].is_leaf, n, node[n].next_leaf) EXCEPT
                          !.keys = SubSeq(node[n].keys, s + 2, Len(node[n].keys)),
                          !.rids = SubSeq(node[n].rids, s + 2, Len(node[n].rids))]]
  IN IF node[n].is_leaf
     THEN [cut EXCEPT ![n].next_leaf = b, ![node[n].next_leaf].prev_leaf = b]
     ELSE Adopted(cut, b, cut[b].rids)

\* The brother gets all but the first s entries of node n, and stands after it
\* in the parent and, if they are leaves, in the ring.
Halved(n, b, s) ==
  LET p == node[n].parent
      bro == IF node[n].is_leaf
             THEN IndexPageHeader(p, TRUE, n, node[n].next_leaf)
             ELSE IndexPageHeader(p, FALSE, NDX_NO_PAGE, NDX_NO_PAGE)
      i == FindChild(node[p], n)
      cut == [node EXCEPT
                ![n].keys = SubSeq(@, 1, s),
                ![n].rids = SubSeq(@, 1, s),
                ![p].keys = InsertAt(@, i, node[n].keys[s]),
                ![p].rids = InsertAt(@, i + 1, b),
                ![b] = [bro EXCEPT !.keys = SubSeq(node[n].keys, s + 1, Len(node[n].keys)),
                                   !.rids = SubSeq(node[n].rids, s + 1, Len(node[n].rids))]]
  IN IF node[n].is_leaf
     THEN [cut EXCEPT ![n].next_leaf = b, ![node[n].next_leaf].prev_leaf = b]
     ELSE Adopted(cut, b, cut[b].rids)

\* Slip: the last leaf of the index is split and the header keeps the old one.
SplitKeepsLastLeaf ==
  LET n == work.page
      b == NewPage
      after == Halved(n, b, Len(node[n].rids) \div 2)
  IN
  /\ work.todo = "overflow"
  /\ node[n].parent # NDX_NO_PAGE
  /\ b \in Pages
  /\ node' = after
  /\ hdr' = HeaderAfterNew
  /\ work' = OverflowAt(after, node[n].parent)

\* Slip: one entry stays, all the others go to the brother.
SplitUneven ==
  LET n == work.page
      b == NewPage
      after == Halved(n, b, 1)
  IN
  /\ work.todo = "overflow"
  /\ node[n].parent # NDX_NO_PAGE
  /\ b \in Pages
  /\ node' = after
  /\ hdr' = [HeaderAfterNew EXCEPT !.last_leaf = IF @ = n THEN b ELSE @]
  /\ work' = OverflowAt(after, node[n].parent)

\* The overfull node is split in two.
Split ==
  LET n == work.page
      b == NewPage
  IN
  /\ work.todo = "overflow"
  /\ node[n].parent # NDX_NO_PAGE
  /\ b \in Pages
  /\ \E after \in {Halved(n, b, Len(node[n].rids) \div 2)} :
       /\ node' = after
       /\ work' = OverflowAt(after, node[n].parent)
  /\ hdr' = [HeaderAfterNew EXCEPT !.last_leaf = IF @ = n THEN b ELSE @]

-----------------------------------------------------------------------------
(* delete_entry.                                                           *)

\* The entry is looked for among those with its key and taken out of its leaf.
\* An entry that is not found is refused and nothing changes.
DeleteEntry(e) ==
  /\ work = Idle
  /\ \E ids \in {Scan(LowerBound(e[1]), UpperBound(e[1]))} :
     \E i \in 1 .. Len(ids) - 1 :
     \E n \in {ids[i][1]} :
     \E after \in {MaintainParent([node EXCEPT ![n] = ErasePair(@, ids[i][2] + 1)], n)} :
       /\ RidAt(ids[i]) = e[2]
       /\ \A j \in 1 .. i - 1 : RidAt(ids[j]) # e[2]
       /\ node' = after
       /\ work' = UnderflowAt(after, n)
  /\ UNCHANGED hdr

\* Slip: the loop is left only when the root gives way.
ShrinkRootWithoutBreak ==
  LET n == work.page
      child == node[n].rids[1]
  IN
  /\ work.todo = "underflow"
  /\ node[n].parent = NDX_NO_PAGE
  /\ ~node[n].is_leaf /\ Len(node[n].keys) <= 1
  /\ node' = [node EXCEPT ![child].parent = NDX_NO_PAGE,
                          ![n] = Released(hdr.first_free)]
  /\ hdr' = [hdr EXCEPT !.root_page = child, !.first_free = n]
  /\ work' = Idle

\* The root may have few entries; one with a single child gives way to it.
ShrinkRoot ==
  LET n == work.page
      shrinks == ~node[n].is_leaf /\ Len(node[n].keys) <= 1
      child == node[n].rids[1]
  IN
  /\ work.todo = "underflow"
  /\ node[n].parent = NDX_NO_PAGE
  /\ IF shrinks
     THEN /\ node' = [node EXCEPT ![child].parent = NDX_NO_PAGE,
                                  ![n] = Released(hdr.first_free)]
          /\ hdr' = [hdr EXCEPT !.root_page = child, !.first_free = n]
     ELSE UNCHANGED <<node, hdr>>
  /\ work' = Idle

\* The node that has too few entries, its place in its parent, its brothers,
\* and whether a brother is rich enough to give one away.
Parent == node[work.page].parent
Rank == FindChild(node[Parent], work.page)
LeftBrother == node[Parent].rids[Rank - 1]
RightBrother == node[Parent].rids[Rank + 1]
LeftIsRich == Rank > 1 /\ Len(node[LeftBrother].rids) > MinFill
RightIsRich == Rank < Len(node[Parent].rids) /\ Len(node[RightBrother].rids) > MinFill

HasUnderflow == work.todo = "underflow" /\ node[work.page].parent # NDX_NO_PAGE

\* The left brother gives its last entry.
BorrowLeft ==
  LET n == work.page
      b == LeftBrother
      last == Len(node[b].rids)
  IN
  /\ HasUnderflow
  /\ LeftIsRich
  /\ \E moved \in {[node EXCEPT
                       ![n] = InsertPair(@, 1, node[b].keys[last], node[b].rids[last]),
                       ![b] = ErasePair(@, last)]} :
     \E told \in {MaintainParent(moved, b)} :
       node' = Adopted(told, n, <<node[b].rids[last]>>)
  /\ work' = Idle
  /\ UNCHANGED hdr

\* The right brother gives its first entry.
BorrowRight ==
  LET n == work.page
      b == RightBrother
  IN
  /\ HasUnderflow
  /\ ~LeftIsRich
  /\ RightIsRich
  /\ \E moved \in {[node EXCEPT
                       ![n] = InsertPair(@, Len(@.rids) + 1, node[b].keys[1], node[b].rids[1]),
                       ![b] = ErasePair(@, 1)]} :
     \E told \in {MaintainParent(moved, n)} :
       node' = Adopted(told, n, <<node[b].rids[1]>>)
  /\ work' = Idle
  /\ UNCHANGED hdr

\* Node l takes over the entries of r, the next child of their parent, whose
\* key at position key_at goes.
Absorb(l, r, key_at) ==
  \E p \in {node[l].parent} :
  \E moved \in {[node EXCEPT
                  ![l] = Joined(@, node[r]),
                  ![p].keys = RemoveAt(@, key_at),
                  ![p].rids = RemoveAt(@, FindChild(node[p], r))]} :
  \E adopted \in {Adopted(moved, l, node[r].rids)} :
  \E told \in {MaintainParent(adopted, l)} :
  \E after \in {[WithoutLeaf(told, r) EXCEPT ![r] = Released(hdr.first_free)]} :
    /\ node' = after
    /\ hdr' = [hdr EXCEPT !.last_leaf = IF @ = r THEN l ELSE @, !.first_free = r]
    /\ work' = UnderflowAt(after, p)

\* No brother is rich: the node goes into its left brother, or else its right
\* brother into it.
MergeLeft ==
  /\ HasUnderflow
  /\ ~LeftIsRich /\ ~RightIsRich
  /\ Rank > 1
  /\ Absorb(LeftBrother, work.page, Rank)

MergeRight ==
  /\ HasUnderflow
  /\ ~RightIsRich
  /\ Rank = 1
  /\ Absorb(work.page, RightBrother, Rank)

-----------------------------------------------------------------------------
Rebalance == GrowRoot \/ Split \/ ShrinkRoot \/ BorrowLeft \/ BorrowRight \/ MergeLeft \/ MergeRight

Next ==
  \/ \E e \in Entry : InsertEntry(e) \/ DeleteEntry(e)
  \/ Rebalance

Spec == Init /\ [][Next]_vars

\* The loops run in one call, which goes on to its end.
FairSpec == Spec /\ WF_vars(Rebalance)

-----------------------------------------------------------------------------
(* Properties.                                                             *)

\* The pages of the subtree of page n.
Under[n \in Pages] ==
  IF node[n].is_leaf THEN {n} ELSE {n} \cup UNION {Under[c] : c \in ToSet(node[n].rids)}

\* The leaves of that subtree, from left to right.
Leaves[n \in Pages] ==
  IF node[n].is_leaf THEN <<n>>
  ELSE FlattenSeq([i \in DOMAIN node[n].rids |-> Leaves[node[n].rids[i]]])

\* The leaves in the order of the ring, from page n on.
Ring[n \in PageOrNone] ==
  IF n \in {NDX_LEAF_HEADER_PAGE, NDX_NO_PAGE} \/ ~node[n].is_leaf THEN << >>
  ELSE <<n>> \o Ring[node[n].next_leaf]

\* The pages on the free list from page n on.
FreeFrom[n \in PageOrNone] ==
  IF n = NDX_NO_PAGE THEN << >> ELSE <<n>> \o FreeFrom[node[n].next_free]

Depth[n \in Pages] == IF node[n].parent = NDX_NO_PAGE THEN 0 ELSE 1 + Depth[node[n].parent]

Tree == Under[hdr.root_page]
LeafList == Ring[first_leaf]
KeyList == FlattenSeq([i \in DOMAIN LeafList |-> node[LeafList[i]].keys])
RidList == FlattenSeq([i \in DOMAIN LeafList |-> node[LeafList[i]].rids])

\* The types; an inner node has as many keys as children, which is not what the docs
\* say (OneMoreChild), and any node has one too many only while an operation works
\* on it.
TypeOK ==
  /\ hdr \in
       [btree_order : Orders, first_free : PageOrNone,
        num_pages : NDX_INIT_NUM_PAGES .. MaxPage + 1, root_page : Pages, last_leaf : Pages]
  /\ \A p \in Pages :
       /\ DOMAIN node[p] =
            {"next_free", "parent", "is_leaf", "prev_leaf", "next_leaf", "keys", "rids"}
       /\ {node[p].next_free, node[p].parent, node[p].prev_leaf, node[p].next_leaf}
            \subseteq PageOrNone
       /\ node[p].is_leaf \in BOOLEAN
       /\ Len(node[p].keys) = Len(node[p].rids)
       /\ Len(node[p].keys) <=
            hdr.btree_order + IF work = [todo |-> "overflow", page |-> p] THEN 1 ELSE 0
       /\ ToSet(node[p].keys) \subseteq Keys
       /\ ToSet(node[p].rids) \subseteq IF node[p].is_leaf THEN Rids ELSE Pages
  /\ work \in [todo : {"nothing", "overflow", "underflow"}, page : PageOrNone]

\* ndx_defs.h:25: "Non-leaf node: p block pointers ; p-1 keys", and so ndx_defs.h:32,
\* ndx_manager.cpp:25 and index_handler/README.md:57-58; there, lines 147-156, the last
\* child has no key and takes "any larger keys".  So an inner node has one child more
\* than it has keys.
OneMoreChild ==
  work = Idle =>
    \A p \in Tree : ~node[p].is_leaf => Len(node[p].rids) = Len(node[p].keys) + 1

\* index_handler/README.md and check_tree of the test: an inner node holds, with
\* every child, the greatest key of that child, and the child knows its parent.
ParentsKnow ==
  \A p \in Tree : ~node[p].is_leaf =>
    \A i \in DOMAIN node[p].rids :
      LET c == node[p].rids[i] IN
      /\ node[c].parent = p
      /\ node[c].keys # << >> /\ node[p].keys[i] = Last(node[c].keys)

\* check_leaf of the test, and more: the ring holds exactly the leaves of the
\* tree, in the order of the tree, both ways, up to last_leaf; the keys ascend.
RingFollowsTree ==
  LET ring == LeafList IN
  /\ ring = Leaves[hdr.root_page]
  /\ Last(ring) = hdr.last_leaf
  /\ node[NDX_LEAF_HEADER_PAGE].next_leaf = first_leaf
  /\ node[NDX_LEAF_HEADER_PAGE].prev_leaf = hdr.last_leaf
  /\ \A i \in DOMAIN ring :
       node[ring[i]].prev_leaf = IF i = 1 THEN NDX_LEAF_HEADER_PAGE ELSE ring[i - 1]
  /\ IsSorted(KeyList, LAMBDA x, y : x <= y)

\* ndx_defs.h: all leaves are at the same level.  Every node but the root is at
\* least half full, and one less than that only while delete_entry works on it.
Balanced ==
  /\ \A i \in DOMAIN LeafList : Depth[LeafList[i]] = Depth[first_leaf]
  /\ \A p \in Tree \ {hdr.root_page} :
       Len(node[p].rids) >= MinFill - IF work = [todo |-> "underflow", page |-> p] THEN 1 ELSE 0
  /\ work = Idle /\ ~node[hdr.root_page].is_leaf => Len(node[hdr.root_page].rids) >= 2

\* Every page of the file is a node of the tree or is free, and none is both:
\* no page is lost and none is given out twice.
PagesAccounted ==
  LET free == FreeFrom[hdr.first_free] IN
  /\ Tree \cup ToSet(free) = NDX_INIT_ROOT_PAGE .. hdr.num_pages - 1
  /\ Tree \cap ToSet(free) = {}
  /\ IsInjective(free)

\* check_equal of the test: a scan from leaf_begin to leaf_end returns every
\* entry once, and lower_bound and upper_bound of any key are the places on it
\* where the entries with that key begin and end.
BoundsExact ==
  work = Idle =>
    LET ids == Scan(<<first_leaf, 0>>, LeafEnd)
    IN
    /\ Last(ids) = LeafEnd
    /\ [i \in 1 .. Len(ids) - 1 |-> RidAt(ids[i])] = RidList
    /\ \A k \in Keys :
         /\ LowerBound(k) = ids[1 + Cardinality({i \in DOMAIN KeyList : KeyList[i] < k})]
         /\ UpperBound(k) = ids[1 + Cardinality({i \in DOMAIN KeyList : KeyList[i] <= k})]

\* The entries in the leaves.
Held ==
  UNION {{<<node[p].keys[i], node[p].rids[i]>> : i \in DOMAIN node[p].rids} : p \in ToSet(LeafList)}

\* The index implements the set of its entries: rebalancing the tree loses none
\* and invents none.
Store == INSTANCE IndexStore WITH entries <- Held, busy <- (work # Idle)

Implements == Store!Spec

\* An insert or a delete comes to an end, however far up it has to rebalance.
RebalanceEnds == (work # Idle) ~> (work = Idle)
=============================================================================
