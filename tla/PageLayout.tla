----------------------------- MODULE PageLayout -----------------------------
(***************************************************************************)
(* The arithmetic of RM_Manager::create_file and IndexManager::            *)
(* create_index: how many records of a given size a page takes, how many   *)
(* keys of a given length a node takes, and where they lie in the page.    *)
(***************************************************************************)
EXTENDS Integers

CONSTANTS
  PAGE_SIZE,            \* bytes in a page
  MaxSize               \* RM_MAX_RECORD_SIZE and NDX_MAX_COL_LEN, which are equal

ASSUME LayoutAssumption == PAGE_SIZE = 4096 /\ MaxSize = 512

WIDTH == 8              \* Bitmap::WIDTH: bits in a bucket
PageHeaderSize == 8     \* sizeof(RM_PageHeader): two ints
NodeHeaderSize == 28    \* sizeof(IndexPageHeader): six ints and a bool, aligned
RecordIDSize == 8       \* sizeof(RecordID): two ints

\* The record size or the key length; every other one is refused.
VARIABLE size

-----------------------------------------------------------------------------
(* Record pages.                                                           *)

\* Slip: the bits of the bitmap take no place.
NumRecordsPerPageNoBitmap(n) == (PAGE_SIZE - 1 - PageHeaderSize) \div n

\* hdr.num_records_per_page.
NumRecordsPerPage(n) == (WIDTH * (PAGE_SIZE - 1 - PageHeaderSize) + 1) \div (1 + n * WIDTH)

\* hdr.bitmap_size.
BitmapSize(n) == (NumRecordsPerPage(n) + WIDTH - 1) \div WIDTH

\* RM_PageHandle, get_slot: where a slot begins in the page.
SlotStart(n, slot) == PageHeaderSize + BitmapSize(n) + slot * n

-----------------------------------------------------------------------------
(* Index nodes: a node of order p has one place more than p, which         *)
(* insert_entry fills before it splits the node.                           *)

\* Slip: no place is kept for the entry that makes the node split.
OrderWithoutSpare(n) == (PAGE_SIZE - NodeHeaderSize) \div (n + RecordIDSize)

\* btree_order.
Order(n) == (PAGE_SIZE - NodeHeaderSize) \div (n + RecordIDSize) - 1

\* rid_offset.
RidOffset(n) == NodeHeaderSize + (Order(n) + 1) * n

\* Where the last child pointer of an overfull node ends.
NodeEnd(n) == RidOffset(n) + (Order(n) + 1) * RecordIDSize

-----------------------------------------------------------------------------
\* The sizes that are accepted, the smallest first.
Init == size = 1
Next == size < MaxSize /\ size' = size + 1
Spec == Init /\ [][Next]_size

\* The comment in RM_Manager::create_file: header, bitmap and slots fit in a page.
\* There is at least one slot, as RecordFile assumes.
RecordPageFits ==
  /\ SlotStart(size, NumRecordsPerPage(size)) <= PAGE_SIZE
  /\ NumRecordsPerPage(size) >= 1

\* The comment in IndexManager::create_index: header, keys and child pointers of
\* a node fit in a page even when the node is overfull.  It can then be split in
\* two, as the assertion there says and BTree assumes.
NodeFits ==
  /\ NodeEnd(size) <= PAGE_SIZE
  /\ Order(size) > 2
=============================================================================
