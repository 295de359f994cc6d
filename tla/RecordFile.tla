----------------------------- MODULE RecordFile -----------------------------
(***************************************************************************)
(* A record file (RM_FileHandle and RM_Manager): pages of fixed-size       *)
(* slots with a bitmap of the slots in use, and a list of the pages with   *)
(* room, threaded through the page headers.                                *)
(*                                                                         *)
(* The file header is read when the file is opened and written when it is  *)
(* closed; in between only the copy in the file handle changes.  The       *)
(* content of the pages is what the buffer pool promises (PageStore).      *)
(*                                                                         *)
(* An operation is one step: RecordScan adds the iterator.                 *)
(***************************************************************************)
EXTENDS Integers, FiniteSets

CONSTANTS
  MaxPages,           \* bound: the record pages the file may grow to
  NumRecordsPerPage,  \* num_records_per_page, see RecordLayout
  Value,              \* contents of a record
  NoRecord,           \* what an empty place holds
  Junk                \* the bytes of a slot never written

RM_NO_PAGE == -1
RM_FIRST_RECORD_PAGE == 1

ASSUME MaxPagesAssumption == MaxPages \in Nat
ASSUME RecordsPerPageAssumption == NumRecordsPerPage \in Nat \ {0}
ASSUME RecordAssumption == NoRecord \notin Value /\ NoRecord # Junk

Pages == RM_FIRST_RECORD_PAGE .. MaxPages
Slots == 0 .. NumRecordsPerPage - 1
RID == Pages \X Slots

VARIABLES
  is_open,      \* a handle on the file exists
  num_pages,    \* hdr.num_pages of the handle
  first_free,   \* hdr.first_free of the handle
  disk_hdr,     \* the header page in the file: <<num_pages, first_free>>
  next_free,    \* RM_PageHeader::next_free of every page
  num_records,  \* RM_PageHeader::num_records of every page
  bitmap,       \* the set bits of every page's bitmap
  slots         \* the slots of every page

header == <<is_open, num_pages, first_free, disk_hdr>>
pages == <<next_free, num_records, bitmap, slots>>
vars == <<header, pages>>

-----------------------------------------------------------------------------
(* Bitmap and page helpers.                                                *)

\* Bitmap::first_bit and next_bit: the first of the positions, or the size if there is none.
FirstOf(S) ==
  IF S = {} THEN NumRecordsPerPage ELSE CHOOSE i \in S : \A j \in S : i <= j

\* is_record: the bitmap alone says which slots are records.
IsRecord(r) == r[2] \in bitmap[r[1]]

\* get_record.
GetRecord(r) == slots[r[1]][r[2]]

Allocated == RM_FIRST_RECORD_PAGE .. num_pages - 1
Full(p) == num_records[p] = NumRecordsPerPage
Live == {r \in RID : IsRecord(r)}

-----------------------------------------------------------------------------
\* create_file writes the header of an empty file.
Init ==
  /\ is_open = FALSE
  /\ num_pages = 1
  /\ first_free = RM_NO_PAGE
  /\ disk_hdr = <<1, RM_NO_PAGE>>
  /\ next_free = [p \in Pages |-> RM_NO_PAGE]
  /\ num_records = [p \in Pages |-> 0]
  /\ bitmap = [p \in Pages |-> {}]
  /\ slots = [p \in Pages |-> [s \in Slots |-> Junk]]

OpenFile ==
  /\ ~is_open
  /\ is_open' = TRUE
  /\ num_pages' = disk_hdr[1]
  /\ first_free' = disk_hdr[2]
  /\ UNCHANGED <<disk_hdr, pages>>

\* Slip: the header is not written back.
CloseFileWithoutHeader ==
  /\ is_open
  /\ is_open' = FALSE
  /\ UNCHANGED <<num_pages, first_free, disk_hdr, pages>>

\* close_file writes the header back; the pool flushes the pages.
CloseFile ==
  /\ is_open
  /\ is_open' = FALSE
  /\ disk_hdr' = <<num_pages, first_free>>
  /\ UNCHANGED <<num_pages, first_free, pages>>

\* Slip: a page that fills up stays on the free list.
PutRecordKeepsFull(p, nf, count, bm, head, v) ==
  LET slot == FirstOf(Slots \ bm) IN
  /\ bitmap' = [bitmap EXCEPT ![p] = bm \cup {slot}]
  /\ num_records' = [num_records EXCEPT ![p] = count + 1]
  /\ next_free' = [next_free EXCEPT ![p] = nf]
  /\ first_free' = head
  /\ slots' = [slots EXCEPT ![p][slot] = v]

\* The second half of insert_record: record v goes to the first free slot of
\* page p, whose header says nf and count and whose bitmap is bm; head is the
\* free list the header would keep.
PutRecord(p, nf, count, bm, head, v) ==
  LET slot == FirstOf(Slots \ bm) IN
  /\ bitmap' = [bitmap EXCEPT ![p] = bm \cup {slot}]
  /\ num_records' = [num_records EXCEPT ![p] = count + 1]
  /\ next_free' = [next_free EXCEPT ![p] = nf]
  /\ first_free' = IF count + 1 = NumRecordsPerPage THEN nf ELSE head
  /\ slots' = [slots EXCEPT ![p][slot] = v]

\* Slip: the new page is not counted in the file header.
InsertOnUncountedPage(v) ==
  /\ is_open
  /\ first_free = RM_NO_PAGE
  /\ PutRecord(num_pages, RM_NO_PAGE, 0, {}, num_pages, v)
  /\ UNCHANGED <<is_open, num_pages, disk_hdr>>

\* insert_record, when create_page finds the free list empty and appends a page.
InsertOnNewPage(v) ==
  /\ is_open
  /\ first_free = RM_NO_PAGE
  /\ num_pages <= MaxPages
  /\ num_pages' = num_pages + 1
  /\ PutRecord(num_pages, RM_NO_PAGE, 0, {}, num_pages, v)
  /\ UNCHANGED <<is_open, disk_hdr>>

\* insert_record, when create_page fetches the first page of the free list.
InsertOnFreePage(v) ==
  /\ is_open
  /\ first_free # RM_NO_PAGE
  /\ PutRecord(first_free, next_free[first_free], num_records[first_free],
               bitmap[first_free], first_free, v)
  /\ UNCHANGED <<is_open, num_pages, disk_hdr>>

\* Slip: the count is decremented before it is compared, so a page that was full
\* never comes back to the free list.
DeleteRecordTestsLate(r) ==
  LET p == r[1]
      wasFull == num_records[p] - 1 = NumRecordsPerPage
  IN
  /\ is_open
  /\ IsRecord(r)
  /\ next_free' = IF wasFull THEN [next_free EXCEPT ![p] = first_free] ELSE next_free
  /\ first_free' = IF wasFull THEN p ELSE first_free
  /\ bitmap' = [bitmap EXCEPT ![p] = @ \ {r[2]}]
  /\ num_records' = [num_records EXCEPT ![p] = @ - 1]
  /\ UNCHANGED <<is_open, num_pages, disk_hdr, slots>>

\* Slip: the count of records is not decremented.
DeleteRecordKeepsCount(r) ==
  LET p == r[1] IN
  /\ is_open
  /\ IsRecord(r)
  /\ next_free' = IF Full(p) THEN [next_free EXCEPT ![p] = first_free] ELSE next_free
  /\ first_free' = IF Full(p) THEN p ELSE first_free
  /\ bitmap' = [bitmap EXCEPT ![p] = @ \ {r[2]}]
  /\ UNCHANGED <<is_open, num_pages, disk_hdr, num_records, slots>>

\* delete_record: a page that was full goes to the head of the free list.
DeleteRecord(r) ==
  LET p == r[1] IN
  /\ is_open
  /\ IsRecord(r)
  /\ next_free' = IF Full(p) THEN [next_free EXCEPT ![p] = first_free] ELSE next_free
  /\ first_free' = IF Full(p) THEN p ELSE first_free
  /\ bitmap' = [bitmap EXCEPT ![p] = @ \ {r[2]}]
  /\ num_records' = [num_records EXCEPT ![p] = @ - 1]
  /\ UNCHANGED <<is_open, num_pages, disk_hdr, slots>>

UpdateRecord(r, v) ==
  /\ is_open
  /\ IsRecord(r)
  /\ slots' = [slots EXCEPT ![r[1]][r[2]] = v]
  /\ UNCHANGED <<header, next_free, num_records, bitmap>>

Next ==
  \/ OpenFile \/ CloseFile
  \/ \E v \in Value : InsertOnNewPage(v) \/ InsertOnFreePage(v)
  \/ \E r \in RID : DeleteRecord(r) \/ \E v \in Value : UpdateRecord(r, v)

Spec == Init /\ [][Next]_vars

-----------------------------------------------------------------------------
(* Properties.                                                             *)

TypeOK ==
  /\ is_open \in BOOLEAN
  /\ num_pages \in 1..(MaxPages + 1)
  /\ first_free \in Pages \cup {RM_NO_PAGE}
  /\ disk_hdr \in (1..(MaxPages + 1)) \X (Pages \cup {RM_NO_PAGE})
  /\ next_free \in [Pages -> Pages \cup {RM_NO_PAGE}]
  /\ num_records \in [Pages -> 0..NumRecordsPerPage]
  /\ bitmap \in [Pages -> SUBSET Slots]
  /\ slots \in [Pages -> [Slots -> Value \cup {Junk}]]

\* The count in a page's header, which decides when the page joins and leaves
\* the free list, is the number of records in it.
CountMatchesBitmap ==
  \A p \in Pages : num_records[p] = Cardinality(bitmap[p])

\* The pages an insert could still use.
Room == {p \in Allocated : ~Full(p)}

\* insert_record asserts it: the page at the head of the free list has a free slot.
HeadHasRoom ==
  first_free # RM_NO_PAGE => first_free \in Allocated /\ bitmap[first_free] # Slots

\* p is reached from first_free through next_free: no set of pages holds the
\* head and the successor of each of its members, and not p.
OnFreeList(p) ==
  \A S \in SUBSET Pages :
    /\ first_free \in S \cup {RM_NO_PAGE}
    /\ \A q \in S : next_free[q] \in S \cup {RM_NO_PAGE}
    => p \in S

\* A page with room is never lost: the free list holds the pages with room
\* and no other, and no two pages on it have the same successor.
FreeListExact ==
  /\ \A p \in Pages : OnFreeList(p) <=> p \in Room
  /\ \A p, q \in Room : next_free[p] = next_free[q] => p = q

\* The records of the file, as its callers see them.
Recs == [r \in RID |-> IF IsRecord(r) THEN GetRecord(r) ELSE NoRecord]

\* The file implements the record store: no insert lands on a live record,
\* and no record changes or disappears but by its own update or delete.
Store == INSTANCE RecordStore WITH recs <- Recs

Implements == Store!Spec
=============================================================================
