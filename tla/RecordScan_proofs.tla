-------------------------- MODULE RecordScan_proofs --------------------------
(***************************************************************************)
(* Proofs about RecordFile and RecordScan, for every number of pages and   *)
(* of records per page.  First the record file: the types, the count of    *)
(* records in the page headers, the free list, and the implementation of   *)
(* RecordStore.  Then a scan that runs while the file changes: it returns  *)
(* every record that stays in the file, and no place twice.  The argument: *)
(* what the scan returned is behind it, what stays in the file is in the   *)
(* bitmaps, and a round of next() goes past no set bit without returning   *)
(* it.                                                                     *)
(***************************************************************************)
EXTENDS RecordScan, FiniteSetTheorems, WellFoundedInduction, TLAPS

-----------------------------------------------------------------------------
(* The inductive invariant.                                                *)

\* Nothing is stored beyond the pages of the file.
Unallocated == \A p \in Pages : p \notin Allocated => bitmap[p] = {}

\* What CloseFile wrote is what OpenFile will read.
HeaderSaved == ~is_open => disk_hdr = <<num_pages, first_free>>

\* The free list stays among the pages with room.
ListInRoom ==
  /\ first_free \in Room \cup {RM_NO_PAGE}
  /\ \A p \in Room : next_free[p] \in Room \cup {RM_NO_PAGE}

\* It is a list: its head is nobody's successor, and no two of its pages share one.
ListLinear ==
  /\ \A p \in Room : next_free[p] # first_free
  /\ \A p, q \in Room : next_free[p] = next_free[q] => p = q

\* It misses none of them: a set of pages with room that is closed under the
\* list is all of them.
Closed(S) ==
  /\ first_free \in S \cup {RM_NO_PAGE}
  /\ \A q \in S : next_free[q] \in S \cup {RM_NO_PAGE}
ListComplete == \A S \in SUBSET Room : Closed(S) => S = Room

\* A slot in use has been written.
Written == \A p \in Pages : \A s \in bitmap[p] : slots[p][s] \in Value

IInv ==
  /\ TypeOK
  /\ CountMatchesBitmap
  /\ Unallocated
  /\ HeaderSaved
  /\ ListInRoom
  /\ ListLinear
  /\ ListComplete
  /\ Written

-----------------------------------------------------------------------------
(* Lemmas about the bitmap.                                                *)

\* A nonempty set of naturals has a least element.
LEMMA LeastNatural ==
  ASSUME NEW S \in SUBSET Nat, S # {}
  PROVE  \E i \in S : \A j \in S : i <= j
<1>. DEFINE R == OpToRel(<, Nat)
<1>1. IsWellFoundedOn(R, Nat)
  BY NatLessThanWellFounded
<1>2. ASSUME NEW x \in Nat, NEW y \in Nat, <<x, y>> \notin R PROVE y <= x
  BY <1>2 DEF OpToRel
<1>. HIDE DEF R
<1>3. PICK i \in S : \A j \in S : ~ (<<j, i>> \in R)
  BY <1>1, WFMin, Zenon
<1>. QED  BY <1>2, <1>3

\* first_bit and next_bit find a position if there is one, and the least.
LEMMA FirstOfFinds ==
  ASSUME NEW S \in SUBSET Nat, S # {}
  PROVE  FirstOf(S) \in S /\ \A j \in S : FirstOf(S) <= j
BY LeastNatural DEF FirstOf

\* The page is full by its count exactly when no bit is clear.
LEMMA FullBitmap ==
  ASSUME NEW B \in SUBSET Slots
  PROVE  /\ IsFiniteSet(B)
         /\ Cardinality(B) \in 0..NumRecordsPerPage
         /\ Cardinality(B) = NumRecordsPerPage <=> B = Slots
<1>1. IsFiniteSet(Slots) /\ Cardinality(Slots) = NumRecordsPerPage
  BY FS_Interval, RecordsPerPageAssumption DEF Slots
<1>2. IsFiniteSet(B) /\ Cardinality(B) <= Cardinality(Slots)
      /\ (Cardinality(Slots) = Cardinality(B) => Slots = B)
  BY <1>1, FS_Subset
<1>3. Cardinality(B) \in Nat
  BY <1>2, FS_CardinalityType
<1>. QED  BY <1>1, <1>2, <1>3, RecordsPerPageAssumption

\* Setting the first clear bit of a bitmap with room.
LEMMA SetFirstClear ==
  ASSUME NEW B \in SUBSET Slots, B # Slots
  PROVE  /\ FirstOf(Slots \ B) \in Slots \ B
         /\ B \cup {FirstOf(Slots \ B)} \in SUBSET Slots
         /\ Cardinality(B \cup {FirstOf(Slots \ B)}) = Cardinality(B) + 1
<1>. DEFINE S == Slots \ B
<1>1. S # {}
  OBVIOUS
<1>2. S \in SUBSET Nat
  BY RecordsPerPageAssumption DEF Slots
<1>. HIDE DEF S
<1>3. FirstOf(S) \in S
  BY <1>1, <1>2, FirstOfFinds
<1>4. IsFiniteSet(B)
  BY FullBitmap
<1>. USE DEF S
<1>5. Cardinality(B \cup {FirstOf(S)}) = Cardinality(B) + 1
  BY <1>3, <1>4, FS_AddElement
<1>. QED  BY <1>3, <1>5

\* Clearing a set bit.
LEMMA ClearBit ==
  ASSUME NEW B \in SUBSET Slots, NEW s \in B
  PROVE  /\ B \ {s} \in SUBSET Slots
         /\ Cardinality(B \ {s}) = Cardinality(B) - 1
         /\ Cardinality(B) \in 1..NumRecordsPerPage
<1>1. IsFiniteSet(B) /\ Cardinality(B) \in 0..NumRecordsPerPage
  BY FullBitmap
<1>2. Cardinality(B \ {s}) = Cardinality(B) - 1
  BY <1>1, FS_RemoveElement
<1>3. Cardinality(B) # 0
  BY <1>1, FS_EmptySet
<1>. QED  BY <1>1, <1>2, <1>3, RecordsPerPageAssumption

-----------------------------------------------------------------------------
(* The invariant holds initially and every operation preserves it.         *)

LEMMA InitIInv == Init => IInv
<1>. SUFFICES ASSUME Init PROVE IInv
  OBVIOUS
<1>. USE DEF Init
<1>1. TypeOK
  <2>1. 1 \in 1..(MaxPages + 1) /\ 0 \in 0..NumRecordsPerPage
    BY MaxPagesAssumption, RecordsPerPageAssumption
  <2>. QED  BY <2>1 DEF TypeOK
<1>2. CountMatchesBitmap
  BY FS_EmptySet DEF CountMatchesBitmap
<1>3. Room = {}
  BY DEF Room, Allocated, RM_FIRST_RECORD_PAGE
<1>4. ListInRoom /\ ListLinear /\ ListComplete
  BY <1>3 DEF ListInRoom, ListLinear, ListComplete
<1>5. Unallocated /\ HeaderSaved /\ Written
  BY DEF Unallocated, HeaderSaved, Written
<1>. QED  BY <1>1, <1>2, <1>4, <1>5 DEF IInv

\* A page with room is a page of the file whose bitmap is not full.
LEMMA RoomBitmap ==
  ASSUME TypeOK, CountMatchesBitmap, NEW p \in Pages
  PROVE  /\ bitmap[p] \in SUBSET Slots
         /\ num_records[p] = Cardinality(bitmap[p])
         /\ Full(p) <=> bitmap[p] = Slots
         /\ p \in Room <=> p \in Allocated /\ bitmap[p] # Slots
<1>1. bitmap[p] \in SUBSET Slots
  BY DEF TypeOK
<1>. QED  BY <1>1, FullBitmap DEF CountMatchesBitmap, Full, Room

LEMMA RoomInPages == TypeOK => Room \subseteq Pages /\ Allocated \subseteq Pages
BY MaxPagesAssumption DEF TypeOK, Room, Allocated, Pages, RM_FIRST_RECORD_PAGE

\* What the invariant says of the free list depends on these variables only.
ListOK == ListInRoom /\ ListLinear /\ ListComplete

LEMMA ListUnchanged ==
  ListOK /\ UNCHANGED <<num_pages, first_free, next_free, num_records>> => ListOK'
<1>. SUFFICES ASSUME ListOK, UNCHANGED <<num_pages, first_free, next_free, num_records>>
              PROVE  ListOK'
  OBVIOUS
<1>1. Room' = Room
  BY DEF Room, Allocated, Full
<1>2. ListInRoom' /\ ListLinear'
  BY <1>1 DEF ListOK, ListInRoom, ListLinear
<1>3. ListComplete'
  BY <1>1 DEF ListOK, ListComplete, Closed
<1>. QED  BY <1>2, <1>3 DEF ListOK

LEMMA OpenFileIInv == IInv /\ OpenFile => IInv'
<1>. SUFFICES ASSUME IInv, OpenFile PROVE IInv'
  OBVIOUS
<1>1. UNCHANGED <<num_pages, first_free, disk_hdr, pages>> /\ is_open' = TRUE
  BY DEF IInv, OpenFile, HeaderSaved
<1>2. ListOK'
  BY <1>1, ListUnchanged DEF IInv, ListOK, pages
<1>3. TypeOK'
  BY <1>1 DEF IInv, TypeOK, pages
<1>4. CountMatchesBitmap' /\ Unallocated' /\ HeaderSaved' /\ Written'
  BY <1>1 DEF IInv, CountMatchesBitmap, Unallocated, HeaderSaved, Written, Allocated, pages
<1>. QED  BY <1>2, <1>3, <1>4 DEF IInv, ListOK

LEMMA CloseFileIInv == IInv /\ CloseFile => IInv'
<1>. SUFFICES ASSUME IInv, CloseFile PROVE IInv'
  OBVIOUS
<1>1. /\ UNCHANGED <<num_pages, first_free, pages>>
      /\ is_open' = FALSE
      /\ disk_hdr' = <<num_pages, first_free>>
  BY DEF CloseFile
<1>2. ListOK'
  BY <1>1, ListUnchanged DEF IInv, ListOK, pages
<1>3. TypeOK'
  BY <1>1 DEF IInv, TypeOK, pages
<1>4. CountMatchesBitmap' /\ Unallocated' /\ HeaderSaved' /\ Written'
  BY <1>1 DEF IInv, CountMatchesBitmap, Unallocated, HeaderSaved, Written, Allocated, pages
<1>. QED  BY <1>2, <1>3, <1>4 DEF IInv, ListOK

LEMMA UpdateRecordIInv ==
  ASSUME NEW r \in RID, NEW v \in Value
  PROVE  IInv /\ UpdateRecord(r, v) => IInv'
<1>. SUFFICES ASSUME IInv, UpdateRecord(r, v) PROVE IInv'
  OBVIOUS
<1>1. /\ UNCHANGED <<header, next_free, num_records, bitmap>>
      /\ slots' = [slots EXCEPT ![r[1]][r[2]] = v]
      /\ r[1] \in Pages /\ r[2] \in Slots
  BY DEF UpdateRecord, RID
<1>2. ListOK'
  BY <1>1, ListUnchanged DEF IInv, ListOK, header
<1>3. TypeOK'
  BY <1>1 DEF IInv, TypeOK, header
<1>4. Written'
  BY <1>1 DEF IInv, TypeOK, Written
<1>5. CountMatchesBitmap' /\ Unallocated' /\ HeaderSaved'
  BY <1>1 DEF IInv, CountMatchesBitmap, Unallocated, HeaderSaved, Allocated, header
<1>. QED  BY <1>2, <1>3, <1>4, <1>5 DEF IInv, ListOK

-----------------------------------------------------------------------------
(* Inserting and deleting.                                                 *)

\* When the free list is empty every page of the file is full.
LEMMA EmptyListNoRoom ==
  IInv /\ first_free = RM_NO_PAGE => Room = {}
<1>. SUFFICES ASSUME IInv, first_free = RM_NO_PAGE PROVE Room = {}
  OBVIOUS
<1>1. Closed({})
  BY DEF Closed
<1>. QED  BY <1>1 DEF IInv, ListComplete

LEMMA InsertOnNewPageIInv ==
  ASSUME NEW v \in Value
  PROVE  IInv /\ InsertOnNewPage(v) => IInv'
<1>. SUFFICES ASSUME IInv, InsertOnNewPage(v) PROVE IInv'
  OBVIOUS
<1>. DEFINE p == num_pages
            slot == FirstOf(Slots \ {})
<1>1. /\ p \in Pages /\ p \notin Allocated /\ num_pages' = p + 1
      /\ Allocated' = Allocated \cup {p}
      /\ Allocated \subseteq Pages
  BY MaxPagesAssumption DEF IInv, TypeOK, InsertOnNewPage, Pages, Allocated, RM_FIRST_RECORD_PAGE
<1>2. /\ slot \in Slots
      /\ Cardinality({slot}) = 1
  <2>1. {} # Slots
    BY RecordsPerPageAssumption DEF Slots
  <2>. QED  BY <2>1, SetFirstClear, FS_EmptySet
<1>3. /\ bitmap' = [bitmap EXCEPT ![p] = {slot}]
      /\ num_records' = [num_records EXCEPT ![p] = 1]
      /\ next_free' = [next_free EXCEPT ![p] = RM_NO_PAGE]
      /\ first_free' = IF 1 = NumRecordsPerPage THEN RM_NO_PAGE ELSE p
      /\ slots' = [slots EXCEPT ![p][slot] = v]
      /\ UNCHANGED <<is_open, disk_hdr>>
      /\ is_open
  BY DEF InsertOnNewPage, PutRecord
<1>. HIDE DEF slot
<1>4. TypeOK'
  <2>1. num_pages' \in 1..(MaxPages + 1) /\ 1 \in 0..NumRecordsPerPage
    BY <1>1, MaxPagesAssumption, RecordsPerPageAssumption DEF Pages, RM_FIRST_RECORD_PAGE
  <2>. QED  BY <1>1, <1>2, <1>3, <2>1 DEF IInv, TypeOK
<1>5. CountMatchesBitmap'
  BY <1>1, <1>2, <1>3 DEF IInv, TypeOK, CountMatchesBitmap
<1>6. Unallocated' /\ HeaderSaved'
  BY <1>1, <1>3 DEF IInv, TypeOK, Unallocated, HeaderSaved
<1>7. Written'
  BY <1>1, <1>2, <1>3 DEF IInv, TypeOK, Written
<1>8. Room' = IF 1 = NumRecordsPerPage THEN {} ELSE {p}
  <2>1. \A q \in Allocated : Full(q)
    BY EmptyListNoRoom DEF InsertOnNewPage, Room
  <2>2. \A q \in Allocated : Full(q)'
    BY <1>1, <1>3, <2>1 DEF IInv, TypeOK, Full
  <2>3. num_records'[p] = 1
    BY <1>1, <1>3 DEF IInv, TypeOK
  <2>4. \A q \in Allocated' : Full(q)' <=> q # p \/ 1 = NumRecordsPerPage
    BY <1>1, <2>2, <2>3 DEF Full
  <2>. QED  BY <1>1, <2>4 DEF Room
<1>9. ListOK'
  <2>1. CASE 1 = NumRecordsPerPage
    BY <1>3, <1>8, <2>1 DEF ListOK, ListInRoom, ListLinear, ListComplete
  <2>2. CASE 1 # NumRecordsPerPage
    <3>1. first_free' = p /\ Room' = {p} /\ next_free'[p] = RM_NO_PAGE /\ p # RM_NO_PAGE
      BY <1>1, <1>3, <1>8, <2>2 DEF IInv, TypeOK, Pages, RM_NO_PAGE, RM_FIRST_RECORD_PAGE
    <3>2. ListInRoom' /\ ListLinear'
      BY <3>1 DEF ListInRoom, ListLinear
    <3>3. ListComplete'
      BY <3>1 DEF ListComplete, Closed
    <3>. QED  BY <3>2, <3>3 DEF ListOK
  <2>. QED  BY <2>1, <2>2
<1>. QED  BY <1>4, <1>5, <1>6, <1>7, <1>9 DEF IInv, ListOK

LEMMA InsertOnFreePageIInv ==
  ASSUME NEW v \in Value
  PROVE  IInv /\ InsertOnFreePage(v) => IInv'
<1>. SUFFICES ASSUME IInv, InsertOnFreePage(v) PROVE IInv'
  OBVIOUS
<1>. DEFINE p == first_free
            B == bitmap[p]
            slot == FirstOf(Slots \ B)
            fills == num_records[p] + 1 = NumRecordsPerPage
<1>1. /\ p \in Room /\ p \in Pages /\ p \in Allocated
      /\ B \in SUBSET Slots /\ B # Slots
      /\ num_records[p] = Cardinality(B)
      /\ num_records[p] \in 0..NumRecordsPerPage
      /\ num_records[p] # NumRecordsPerPage
  <2>1. p \in Room
    BY DEF IInv, ListInRoom, InsertOnFreePage
  <2>2. p \in Pages
    BY <2>1, RoomInPages DEF IInv
  <2>. QED  BY <2>1, <2>2, RoomBitmap DEF IInv, TypeOK, Room, Full
<1>2. /\ slot \in Slots \ B
      /\ B \cup {slot} \in SUBSET Slots
      /\ Cardinality(B \cup {slot}) = num_records[p] + 1
  BY <1>1, SetFirstClear
<1>3. /\ bitmap' = [bitmap EXCEPT ![p] = B \cup {slot}]
      /\ num_records' = [num_records EXCEPT ![p] = num_records[p] + 1]
      /\ next_free' = next_free
      /\ first_free' = IF fills THEN next_free[p] ELSE p
      /\ slots' = [slots EXCEPT ![p][slot] = v]
      /\ UNCHANGED <<is_open, disk_hdr, num_pages>>
      /\ is_open
  BY <1>1 DEF InsertOnFreePage, PutRecord, IInv, TypeOK
<1>. HIDE DEF slot, B
<1>4. TypeOK'
  <2>1. num_records[p] + 1 \in 0..NumRecordsPerPage
    BY <1>1, RecordsPerPageAssumption
  <2>. QED  BY <1>1, <1>2, <1>3, <2>1 DEF IInv, TypeOK
<1>5. CountMatchesBitmap'
  BY <1>1, <1>2, <1>3 DEF IInv, TypeOK, CountMatchesBitmap
<1>6. Unallocated' /\ HeaderSaved' /\ Allocated' = Allocated
  BY <1>1, <1>3 DEF IInv, TypeOK, Unallocated, HeaderSaved, Allocated
<1>7. Written'
  BY <1>1, <1>2, <1>3 DEF IInv, TypeOK, Written, B
<1>8. Room' = IF fills THEN Room \ {p} ELSE Room
  <2>1. \A q \in Allocated : Full(q)' <=> IF q = p THEN fills ELSE Full(q)
    BY <1>1, <1>3, RoomInPages DEF IInv, TypeOK, Full
  <2>. QED  BY <1>1, <1>6, <2>1 DEF Room
<1>. HIDE DEF fills
<1>9. ListOK'
  <2>1. CASE ~fills
    BY <1>3, <1>8, <2>1 DEF IInv, ListOK, ListInRoom, ListLinear, ListComplete, Closed
  <2>2. CASE fills
    <3>1. first_free' = next_free[p] /\ Room' = Room \ {p} /\ next_free' = next_free
      BY <1>3, <1>8, <2>2
    <3>2. \A q \in Room : next_free[q] # p
      BY DEF IInv, ListLinear
    <3>3. ListInRoom'
      BY <1>1, <3>1, <3>2 DEF IInv, ListInRoom
    <3>4. ListLinear'
      BY <1>1, <3>1 DEF IInv, ListLinear
    <3>5. ASSUME NEW S \in SUBSET (Room \ {p}), Closed(S)'
          PROVE  S = Room \ {p}
      <4>1. Closed(S \cup {p})
        BY <3>1, <3>5 DEF Closed
      <4>2. S \cup {p} = Room
        BY <1>1, <4>1 DEF IInv, ListComplete
      <4>. QED  BY <4>2
    <3>6. ListComplete'
      BY <3>1, <3>5 DEF ListComplete
    <3>. QED  BY <3>3, <3>4, <3>6 DEF ListOK
  <2>. QED  BY <2>1, <2>2
<1>. QED  BY <1>4, <1>5, <1>6, <1>7, <1>9 DEF IInv, ListOK

LEMMA DeleteRecordIInv ==
  ASSUME NEW r \in RID
  PROVE  IInv /\ DeleteRecord(r) => IInv'
<1>. SUFFICES ASSUME IInv, DeleteRecord(r) PROVE IInv'
  OBVIOUS
<1>. DEFINE p == r[1]
            B == bitmap[p]
<1>1. /\ p \in Pages /\ p \in Allocated
      /\ B \in SUBSET Slots /\ r[2] \in B
      /\ num_records[p] = Cardinality(B)
  BY FS_EmptySet DEF IInv, TypeOK, Unallocated, CountMatchesBitmap, DeleteRecord, IsRecord, RID
<1>2. /\ B \ {r[2]} \in SUBSET Slots
      /\ Cardinality(B \ {r[2]}) = num_records[p] - 1
      /\ num_records[p] \in 1..NumRecordsPerPage
  BY <1>1, ClearBit
<1>3. /\ bitmap' = [bitmap EXCEPT ![p] = B \ {r[2]}]
      /\ num_records' = [num_records EXCEPT ![p] = num_records[p] - 1]
      /\ next_free' = IF Full(p) THEN [next_free EXCEPT ![p] = first_free] ELSE next_free
      /\ first_free' = IF Full(p) THEN p ELSE first_free
      /\ UNCHANGED <<is_open, disk_hdr, num_pages, slots>>
      /\ is_open
  BY <1>1 DEF DeleteRecord, IInv, TypeOK
<1>. HIDE DEF B, p
<1>4. TypeOK'
  <2>1. num_records[p] - 1 \in 0..NumRecordsPerPage
    BY <1>2, RecordsPerPageAssumption
  <2>. QED  BY <1>1, <1>2, <1>3, <2>1 DEF IInv, TypeOK
<1>5. CountMatchesBitmap'
  BY <1>1, <1>2, <1>3 DEF IInv, TypeOK, CountMatchesBitmap
<1>6. Unallocated' /\ HeaderSaved' /\ Allocated' = Allocated
  BY <1>1, <1>3 DEF IInv, TypeOK, Unallocated, HeaderSaved, Allocated
<1>7. Written'
  BY <1>1, <1>3 DEF IInv, TypeOK, Written, B
<1>8. Room' = Room \cup {p}
  <2>1. \A q \in Allocated : Full(q)' <=> q # p /\ Full(q)
    BY <1>1, <1>2, <1>3, RoomInPages, RecordsPerPageAssumption DEF IInv, TypeOK, Full
  <2>. QED  BY <1>1, <1>6, <2>1 DEF Room
<1>9. ListOK'
  <2>1. CASE ~Full(p)
    <3>1. Room' = Room
      BY <1>1, <1>8, <2>1 DEF Room
    <3>. QED
      BY <1>3, <3>1, <2>1 DEF IInv, ListOK, ListInRoom, ListLinear, ListComplete, Closed
  <2>2. CASE Full(p)
    <3>1. /\ first_free' = p /\ p \notin Room /\ p # RM_NO_PAGE
          /\ next_free'[p] = first_free
          /\ \A q \in Room : next_free'[q] = next_free[q]
      BY <1>1, <1>3, <2>2, RoomInPages
         DEF IInv, TypeOK, Room, Pages, RM_NO_PAGE, RM_FIRST_RECORD_PAGE
    <3>2. ListInRoom'
      BY <1>8, <3>1 DEF IInv, ListInRoom
    <3>3. ListLinear'
      BY <1>8, <3>1 DEF IInv, ListInRoom, ListLinear
    <3>4. ASSUME NEW S \in SUBSET (Room \cup {p}), Closed(S)'
          PROVE  S = Room \cup {p}
      <4>1. p \in S
        BY <3>1, <3>4 DEF Closed
      <4>2. Closed(S \ {p})
        BY <3>1, <3>4, <4>1 DEF Closed, IInv, ListInRoom
      <4>3. S \ {p} = Room
        BY <4>2 DEF IInv, ListComplete
      <4>. QED  BY <4>1, <4>3
    <3>5. ListComplete'
      BY <1>8, <3>4 DEF ListComplete
    <3>. QED  BY <3>2, <3>3, <3>5 DEF ListOK
  <2>. QED  BY <2>1, <2>2
<1>. QED  BY <1>4, <1>5, <1>6, <1>7, <1>9 DEF IInv, ListOK

-----------------------------------------------------------------------------
(* The theorems.                                                           *)

LEMMA NextIInv == IInv /\ [Next]_vars => IInv'
<1>. SUFFICES ASSUME IInv, [Next]_vars PROVE IInv'
  OBVIOUS
<1>1. CASE OpenFile
  BY <1>1, OpenFileIInv
<1>2. CASE CloseFile
  BY <1>2, CloseFileIInv
<1>3. CASE \E v \in Value : InsertOnNewPage(v)
  BY <1>3, InsertOnNewPageIInv
<1>4. CASE \E v \in Value : InsertOnFreePage(v)
  BY <1>4, InsertOnFreePageIInv
<1>5. CASE \E r \in RID : DeleteRecord(r)
  BY <1>5, DeleteRecordIInv
<1>6. CASE \E r \in RID, v \in Value : UpdateRecord(r, v)
  BY <1>6, UpdateRecordIInv
<1>7. CASE UNCHANGED vars
  <2>1. UNCHANGED <<is_open, num_pages, first_free, disk_hdr, next_free, num_records, bitmap, slots>>
    BY <1>7 DEF vars, header, pages
  <2>2. ListOK'
    BY <2>1, ListUnchanged DEF IInv, ListOK
  <2>3. TypeOK'
    BY <2>1 DEF IInv, TypeOK
  <2>4. CountMatchesBitmap' /\ Unallocated' /\ HeaderSaved' /\ Written'
    BY <2>1 DEF IInv, CountMatchesBitmap, Unallocated, HeaderSaved, Written, Allocated
  <2>. QED  BY <2>2, <2>3, <2>4 DEF IInv, ListOK
<1>. QED
  BY <1>1, <1>2, <1>3, <1>4, <1>5, <1>6, <1>7 DEF Next

\* The inductive invariant holds throughout.
THEOREM Invariance == Spec => []IInv
BY InitIInv, NextIInv, PTL DEF Spec

\* The types: in particular no insert sets a bit beyond the bitmap.
THEOREM TypeCorrect == Spec => []TypeOK
<1>1. IInv => TypeOK
  BY DEF IInv
<1>. QED  BY <1>1, Invariance, PTL

\* num_records in every page header is the number of bits set in its bitmap.
THEOREM CountsCorrect == Spec => []CountMatchesBitmap
<1>1. IInv => CountMatchesBitmap
  BY DEF IInv
<1>. QED  BY <1>1, Invariance, PTL

\* The assertion of insert_record never fails: the page it takes has a free slot.
THEOREM InsertFindsSlot == Spec => []HeadHasRoom
<1>1. IInv => HeadHasRoom
  <2>. SUFFICES ASSUME IInv, first_free # RM_NO_PAGE
                PROVE  first_free \in Allocated /\ bitmap[first_free] # Slots
    BY DEF HeadHasRoom
  <2>1. first_free \in Room /\ first_free \in Pages
    BY RoomInPages DEF IInv, ListInRoom
  <2>. QED  BY <2>1, RoomBitmap DEF IInv
<1>. QED  BY <1>1, Invariance, PTL

\* The free list is exactly the pages with room: delete_record never loses a
\* page, insert_record never leaves a full one behind.
THEOREM NoPageLost == Spec => []FreeListExact
<1>1. IInv => FreeListExact
  <2>. SUFFICES ASSUME IInv PROVE FreeListExact
    OBVIOUS
  <2>1. ASSUME NEW p \in Pages, OnFreeList(p) PROVE p \in Room
    <3>1. Room \in SUBSET Pages /\ Closed(Room)
      BY RoomInPages DEF IInv, ListInRoom, Closed
    <3>. QED  BY <2>1, <3>1 DEF OnFreeList, Closed
  <2>2. ASSUME NEW p \in Room, NEW S \in SUBSET Pages, Closed(S) PROVE p \in S
    <3>1. Closed(S \cap Room)
      BY <2>2 DEF IInv, ListInRoom, Closed
    <3>2. S \cap Room = Room
      BY <3>1 DEF IInv, ListComplete
    <3>. QED  BY <3>2
  <2>3. ASSUME NEW p \in Room PROVE OnFreeList(p)
    BY <2>2 DEF OnFreeList, Closed
  <2>4. \A p, q \in Room : next_free[p] = next_free[q] => p = q
    BY DEF IInv, ListLinear
  <2>. QED  BY <2>1, <2>3, <2>4, RoomInPages DEF FreeListExact, IInv
<1>. QED  BY <1>1, Invariance, PTL

-----------------------------------------------------------------------------
(* The file implements the record store.                                   *)

\* What the callers see of a place depends on its bit and its slot only.
LEMMA RecsAt ==
  \A r \in RID : Recs[r] = IF r[2] \in bitmap[r[1]] THEN slots[r[1]][r[2]] ELSE NoRecord
BY DEF Recs, IsRecord, GetRecord

LEMMA RecsUnchanged == UNCHANGED pages => UNCHANGED Recs
BY DEF Recs, IsRecord, GetRecord, pages

\* Whatever page it takes, insert_record adds a record where none was.
LEMMA InsertRefines ==
  ASSUME NEW p \in Pages, NEW B \in SUBSET Slots, NEW s \in Slots \ B, NEW v \in Value,
         IInv, bitmap[p] = B,
         bitmap' = [bitmap EXCEPT ![p] = B \cup {s}],
         slots' = [slots EXCEPT ![p][s] = v]
  PROVE  Store!Insert(v)
<1>. DEFINE r == <<p, s>>
<1>1. r \in RID /\ Recs[r] = NoRecord
  BY RecsAt DEF RID
<1>2. ASSUME NEW q \in RID
      PROVE  Recs'[q] = IF q = r THEN v ELSE Recs[q]
  <2>1. q[1] \in Pages /\ q[2] \in Slots /\ q = <<q[1], q[2]>>
    BY DEF RID
  <2>2. Recs'[q] = IF q[2] \in bitmap'[q[1]] THEN slots'[q[1]][q[2]] ELSE NoRecord
    BY DEF Recs, IsRecord, GetRecord
  <2>3. CASE q = r
    BY <2>2, <2>3 DEF IInv, TypeOK
  <2>4. CASE q # r
    BY <2>1, <2>2, <2>4, RecsAt DEF IInv, TypeOK
  <2>. QED  BY <2>3, <2>4
<1>3. Recs' = [Recs EXCEPT ![r] = v]
  BY <1>1, <1>2 DEF Recs
<1>. QED  BY <1>1, <1>3 DEF Store!Insert

LEMMA DeleteRefines ==
  ASSUME NEW r \in RID, IInv, DeleteRecord(r)
  PROVE  Store!Delete(r)
<1>1. /\ bitmap' = [bitmap EXCEPT ![r[1]] = @ \ {r[2]}]
      /\ slots' = slots
      /\ r[2] \in bitmap[r[1]]
  BY DEF DeleteRecord, IsRecord
<1>2. Recs[r] # NoRecord
  BY <1>1, RecsAt, RecordAssumption DEF IInv, Written, RID
<1>3. ASSUME NEW q \in RID
      PROVE  Recs'[q] = IF q = r THEN NoRecord ELSE Recs[q]
  <2>1. q[1] \in Pages /\ q[2] \in Slots /\ q = <<q[1], q[2]>> /\ r = <<r[1], r[2]>> /\ r[1] \in Pages
    BY DEF RID
  <2>2. Recs'[q] = IF q[2] \in bitmap'[q[1]] THEN slots'[q[1]][q[2]] ELSE NoRecord
    BY DEF Recs, IsRecord, GetRecord
  <2>3. CASE q = r
    BY <1>1, <2>1, <2>2, <2>3 DEF IInv, TypeOK
  <2>4. CASE q # r
    BY <1>1, <2>1, <2>2, <2>4, RecsAt DEF IInv, TypeOK
  <2>. QED  BY <2>3, <2>4
<1>4. Recs' = [Recs EXCEPT ![r] = NoRecord]
  BY <1>3 DEF Recs
<1>. QED  BY <1>2, <1>4 DEF Store!Delete

LEMMA UpdateRefines ==
  ASSUME NEW r \in RID, NEW v \in Value, IInv, UpdateRecord(r, v)
  PROVE  Store!Update(r, v)
<1>1. /\ slots' = [slots EXCEPT ![r[1]][r[2]] = v]
      /\ bitmap' = bitmap
      /\ r[2] \in bitmap[r[1]]
  BY DEF UpdateRecord, IsRecord
<1>2. Recs[r] # NoRecord
  BY <1>1, RecsAt, RecordAssumption DEF IInv, Written, RID
<1>3. ASSUME NEW q \in RID
      PROVE  Recs'[q] = IF q = r THEN v ELSE Recs[q]
  <2>1. /\ q[1] \in Pages /\ q[2] \in Slots /\ q = <<q[1], q[2]>>
        /\ r = <<r[1], r[2]>> /\ r[1] \in Pages /\ r[2] \in Slots
    BY DEF RID
  <2>2. Recs'[q] = IF q[2] \in bitmap'[q[1]] THEN slots'[q[1]][q[2]] ELSE NoRecord
    BY DEF Recs, IsRecord, GetRecord
  <2>3. CASE q = r
    BY <1>1, <2>1, <2>2, <2>3 DEF IInv, TypeOK
  <2>4. CASE q # r
    BY <1>1, <2>1, <2>2, <2>4, RecsAt DEF IInv, TypeOK
  <2>. QED  BY <2>3, <2>4
<1>4. Recs' = [Recs EXCEPT ![r] = v]
  BY <1>3 DEF Recs
<1>. QED  BY <1>2, <1>4 DEF Store!Update

LEMMA NextRefines == IInv /\ [Next]_vars => [Store!Next]_Recs
<1>. SUFFICES ASSUME IInv, [Next]_vars PROVE Store!Next \/ UNCHANGED Recs
  OBVIOUS
<1>1. CASE OpenFile \/ CloseFile \/ UNCHANGED vars
  <2>1. UNCHANGED pages
    BY <1>1 DEF OpenFile, CloseFile, vars
  <2>. QED  BY <2>1, RecsUnchanged
<1>2. ASSUME NEW v \in Value, InsertOnNewPage(v)
      PROVE  Store!Next
  <2>1. num_pages \in Pages /\ bitmap[num_pages] = {}
    BY <1>2 DEF IInv, TypeOK, Unallocated, InsertOnNewPage, Pages, Allocated, RM_FIRST_RECORD_PAGE
  <2>2. FirstOf(Slots \ {}) \in Slots \ {}
    <3>1. {} # Slots
      BY RecordsPerPageAssumption DEF Slots
    <3>. QED  BY <3>1, SetFirstClear
  <2>3. Store!Insert(v)
    BY <1>2, <2>1, <2>2, InsertRefines DEF InsertOnNewPage, PutRecord
  <2>. QED  BY <2>3 DEF Store!Next
<1>3. ASSUME NEW v \in Value, InsertOnFreePage(v)
      PROVE  Store!Next
  <2>1. first_free \in Pages /\ bitmap[first_free] \in SUBSET Slots /\ bitmap[first_free] # Slots
    BY <1>3, RoomBitmap, RoomInPages DEF IInv, ListInRoom, InsertOnFreePage
  <2>2. FirstOf(Slots \ bitmap[first_free]) \in Slots \ bitmap[first_free]
    BY <2>1, SetFirstClear
  <2>3. Store!Insert(v)
    BY <1>3, <2>1, <2>2, InsertRefines DEF InsertOnFreePage, PutRecord
  <2>. QED  BY <2>3 DEF Store!Next
<1>4. CASE \E r \in RID : DeleteRecord(r)
  BY <1>4, DeleteRefines DEF Store!Next
<1>5. CASE \E r \in RID, v \in Value : UpdateRecord(r, v)
  BY <1>5, UpdateRefines DEF Store!Next
<1>. QED  BY <1>1, <1>2, <1>3, <1>4, <1>5 DEF Next

\* The record file implements the record store: no insert lands on a live
\* record, and a record stays what it is until it is updated or deleted.
THEOREM ImplementsStore == Spec => Implements
<1>1. Init => Store!Init
  BY DEF Init, Store!Init, Recs, IsRecord, GetRecord, RID
<1>. QED
  BY <1>1, Invariance, NextRefines, PTL DEF Spec, Implements, Store!Spec

-----------------------------------------------------------------------------
(* The scan.                                                               *)

\* The places behind the iterator, in the order of the scan.
Behind(r) == r[1] < rid[1] \/ (r[1] = rid[1] /\ r[2] <= rid[2])

\* What the scan returned is behind it.
SeenBehind == scan # "idle" => \A r \in seen : Behind(r)

\* What is to be found is there.
StableLive == stable \subseteq Live

ScanInv ==
  /\ IInv
  /\ ScanTypeOK
  /\ SeenBehind
  /\ StableLive
  /\ ScanComplete

-----------------------------------------------------------------------------
\* A round of next() finds the first set bit after the place it has come to, or
\* there is none.
LEMMA SearchFinds ==
  ASSUME NEW S \in SUBSET Slots
  PROVE  \/ S = {} /\ FirstOf(S) = NumRecordsPerPage
         \/ /\ FirstOf(S) \in S
            /\ FirstOf(S) < NumRecordsPerPage
            /\ \A s \in S : FirstOf(S) <= s
<1>1. \A s \in Slots : s \in Nat /\ s < NumRecordsPerPage
  BY RecordsPerPageAssumption DEF Slots
<1>2. CASE S = {}
  BY <1>2 DEF FirstOf
<1>3. CASE S # {}
  <2>1. S \in SUBSET Nat
    BY <1>1
  <2>2. FirstOf(S) \in S /\ \A s \in S : FirstOf(S) <= s
    BY <1>3, <2>1, FirstOfFinds
  <2>. QED  BY <1>1, <2>2
<1>. QED  BY <1>2, <1>3

LEMMA ScanInitInv == ScanInit => ScanInv
<1>. SUFFICES ASSUME ScanInit PROVE ScanInv
  OBVIOUS
<1>1. IInv
  BY InitIInv DEF ScanInit
<1>2. ScanTypeOK
  BY <1>1, RecordsPerPageAssumption DEF IInv, ScanTypeOK, ScanInit, RM_NO_PAGE
<1>. QED
  BY <1>1, <1>2 DEF ScanInv, SeenBehind, StableLive, ScanComplete, ScanInit

\* While the file stays open it does not shrink.
LEMMA NeverShrinks ==
  ASSUME IInv, Next, is_open
  PROVE  num_pages' \in Nat /\ num_pages <= num_pages'
<1>1. num_pages \in Nat
  BY DEF IInv, TypeOK
<1>2. num_pages' = num_pages \/ num_pages' = num_pages + 1
  <2>1. CASE CloseFile
    BY <2>1 DEF CloseFile
  <2>2. CASE \E v \in Value : InsertOnNewPage(v) \/ InsertOnFreePage(v)
    BY <2>2 DEF InsertOnNewPage, InsertOnFreePage
  <2>3. CASE \E r \in RID : DeleteRecord(r) \/ \E v \in Value : UpdateRecord(r, v)
    BY <2>3 DEF DeleteRecord, UpdateRecord, header
  <2>. QED  BY <2>1, <2>2, <2>3 DEF Next, OpenFile
<1>. QED
  BY <1>1, <1>2

LEMMA FileStepInv == ScanInv /\ FileStep => ScanInv'
<1>. SUFFICES ASSUME ScanInv, FileStep PROVE ScanInv'
  OBVIOUS
<1>1. /\ Next
      /\ scan = "idle" \/ is_open'
      /\ stable' = {r \in stable : r[2] \in bitmap'[r[1]]}
      /\ scan' = scan /\ rid' = rid /\ seen' = seen
  BY DEF FileStep
<1>2. IInv'
  BY <1>1, NextIInv DEF ScanInv
<1>3. ScanTypeOK'
  <2>1. scan' # "idle" => is_open' /\ rid'[1] \in 1..num_pages'
    <3>. SUFFICES ASSUME scan # "idle" PROVE is_open' /\ rid[1] \in 1..num_pages'
      BY <1>1
    <3>1. is_open /\ is_open' /\ rid[1] \in 1..num_pages /\ num_pages \in Nat
      BY <1>1 DEF ScanInv, ScanTypeOK, IInv, TypeOK
    <3>2. num_pages' \in Nat /\ num_pages <= num_pages'
      BY <1>1, <3>1, NeverShrinks DEF ScanInv
    <3>. QED  BY <3>1, <3>2
  <2>. QED  BY <1>1, <1>2, <2>1 DEF ScanInv, ScanTypeOK, IInv
<1>4. SeenBehind'
  BY <1>1 DEF ScanInv, SeenBehind, Behind
<1>5. StableLive'
  BY <1>1 DEF ScanInv, ScanTypeOK, StableLive, Live, IsRecord
<1>6. ScanComplete'
  BY <1>1 DEF ScanInv, ScanComplete, Passed
<1>. QED  BY <1>2, <1>3, <1>4, <1>5, <1>6 DEF ScanInv

\* The rounds of the iterator leave the file alone.
LEMMA FileUntouched ==
  ASSUME IInv, UNCHANGED vars
  PROVE  IInv' /\ TypeOK' /\ Live' = Live
<1>1. IInv'
  BY NextIInv
<1>. QED  BY <1>1 DEF IInv, Live, IsRecord, vars, pages

LEMMA ScanStartInv == ScanInv /\ ScanStart => ScanInv'
<1>. SUFFICES ASSUME ScanInv, ScanStart PROVE ScanInv'
  OBVIOUS
<1>1. /\ is_open /\ is_open' = is_open /\ num_pages' = num_pages
      /\ scan' = "searching" /\ rid' = <<1, -1>> /\ seen' = {} /\ stable' = Live
  BY DEF ScanStart, vars, header, RM_FIRST_RECORD_PAGE
<1>2. IInv' /\ TypeOK' /\ Live' = Live
  BY FileUntouched DEF ScanInv, ScanStart
<1>3. ScanTypeOK'
  BY <1>1, <1>2, RecordsPerPageAssumption DEF ScanTypeOK, TypeOK, Live
<1>4. ScanComplete'
  <2>. SUFFICES ASSUME NEW r \in Live PROVE ~(Passed(r)')
    BY <1>1 DEF ScanComplete
  <2>1. r[1] \in Nat \ {0} /\ r[2] \in Nat
    BY MaxPagesAssumption, RecordsPerPageAssumption
       DEF Live, RID, Pages, Slots, RM_FIRST_RECORD_PAGE
  <2>. QED  BY <1>1, <2>1 DEF Passed
<1>. QED  BY <1>1, <1>2, <1>3, <1>4 DEF ScanInv, SeenBehind, StableLive

LEMMA ScanNextInv == ScanInv /\ ScanNext => ScanInv'
<1>. SUFFICES ASSUME ScanInv, ScanNext PROVE ScanInv'
  OBVIOUS
<1>1. /\ is_open' = is_open /\ num_pages' = num_pages /\ scan = "at"
      /\ scan' = "searching" /\ rid' = rid /\ seen' = seen /\ stable' = stable
  BY DEF ScanNext, vars, header
<1>2. IInv' /\ TypeOK' /\ Live' = Live
  BY FileUntouched DEF ScanInv, ScanNext
<1>. QED
  BY <1>1, <1>2 DEF ScanInv, ScanTypeOK, SeenBehind, Behind, StableLive, ScanComplete, Passed

LEMMA ScanPageInv == ScanInv /\ ScanPage => ScanInv'
<1>. SUFFICES ASSUME ScanInv, ScanPage PROVE ScanInv'
  OBVIOUS
<1>. DEFINE p == rid[1]
            S == {s \in bitmap[p] : s > rid[2]}
            slot == FirstOf(S)
<1>1. /\ UNCHANGED <<vars, stable>> /\ scan = "searching" /\ p < num_pages
      /\ IF slot < NumRecordsPerPage
         THEN scan' = "at" /\ rid' = <<p, slot>> /\ seen' = seen \cup {<<p, slot>>}
         ELSE rid' = <<p + 1, -1>> /\ UNCHANGED <<scan, seen>>
  BY DEF ScanPage
<1>2. IInv' /\ TypeOK' /\ Live' = Live
  BY <1>1, FileUntouched DEF ScanInv
<1>3. /\ is_open /\ is_open' = is_open /\ num_pages' = num_pages
      /\ num_pages \in Nat /\ num_pages <= MaxPages + 1
      /\ p \in Nat \ {0} /\ rid[2] \in Int /\ p \in Pages
      /\ bitmap[p] \in SUBSET Slots
  BY <1>1, MaxPagesAssumption
     DEF ScanInv, ScanTypeOK, IInv, TypeOK, vars, header, Pages, RM_FIRST_RECORD_PAGE
<1>4. \/ S = {} /\ slot = NumRecordsPerPage
      \/ slot \in S /\ slot < NumRecordsPerPage /\ \A s \in S : slot <= s
  <2>1. S \in SUBSET Slots
    BY <1>3
  <2>. QED  BY <2>1, SearchFinds
<1>5. stable' = stable /\ stable \subseteq Live
  BY <1>1 DEF ScanInv, StableLive
<1>6. ASSUME NEW r \in stable
      PROVE  r[1] \in Nat /\ r[2] \in Nat /\ r = <<r[1], r[2]>> /\ r[2] \in bitmap[r[1]]
  BY <1>5, MaxPagesAssumption, RecordsPerPageAssumption
     DEF Live, RID, IsRecord, Pages, Slots, RM_FIRST_RECORD_PAGE
<1>7. ASSUME NEW r \in stable, Behind(r)
      PROVE  r \in seen
  BY <1>7, <1>1 DEF ScanInv, ScanComplete, Passed, Behind
<1>8. ASSUME NEW r \in seen
      PROVE  r[1] \in Nat /\ r[2] \in Nat /\ Behind(r)
  BY <1>1, MaxPagesAssumption, RecordsPerPageAssumption
     DEF ScanInv, ScanTypeOK, SeenBehind, RID, Pages, Slots, RM_FIRST_RECORD_PAGE
<1>. HIDE DEF slot, S, p
<1>9. CASE slot \in S /\ slot < NumRecordsPerPage
  <2>1. scan' = "at" /\ rid' = <<p, slot>> /\ seen' = seen \cup {<<p, slot>>}
    BY <1>1, <1>9
  <2>2. slot \in bitmap[p] /\ slot > rid[2] /\ slot \in Slots /\ slot \in Nat
    BY <1>3, <1>9, RecordsPerPageAssumption DEF S, Slots
  <2>3. ScanTypeOK'
    BY <1>1, <1>2, <1>3, <1>5, <2>1, <2>2 DEF ScanInv, ScanTypeOK, RID, Slots
  <2>4. SeenBehind'
    BY <1>3, <1>8, <2>1, <2>2 DEF SeenBehind, Behind, p
  <2>5. ScanComplete'
    <3>. SUFFICES ASSUME NEW r \in stable, Passed(r)' PROVE r \in seen'
      BY <1>5 DEF ScanComplete
    <3>1. CASE Behind(r)
      BY <1>7, <2>1, <3>1
    <3>2. CASE ~Behind(r)
      <4>1. r[1] = p /\ r[2] > rid[2] /\ r[2] <= slot
        BY <1>3, <1>6, <2>1, <2>2, <3>2 DEF Passed, Behind, p
      <4>2. r[2] \in S
        BY <1>6, <4>1 DEF S
      <4>3. r[2] = slot
        BY <1>4, <1>6, <1>9, <2>2, <4>1, <4>2
      <4>. QED  BY <1>6, <2>1, <4>1, <4>3
    <3>. QED  BY <3>1, <3>2
  <2>. QED  BY <1>2, <1>5, <2>3, <2>4, <2>5 DEF ScanInv, StableLive
<1>10. CASE S = {} /\ slot = NumRecordsPerPage
  <2>1. scan' = scan /\ rid' = <<p + 1, -1>> /\ seen' = seen
    BY <1>1, <1>10, RecordsPerPageAssumption
  <2>2. ScanTypeOK'
    BY <1>1, <1>2, <1>3, <1>5, <2>1, RecordsPerPageAssumption DEF ScanInv, ScanTypeOK
  <2>3. SeenBehind'
    BY <1>3, <1>8, <2>1 DEF SeenBehind, Behind, p
  <2>4. ScanComplete'
    <3>. SUFFICES ASSUME NEW r \in stable, Passed(r)' PROVE r \in seen'
      BY <1>5 DEF ScanComplete
    <3>1. r[1] < p \/ r[1] = p
      BY <1>1, <1>3, <1>6, <2>1 DEF Passed
    <3>2. r[1] = p => r[2] <= rid[2]
      BY <1>3, <1>6, <1>10 DEF S
    <3>3. Behind(r)
      BY <3>1, <3>2 DEF Behind, p
    <3>. QED  BY <1>7, <2>1, <3>3
  <2>. QED  BY <1>2, <1>5, <2>2, <2>3, <2>4 DEF ScanInv, StableLive
<1>. QED  BY <1>4, <1>9, <1>10

LEMMA ScanEndInv == ScanInv /\ ScanEnd => ScanInv'
<1>. SUFFICES ASSUME ScanInv, ScanEnd PROVE ScanInv'
  OBVIOUS
<1>1. /\ rid[1] >= num_pages /\ scan = "searching"
      /\ scan' = "idle" /\ rid' = <<RM_NO_PAGE, rid[2]>> /\ seen' = seen /\ stable' = stable
  BY DEF ScanEnd
<1>2. IInv' /\ TypeOK' /\ Live' = Live
  BY FileUntouched DEF ScanInv, ScanEnd
<1>3. rid[1] \in Int /\ num_pages \in Int /\ rid[2] \in -1 .. NumRecordsPerPage - 1
  BY DEF ScanInv, ScanTypeOK, TypeOK
<1>4. ScanTypeOK'
  BY <1>1, <1>2, <1>3 DEF ScanInv, ScanTypeOK, RM_NO_PAGE
<1>5. ScanComplete'
  <2>. SUFFICES ASSUME NEW r \in stable PROVE r \in seen
    BY <1>1 DEF ScanComplete
  <2>1. r[1] \in Pages /\ r[2] \in bitmap[r[1]]
    BY DEF ScanInv, StableLive, Live, RID, IsRecord
  <2>2. r[1] \in Allocated
    BY <2>1 DEF ScanInv, IInv, Unallocated
  <2>3. r[1] < rid[1]
    BY <1>1, <1>3, <2>2 DEF Allocated, RM_FIRST_RECORD_PAGE
  <2>. QED  BY <2>3 DEF ScanInv, ScanComplete, Passed
<1>. QED  BY <1>1, <1>2, <1>4, <1>5 DEF ScanInv, SeenBehind, StableLive

LEMMA ScanNextStepInv == ScanInv /\ [ScanningNext]_scanVars => ScanInv'
<1>. SUFFICES ASSUME ScanInv, [ScanningNext]_scanVars PROVE ScanInv'
  OBVIOUS
<1>1. CASE ScanningNext
  BY <1>1, FileStepInv, ScanStartInv, ScanNextInv, ScanPageInv, ScanEndInv DEF ScanningNext
<1>2. CASE UNCHANGED scanVars
  <2>1. IInv' /\ TypeOK' /\ Live' = Live
    BY <1>2, FileUntouched DEF ScanInv, scanVars
  <2>2. UNCHANGED <<is_open, num_pages, scan, rid, seen, stable>>
    BY <1>2 DEF scanVars, vars, header
  <2>. QED
    BY <2>1, <2>2 DEF ScanInv, ScanTypeOK, SeenBehind, Behind, StableLive, ScanComplete, Passed
<1>. QED  BY <1>1, <1>2

LEMMA ScanInvariance == ScanningSpec => []ScanInv
BY ScanInitInv, ScanNextStepInv, PTL DEF ScanningSpec

-----------------------------------------------------------------------------
\* The types: a scan stays inside the file it reads, although the file grows
\* under it.
THEOREM ScanTypeCorrect == ScanningSpec => []ScanTypeOK
<1>1. ScanInv => ScanTypeOK
  BY DEF ScanInv
<1>. QED  BY <1>1, ScanInvariance, PTL

\* No record that stays in the file is missed, whatever the others do between
\* two rounds of next().
THEOREM ScanMissesNothing == ScanningSpec => []ScanComplete
<1>1. ScanInv => ScanComplete
  BY DEF ScanInv
<1>. QED  BY <1>1, ScanInvariance, PTL

\* No place is returned twice in one scan.
THEOREM ScanReturnsOnce == ScanningSpec => ScanNoRepeat
<1>1. ASSUME ScanInv, [ScanningNext]_scanVars
      PROVE  [scan = "searching" /\ scan' = "at" => rid' \notin seen]_scanVars
  <2>. SUFFICES ASSUME scan = "searching", scan' = "at"
                PROVE  rid' \notin seen
    OBVIOUS
  <2>1. ScanPage
    BY <1>1 DEF ScanningNext, FileStep, ScanStart, ScanNext, ScanEnd, scanVars
  <2>. DEFINE slot == FirstOf({s \in bitmap[rid[1]] : s > rid[2]})
  <2>2. rid' = <<rid[1], slot>> /\ slot < NumRecordsPerPage /\ rid[1] < num_pages
    BY <2>1 DEF ScanPage
  <2>3. rid[1] \in Nat /\ rid[1] \in Pages /\ rid[2] \in Int /\ bitmap[rid[1]] \in SUBSET Slots
    BY <1>1, <2>2, MaxPagesAssumption
       DEF ScanInv, ScanTypeOK, IInv, TypeOK, Pages, RM_FIRST_RECORD_PAGE
  <2>4. slot \in Int /\ slot > rid[2]
    <3>. DEFINE S == {s \in bitmap[rid[1]] : s > rid[2]}
    <3>1. S \in SUBSET Slots
      BY <2>3
    <3>2. FirstOf(S) \in S
      <4>. HIDE DEF S
      <4>. QED  BY <2>2, <3>1, SearchFinds, RecordsPerPageAssumption DEF S
    <3>. QED  BY <2>3, <3>2, RecordsPerPageAssumption DEF Slots
  <2>. HIDE DEF slot
  <2>5. ~(rid'[1] < rid[1]) /\ ~(rid'[1] = rid[1] /\ rid'[2] <= rid[2])
    BY <2>2, <2>3, <2>4
  <2>. QED  BY <1>1, <2>5 DEF ScanInv, SeenBehind, Behind
<1>. QED  BY <1>1, ScanInvariance, PTL DEF ScanningSpec, ScanNoRepeat
=============================================================================
