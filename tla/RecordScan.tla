---------------------------- MODULE RecordScan ----------------------------
(***************************************************************************)
(* A scan of a record file (RM_Iterator) while others insert into, delete  *)
(* from and update the file.  The iterator keeps a place, never a page:    *)
(* next() fetches a page in every round of its loop, and nothing locks the *)
(* file between two rounds or between two calls, so any operation of       *)
(* RecordFile can come in between.                                         *)
(***************************************************************************)
EXTENDS RecordFile

VARIABLES
  scan,         \* "idle", "searching" inside next(), or "at" a record
  rid,          \* _rid: the place the iterator has come to
  seen,         \* history: the places the scan has returned
  stable        \* history: the records in the file ever since the scan began

scanVars == <<vars, scan, rid, seen, stable>>

ScanInit ==
  /\ Init
  /\ scan = "idle"
  /\ rid = <<RM_NO_PAGE, -1>>
  /\ seen = {}
  /\ stable = {}

\* An operation on the file; it is not closed under a scan.
FileStep ==
  /\ Next
  /\ scan = "idle" \/ is_open'
  /\ stable' = {r \in stable : r[2] \in bitmap'[r[1]]}
  /\ UNCHANGED <<scan, rid, seen>>

\* The constructor.
ScanStart ==
  /\ is_open
  /\ scan = "idle"
  /\ scan' = "searching"
  /\ rid' = <<RM_FIRST_RECORD_PAGE, -1>>
  /\ seen' = {}
  /\ stable' = Live
  /\ UNCHANGED vars

\* The caller moves on from the record it is at.
ScanNext ==
  /\ scan = "at"
  /\ scan' = "searching"
  /\ UNCHANGED <<vars, rid, seen, stable>>

\* Slip: _rid.slot_no is not reset when the loop goes on to the next page.
ScanPageKeepsSlot ==
  LET p == rid[1]
      slot == FirstOf({s \in bitmap[p] : s > rid[2]})
  IN
  /\ scan = "searching"
  /\ p < num_pages
  /\ IF slot < NumRecordsPerPage
     THEN scan' = "at" /\ rid' = <<p, slot>> /\ seen' = seen \cup {<<p, slot>>}
     ELSE rid' = <<p + 1, rid[2]>> /\ UNCHANGED <<scan, seen>>
  /\ UNCHANGED <<vars, stable>>

\* Slip: the search starts at the current slot, not after it.
ScanPageFromCurrent ==
  LET p == rid[1]
      slot == FirstOf({s \in bitmap[p] : s >= rid[2]})
  IN
  /\ scan = "searching"
  /\ p < num_pages
  /\ IF slot < NumRecordsPerPage
     THEN scan' = "at" /\ rid' = <<p, slot>> /\ seen' = seen \cup {<<p, slot>>}
     ELSE rid' = <<p + 1, -1>> /\ UNCHANGED <<scan, seen>>
  /\ UNCHANGED <<vars, stable>>

\* Slip: the loop runs one page too far.
ScanPageTooFar ==
  LET p == rid[1]
      slot == FirstOf({s \in bitmap[p] : s > rid[2]})
  IN
  /\ scan = "searching"
  /\ p <= num_pages /\ p \in Pages
  /\ IF slot < NumRecordsPerPage
     THEN scan' = "at" /\ rid' = <<p, slot>> /\ seen' = seen \cup {<<p, slot>>}
     ELSE rid' = <<p + 1, -1>> /\ UNCHANGED <<scan, seen>>
  /\ UNCHANGED <<vars, stable>>

\* One round of the loop of next(): the rest of one page.
ScanPage ==
  LET p == rid[1]
      slot == FirstOf({s \in bitmap[p] : s > rid[2]})
  IN
  /\ scan = "searching"
  /\ p < num_pages
  /\ IF slot < NumRecordsPerPage
     THEN scan' = "at" /\ rid' = <<p, slot>> /\ seen' = seen \cup {<<p, slot>>}
     ELSE rid' = <<p + 1, -1>> /\ UNCHANGED <<scan, seen>>
  /\ UNCHANGED <<vars, stable>>

\* The loop of next() ends: the iterator is at its end.
ScanEnd ==
  /\ scan = "searching"
  /\ rid[1] >= num_pages
  /\ scan' = "idle"
  /\ rid' = <<RM_NO_PAGE, rid[2]>>
  /\ UNCHANGED <<vars, seen, stable>>

ScanningNext == FileStep \/ ScanStart \/ ScanNext \/ ScanPage \/ ScanEnd

ScanningSpec == ScanInit /\ [][ScanningNext]_scanVars

-----------------------------------------------------------------------------
(* Properties.                                                             *)

\* The types; the iterator is inside the file while a scan runs.
ScanTypeOK ==
  /\ TypeOK
  /\ scan \in {"idle", "searching", "at"}
  /\ rid \in Int \X (-1 .. NumRecordsPerPage - 1)
  /\ scan # "idle" => is_open /\ rid[1] \in 1..num_pages
  /\ seen \subseteq RID
  /\ stable \subseteq RID

\* The iterator has gone past the place r.
Passed(r) ==
  \/ scan = "idle"
  \/ r[1] < rid[1]
  \/ r[1] = rid[1] /\ r[2] <= rid[2]

\* A scan misses no record that was in the file all the time, whatever is
\* inserted, deleted and updated between its steps.
ScanComplete == \A r \in stable : Passed(r) => r \in seen

\* A scan returns no place twice, not even one deleted and filled again.
ScanNoRepeat ==
  [][scan = "searching" /\ scan' = "at" => rid' \notin seen]_scanVars
=============================================================================
