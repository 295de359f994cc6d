--------------------------- MODULE MCRecordFile ---------------------------
(* A record file and its scans for TLC.  A behaviour is one of two kinds: the file *)
(* grows to MaxPages pages with any values and there is no scan, or there are      *)
(* scans, and the file grows to ScanPages pages and all records have one value.    *)
EXTENDS RecordScan, TLC

CONSTANTS
  ScanPages,    \* bound: the pages of a file that is scanned
  NoScans

VARIABLE only   \* the value of all records, or NoScans

MCInit == ScanInit /\ only \in Value \cup {NoScans}

MCNext ==
  /\ ScanningNext
  /\ only = NoScans => scan' = "idle"
  /\ only # NoScans =>
       /\ num_pages' <= ScanPages + 1
       /\ \A r \in RID : slots'[r[1]][r[2]] \in {only, Junk}
  /\ UNCHANGED only

MCSpec == MCInit /\ [][MCNext]_<<scanVars, only>>

Symmetry == Permutations(Value)
=============================================================================
