---------------------------- MODULE RecordStore ----------------------------
(***************************************************************************)
(* What a record file promises: a record goes to a place no live record    *)
(* has, keeps that place, and changes only when it is updated or deleted.  *)
(***************************************************************************)
CONSTANTS
  RID,          \* the places a record can have
  Value,        \* contents of a record
  NoRecord      \* "no record here"

VARIABLE recs   \* recs[r]: the record at r, or NoRecord

Init == recs = [r \in RID |-> NoRecord]

Insert(v) ==
  \E r \in RID : recs[r] = NoRecord /\ recs' = [recs EXCEPT ![r] = v]

Delete(r) ==
  recs[r] # NoRecord /\ recs' = [recs EXCEPT ![r] = NoRecord]

Update(r, v) ==
  recs[r] # NoRecord /\ recs' = [recs EXCEPT ![r] = v]

Next ==
  \/ \E v \in Value : Insert(v)
  \/ \E r \in RID : Delete(r) \/ \E v \in Value : Update(r, v)

Spec == Init /\ [][Next]_recs
=============================================================================
