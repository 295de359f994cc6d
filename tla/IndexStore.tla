----------------------------- MODULE IndexStore -----------------------------
(***************************************************************************)
(* What an index promises: it holds the entries that were inserted and not *)
(* deleted since.  An operation takes effect in its first step; what it    *)
(* does to the pages after that changes no entry.                          *)
(***************************************************************************)
CONSTANT Entry        \* an entry: a key and the record that has it

VARIABLES
  entries,            \* the entries in the index
  busy                \* an operation that has taken effect goes on

vars == <<entries, busy>>

Init == entries = {} /\ busy = FALSE

Insert(e) ==
  /\ ~busy /\ e \notin entries
  /\ entries' = entries \cup {e}
  /\ busy' \in BOOLEAN

Delete(e) ==
  /\ ~busy /\ e \in entries
  /\ entries' = entries \ {e}
  /\ busy' \in BOOLEAN

Return == busy /\ busy' = FALSE /\ UNCHANGED entries

Next == Return \/ \E e \in Entry : Insert(e) \/ Delete(e)

Spec == Init /\ [][Next]_vars
=============================================================================
