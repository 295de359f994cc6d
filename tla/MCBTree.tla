------------------------------ MODULE MCBTree ------------------------------
(* BTree for TLC, in two instances.  At the even order a new index is used    *)
(* without end, with few entries.  At the odd one the index is first loaded   *)
(* until it has three levels, in one of three orders, and then come a few     *)
(* operations of any kind.                                                    *)
EXTENDS BTree

CONSTANTS
  FewEntries,         \* bound: the entries of the index that is not loaded
  NumEntries,         \* bound: the entries there are
  MinLoad,            \* bound: the fewest entries loaded
  Ops                 \* bound: the operations on a loaded tree

VARIABLES
  loading,            \* the entries still to load
  ops                 \* the operations since the loading

mcVars == <<vars, loading, ops>>

\* The records are numbered, and two in a row have the same key, so that there
\* are entries with the same key.
EntryOf(r) == <<(r + 1) \div 2, r>>

MCEntry == {EntryOf(r) : r \in 1 .. NumEntries}

\* Ascending, descending, and every other entry before those in between.
LoadOrders ==
  LET up == [r \in 1 .. NumEntries |-> EntryOf(r)]
      odd(e) == e[2] % 2 = 1
      even(e) == e[2] % 2 = 0
  IN {up, Reverse(up), SelectSeq(up, odd) \o SelectSeq(up, even)}

IsLoaded == hdr.btree_order % 2 = 1

MCInit ==
  /\ Init
  /\ IF IsLoaded THEN loading \in {SubSeq(s, 1, n) : s \in LoadOrders, n \in MinLoad .. NumEntries}
                 ELSE loading = << >>
  /\ ops = 0

Load ==
  /\ loading # << >>
  /\ InsertEntry(Head(loading))
  /\ loading' = Tail(loading)
  /\ UNCHANGED ops

Operate ==
  /\ loading = << >>
  /\ IsLoaded => ops < Ops
  /\ \E e \in Entry :
       /\ IsLoaded \/ e[2] <= FewEntries
       /\ InsertEntry(e) \/ DeleteEntry(e)
  /\ ops' = IF IsLoaded THEN ops + 1 ELSE ops
  /\ UNCHANGED loading

Finished ==
  /\ loading = << >> /\ ops = Ops /\ work = Idle
  /\ UNCHANGED mcVars

MCNext == Load \/ Operate \/ Finished \/ (Rebalance /\ UNCHANGED <<loading, ops>>)

MCSpec == MCInit /\ [][MCNext]_mcVars /\ WF_vars(Rebalance)
=============================================================================
