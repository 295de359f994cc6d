----------------------------- MODULE Statements -----------------------------
(***************************************************************************)
(* INSERT, DELETE, UPDATE and SELECT (QL_Manager and the nodes of a query  *)
(* plan), over record files and indexes that keep what RecordFile and      *)
(* BTree promise.  Every call of a record file or of an index is a step,   *)
(* and so is every row the plan comes to.  A statement works on tables     *)
(* that nobody else uses meanwhile, as nothing in the code locks them.     *)
(*                                                                         *)
(* The plan is a chain of tables: each is scanned anew for every row that  *)
(* the ones before it stand at, whose values are fed into its conditions.  *)
(* Where the code goes through record ids or columns in order, one at a    *)
(* time, here they come in any order; the values of a row that are copied  *)
(* into a result are left out, the records they come from are not.         *)
(***************************************************************************)
EXTENDS Integers, Sequences, FiniteSets, SequencesExt

CONSTANTS
  Cols,         \* the names of the columns of every table, in order
  Indexed,      \* the columns, <<table, name>>, that have an index
  Room,         \* bound: the record ids of every table
  Value,        \* the values a column may have
  Misfit,       \* a literal of another type, or a string longer than the column
  Statement,    \* the statements there may be: see TableStore
  NoStatement,
  Unqualified   \* the table of a column that is named without one

Tables == DOMAIN Cols
Rids == UNION {Room[t] : t \in Tables}

CompOp == {"OP_EQ", "OP_NE", "OP_LT", "OP_GT", "OP_LE", "OP_GE"}
TabCol == ({Unqualified} \cup STRING) \X STRING
Literal == Value \cup {Misfit}

\* A condition compares the column lhs with a literal or with a column.
Condition(is_rhs_val) ==
  [lhs : TabCol, op : CompOp, is_rhs_val : {is_rhs_val},
   rhs : IF is_rhs_val THEN Literal ELSE TabCol]

ASSUME ColsAssumption == \A t \in Tables : Cols[t] \in Seq(STRING)
ASSUME IndexedAssumption ==
  Indexed \subseteq UNION {{<<t, c>> : c \in ToSet(Cols[t])} : t \in Tables}
ASSUME RoomAssumption == \A t \in Tables : Room[t] \subseteq Nat \ {0} /\ IsFiniteSet(Room[t])
ASSUME ValueAssumption == Value \subseteq Int /\ Misfit \notin Value
ASSUME UnqualifiedAssumption == Unqualified \notin Tables
ASSUME StatementAssumption ==
  /\ NoStatement \notin Statement
  /\ \A s \in Statement :
       /\ s.kind \in {"insert", "delete", "update", "select"}
       /\ s.from \in Seq(STRING) /\ s.from # << >> /\ IsInjective(s.from)
       /\ s.kind # "select" => Len(s.from) = 1
       /\ s.row \in Seq(Literal)
       /\ s.sets \in Seq(STRING \X Literal)
       /\ DOMAIN s.conds \subseteq Nat
       /\ \A d \in ToSet(s.conds) : d.is_rhs_val \in BOOLEAN /\ d \in Condition(d.is_rhs_val)

VARIABLES
  recs,         \* the record file of every table: its rows by record id
  idx,          \* every index: its entries <<value, record id>>
  stmt,         \* the statement in progress
  pc,           \* what it does next
  cursor,       \* for every table of the plan that has been begun, the record ids
                \* its scan has still to come to; the first is where it stands
  out,          \* the combinations of record ids the plan has come to
  todo,         \* the record ids still to delete or to update
  rid,          \* the one being inserted, deleted or updated
  left          \* the columns whose index that one has still to leave or to enter

vars == <<recs, idx, stmt, pc, cursor, out, todo, rid, left>>
files == <<recs, idx>>
plan == <<cursor, out>>
work == <<todo, rid, left>>

NoRid == 0

-----------------------------------------------------------------------------
(* Names and conditions.                                                   *)

\* The tables, by their place in FROM, that have a column of this name.
Owners(from, name) == {i \in DOMAIN from : name \in ToSet(Cols[from[i]])}

\* check_column: what it throws for, and the column it returns otherwise.
BadColumn(from, col) ==
  IF col[1] = Unqualified THEN Cardinality(Owners(from, col[2])) # 1
  ELSE ~(col[1] \in Tables /\ col[2] \in ToSet(Cols[col[1]]))

CheckColumn(from, col) ==
  IF col[1] = Unqualified THEN <<from[CHOOSE i \in Owners(from, col[2]) : TRUE], col[2]>> ELSE col

BadCondition(from, d) ==
  \/ BadColumn(from, d.lhs)
  \/ IF d.is_rhs_val THEN d.rhs = Misfit ELSE BadColumn(from, d.rhs)

\* check_where_clause, of conditions that are not refused.
CheckWhereClause(from, conds) ==
  [j \in DOMAIN conds |->
     [conds[j] EXCEPT !.lhs = CheckColumn(from, @),
                      !.rhs = IF conds[j].is_rhs_val THEN @ ELSE CheckColumn(from, @)]]

\* What a statement throws for before it changes or scans anything: a table that is
\* not there, a number of values that is not that of the columns, types that differ;
\* a selected column on no table of FROM is found out by the constructor of QlNodeProj.
Refused(s) ==
  \/ ~(ToSet(s.from) \subseteq Tables)
  \/ s.kind = "insert" /\ (Len(s.row) # Len(Cols[s.from[1]]) \/ Misfit \in ToSet(s.row))
  \/ \E j \in DOMAIN s.conds : BadCondition(s.from, s.conds[j])
  \/ \E j \in DOMAIN s.sets : s.sets[j][1] \notin ToSet(Cols[s.from[1]]) \/ s.sets[j][2] = Misfit
  \/ \E j \in DOMAIN s.sel :
       BadColumn(s.from, s.sel[j]) \/ CheckColumn(s.from, s.sel[j])[1] \notin ToSet(s.from)

\* The test of pop_conds: all the columns of the condition are in these tables.
Within(d, tables) == d.lhs[1] \in tables /\ (d.is_rhs_val \/ d.rhs[1] \in tables)

\* pop_conds: the places in WHERE of the conditions given to the i-th table, those
\* that the tables up to it have the columns for and the tables before it had not.
PopConds(from, conds, i) ==
  LET upto(k) == {from[l] : l \in 1 .. k}
  IN {j \in DOMAIN conds : Within(conds[j], upto(i)) /\ ~Within(conds[j], upto(i - 1))}

SwapOp(op) ==
  CASE op = "OP_LT" -> "OP_GT"
    [] op = "OP_GT" -> "OP_LT"
    [] op = "OP_LE" -> "OP_GE"
    [] op = "OP_GE" -> "OP_LE"
    [] OTHER -> op

\* The constructor of QlNodeTable turns a condition around whose left-hand side is
\* on another table.
OnTable(d, t) ==
  IF d.lhs[1] = t THEN d ELSE [d EXCEPT !.lhs = d.rhs, !.op = SwapOp(@), !.rhs = d.lhs]

\* The row the i-th table stands at.
RowAt(i) == recs[stmt.from[i]][cursor[i][1]]

\* QlNodeTable::feed: a column of another table gives way to its value in the row
\* that table stands at.
Fed(d, t) ==
  IF d.is_rhs_val \/ d.rhs[1] = t THEN d
  ELSE [d EXCEPT !.is_rhs_val = TRUE,
                 !.rhs = RowAt(CHOOSE i \in DOMAIN stmt.from : stmt.from[i] = d.rhs[1])[d.rhs[2]]]

FedConds(i) ==
  LET t == stmt.from[i]
      conds == CheckWhereClause(stmt.from, stmt.conds)
  IN [j \in PopConds(stmt.from, conds, i) |-> Fed(OnTable(conds[j], t), t)]

\* The places in WHERE of the conditions on a table that is not in FROM: pop_conds
\* gives them to no table.
Strays ==
  LET conds == CheckWhereClause(stmt.from, stmt.conds)
  IN {j \in DOMAIN conds : ~Within(conds[j], ToSet(stmt.from))}

\* The first table of FROM; the only one but for a query.
Target == stmt.from[1]

-----------------------------------------------------------------------------
(* Scans.                                                                  *)

Compare(op, v, w) ==
  CASE op = "OP_EQ" -> v = w
    [] op = "OP_NE" -> v # w
    [] op = "OP_LT" -> v < w
    [] op = "OP_GT" -> v > w
    [] op = "OP_LE" -> v <= w
    [] op = "OP_GE" -> v >= w

EvalCond(d, row) == Compare(d.op, row[d.lhs[2]], IF d.is_rhs_val THEN d.rhs ELSE row[d.rhs[2]])

\* Slip: an upper bound of <= is taken for one of <.
BetweenTooShort(t, d) ==
  {e \in idx[<<t, d.lhs[2]>>] : Compare(IF d.op = "OP_LE" THEN "OP_LT" ELSE d.op, e[1], d.rhs)}

\* The entries from lower to upper, as one condition sets these bounds.
Between(t, d) == {e \in idx[<<t, d.lhs[2]>>] : Compare(d.op, e[1], d.rhs)}

\* The conditions that an index can serve; they are tried in order.
Served(t, conds) ==
  {j \in DOMAIN conds :
     conds[j].is_rhs_val /\ conds[j].op # "OP_NE" /\ <<t, conds[j].lhs[2]>> \in Indexed}

\* The record ids QlNodeTable::begin sets out to visit: in an index, only those of
\* the first condition it serves are bounded.
ToVisit(t, conds) ==
  LET served == Served(t, conds)
  IN IF served = {} THEN DOMAIN recs[t] ELSE {e[2] : e \in Between(t, conds[Min(served)])}

\* The loops of QlNodeTable::begin and next pass over the records that fail a
\* condition; begin reads no record again, so they are passed over at once.
Begun(t, conds) ==
  {r \in ToVisit(t, conds) : \A j \in DOMAIN conds : EvalCond(conds[j], recs[t][r])}

\* The record ids a scan comes to, in the order of the index it uses or of the file.
Scans(t, conds) ==
  LET found == Begun(t, conds)
      served == Served(t, conds)
      key(r) == IF served = {} THEN 0 ELSE recs[t][r][conds[Min(served)].lhs[2]]
  IN {rids \in [1 .. Cardinality(found) -> found] :
        /\ ToSet(rids) = found
        /\ \A m, n \in DOMAIN rids :
             m < n => \/ key(rids[m]) < key(rids[n])
                      \/ key(rids[m]) = key(rids[n]) /\ rids[m] < rids[n]}

\* delete_from and update_set give all their conditions to QlNodeTable, where a column
\* of another table is missed as soon as its condition is looked at: by begin, when no
\* condition before it is served by an index, or for a row that passes those before it.
ColumnMissing ==
  LET conds == FedConds(1) IN
  \E j \in Strays :
    \/ /\ stmt.conds[j].is_rhs_val /\ stmt.conds[j].op # "OP_NE"
       /\ \A k \in Served(Target, conds) : j < k
    \/ \E r \in ToVisit(Target, conds) :
         \A k \in DOMAIN conds : k < j => EvalCond(conds[k], recs[Target][r])

-----------------------------------------------------------------------------
Init ==
  /\ recs = [t \in Tables |-> << >>]
  /\ idx = [i \in Indexed |-> {}]
  /\ stmt = NoStatement
  /\ pc = "idle"
  /\ cursor = << >> /\ out = << >>
  /\ todo = {} /\ rid = NoRid /\ left = {}

\* The bound: no statement is begun that would not have a record id.
Fits(s) == s.kind = "insert" /\ ~Refused(s) => Room[s.from[1]] # DOMAIN recs[s.from[1]]

\* Slip: insert_into looks at the types of its values only while it puts the record.
StartUnchecked(s) ==
  /\ pc = "idle" /\ Fits(s)
  /\ stmt' = s
  /\ pc' = IF s.kind = "insert" /\ ~Refused([s EXCEPT !.row = [i \in DOMAIN @ |-> 0]]) THEN "put"
           ELSE IF Refused(s) THEN "done" ELSE "scan"
  /\ UNCHANGED <<files, plan, work>>

\* A statement is checked before anything else is done.
Start(s) ==
  /\ pc = "idle" /\ Fits(s)
  /\ stmt' = s
  /\ pc' = IF Refused(s) THEN "done" ELSE IF s.kind = "insert" THEN "put" ELSE "scan"
  /\ UNCHANGED <<files, plan, work>>

\* The next table of the plan is begun for the rows the others stand at.
BeginTable ==
  /\ pc = "scan"
  /\ Len(cursor) < Len(stmt.from)
  /\ cursor # << >> => Last(cursor) # << >>
  /\ stmt.kind = "select" \/ ~ColumnMissing
  /\ \E conds \in {FedConds(Len(cursor) + 1)} :
       \E rids \in Scans(stmt.from[Len(cursor) + 1], conds) : cursor' = Append(cursor, rids)
  /\ UNCHANGED <<files, stmt, pc, out, work>>

\* QlNodeTable throws in the middle of the scan, of which nothing is left.
ColumnNotFound ==
  /\ pc = "scan" /\ cursor = << >>
  /\ stmt.kind # "select" /\ ColumnMissing
  /\ pc' = "done"
  /\ UNCHANGED <<files, stmt, plan, work>>

\* The last table of those that have been begun goes on to its next row.
Advanced(cs) == [cs EXCEPT ![Len(cs)] = Tail(@)]

\* Slip: the row is taken and the scan stays where it is.
TakeRowAndStay ==
  /\ pc = "scan"
  /\ Len(cursor) = Len(stmt.from) /\ Last(cursor) # << >>
  /\ UNCHANGED vars

\* All the tables stand at a row: the combination goes to the result.
TakeRow ==
  /\ pc = "scan"
  /\ Len(cursor) = Len(stmt.from) /\ Last(cursor) # << >>
  /\ out' = Append(out, [i \in DOMAIN cursor |-> cursor[i][1]])
  /\ cursor' = Advanced(cursor)
  /\ UNCHANGED <<files, stmt, pc, work>>

\* QlNodeJoin: the right side has come to its end, and the left side goes on.
BackUp ==
  /\ pc = "scan"
  /\ Len(cursor) > 1 /\ Last(cursor) = << >>
  /\ cursor' = Advanced(Front(cursor))
  /\ UNCHANGED <<files, stmt, pc, out, work>>

PlanEnded == pc = "scan" /\ cursor = <<(<< >>)>>

\* The plan of a delete or an update has but one table.
Matched == {c[1] : c \in ToSet(out)}

EndScan ==
  /\ PlanEnded
  /\ IF stmt.kind = "select"
     THEN pc' = "done" /\ UNCHANGED todo
     ELSE pc' = "round" /\ todo' = Matched
  /\ UNCHANGED <<files, stmt, plan, rid, left>>

-----------------------------------------------------------------------------
(* Changes.                                                                *)

\* Slip: it is not asked whether the column has an index.
TouchedWithoutIndex ==
  {c \in ToSet(Cols[Target]) :
     stmt.kind = "update" => \E j \in DOMAIN stmt.sets : stmt.sets[j][1] = c}

\* The columns whose index the statement has to change.
Touched ==
  {c \in ToSet(Cols[Target]) :
     /\ <<Target, c>> \in Indexed
     /\ stmt.kind = "update" => \E j \in DOMAIN stmt.sets : stmt.sets[j][1] = c}

\* The record of the values of an insert, which come in the order of the columns.
RecordOf(t, values) ==
  [c \in ToSet(Cols[t]) |-> values[CHOOSE i \in DOMAIN Cols[t] : Cols[t][i] = c]]

\* insert_into: the record is put, then its entries.
PutRecord ==
  /\ pc = "put"
  /\ \E r \in Room[Target] \ DOMAIN recs[Target] :
       /\ recs' = [recs EXCEPT ![Target] =
                     [q \in DOMAIN @ \cup {r} |-> IF q = r THEN RecordOf(Target, stmt.row) ELSE @[q]]]
       /\ rid' = r
  /\ left' = Touched
  /\ pc' = "index"
  /\ UNCHANGED <<idx, stmt, plan, todo>>

\* delete_from and update_set: the next record is read.
NextRecord ==
  /\ pc = "round"
  /\ \E r \in todo : rid' = r /\ todo' = todo \ {r}
  /\ left' = Touched
  /\ pc' = "unindex"
  /\ UNCHANGED <<files, stmt, plan>>

EntryOf(c) == <<recs[Target][rid][c], rid>>

\* A row after the set clauses, each of which overwrites its column.
Assigned(row) == FoldLeft(LAMBDA r, set : [r EXCEPT ![set[1]] = set[2]], row, stmt.sets)

\* Slip: the record is written before its entries are dropped, and they are then
\* looked for under the new value.
DropEntryOfNewValue ==
  /\ pc = "unindex"
  /\ \E c \in left :
       /\ idx' = [idx EXCEPT ![<<Target, c>>] =
                    @ \ {IF stmt.kind = "update" THEN <<Assigned(recs[Target][rid])[c], rid>>
                         ELSE EntryOf(c)}]
       /\ left' = left \ {c}
  /\ UNCHANGED <<recs, stmt, pc, plan, todo, rid>>

\* delete_entry of one index, for the value that was read.
DropEntry ==
  /\ pc = "unindex"
  /\ \E c \in left :
       /\ idx' = [idx EXCEPT ![<<Target, c>>] = @ \ {EntryOf(c)}]
       /\ left' = left \ {c}
  /\ UNCHANGED <<recs, stmt, pc, plan, todo, rid>>

\* delete_from goes on to the next record.
Unindexed ==
  /\ pc = "unindex" /\ left = {} /\ stmt.kind = "delete"
  /\ pc' = "round"
  /\ rid' = NoRid
  /\ UNCHANGED <<files, stmt, plan, todo, left>>

\* update_set writes the record it has read, with the new values.
WriteRecord ==
  /\ pc = "unindex" /\ left = {} /\ stmt.kind = "update"
  /\ recs' = [recs EXCEPT ![Target][rid] = Assigned(@)]
  /\ left' = Touched
  /\ pc' = "index"
  /\ UNCHANGED <<idx, stmt, plan, todo, rid>>

\* insert_entry into one index.
PutEntry ==
  /\ pc = "index"
  /\ \E c \in left :
       /\ idx' = [idx EXCEPT ![<<Target, c>>] = @ \cup {EntryOf(c)}]
       /\ left' = left \ {c}
  /\ UNCHANGED <<recs, stmt, pc, plan, todo, rid>>

IndexedAll ==
  /\ pc = "index" /\ left = {}
  /\ pc' = IF stmt.kind = "insert" THEN "done" ELSE "round"
  /\ rid' = NoRid
  /\ UNCHANGED <<files, stmt, plan, todo, left>>

\* delete_from deletes the records when all the entries are gone.
EndRounds ==
  /\ pc = "round" /\ todo = {}
  /\ IF stmt.kind = "delete"
     THEN pc' = "erase" /\ todo' = Matched
     ELSE pc' = "done" /\ UNCHANGED todo
  /\ UNCHANGED <<files, stmt, plan, rid, left>>

EraseRecord ==
  /\ pc = "erase"
  /\ \E r \in todo :
       /\ recs' = [recs EXCEPT ![Target] = [q \in DOMAIN @ \ {r} |-> @[q]]]
       /\ todo' = todo \ {r}
  /\ UNCHANGED <<idx, stmt, pc, plan, rid, left>>

\* The result, or the exception, goes to the caller.
Return ==
  /\ pc = "done" \/ (pc = "erase" /\ todo = {})
  /\ pc' = "idle"
  /\ stmt' = NoStatement
  /\ cursor' = << >> /\ out' = << >>
  /\ UNCHANGED <<files, work>>

-----------------------------------------------------------------------------
Step ==
  \/ BeginTable \/ ColumnNotFound \/ TakeRow \/ BackUp \/ EndScan
  \/ PutRecord \/ PutEntry \/ IndexedAll
  \/ NextRecord \/ DropEntry \/ Unindexed \/ WriteRecord
  \/ EndRounds \/ EraseRecord \/ Return

Next == Step \/ \E s \in Statement : Start(s)

Spec == Init /\ [][Next]_vars

\* A statement runs in one call, which goes on to its end.
FairSpec == Spec /\ WF_vars(Step)

-----------------------------------------------------------------------------
(* Properties.                                                             *)

TypeOK ==
  /\ \A t \in Tables : \E D \in SUBSET Room[t] : recs[t] \in [D -> [ToSet(Cols[t]) -> Value]]
  /\ \A i \in Indexed : idx[i] \subseteq Value \X Room[i[1]]
  /\ DOMAIN recs = Tables /\ DOMAIN idx = Indexed
  /\ stmt \in Statement \cup {NoStatement}
  /\ (pc = "idle") = (stmt = NoStatement)
  /\ pc \in {"idle", "put", "scan", "round", "unindex", "index", "erase", "done"}
  /\ \A i \in DOMAIN cursor : cursor[i] \in Seq(Room[stmt.from[i]])
  /\ \A j \in DOMAIN out :
       Len(out[j]) = Len(stmt.from) /\ \A i \in DOMAIN out[j] : out[j][i] \in Room[stmt.from[i]]
  /\ todo \subseteq Rids /\ rid \in Rids \cup {NoRid}
  /\ \A c \in left : <<Target, c>> \in Indexed

\* The records of table t that have no entry for column c just now.
Missing(t, c) ==
  IF t # Target THEN {}
  ELSE CASE pc = "index" -> IF c \in left THEN {rid} ELSE {}
         [] pc = "unindex" ->
              (IF c \in Touched \ left THEN {rid} ELSE {})
              \cup (IF stmt.kind = "delete" THEN Matched \ (todo \cup {rid}) ELSE {})
         [] pc = "round" /\ stmt.kind = "delete" -> Matched \ todo
         [] pc = "erase" -> todo
         [] OTHER -> {}

\* What lets a scan use an index instead of the file: every index holds, for every
\* record, an entry with the value the record has, and no other, except for the
\* records whose entries the statement in progress has dropped or has yet to put.
EntriesExact ==
  \A i \in Indexed :
    idx[i] = {<<recs[i[1]][r][i[2]], r>> :
                r \in DOMAIN recs[i[1]] \ (IF pc = "idle" THEN {} ELSE Missing(i[1], i[2]))}

\* Every table as it will be when the changes the statement has set out to make
\* are all made.
Settled(t) ==
  IF pc \in {"round", "unindex", "index", "erase"} /\ t = Target
  THEN CASE stmt.kind = "delete" -> [r \in DOMAIN recs[t] \ Matched |-> recs[t][r]]
         [] stmt.kind = "update" ->
              [r \in DOMAIN recs[t] |->
                 IF r \in Matched THEN Assigned(recs[t][r]) ELSE recs[t][r]]
         [] OTHER -> recs[t]
  ELSE recs[t]

Store == INSTANCE TableStore WITH
  rows <- [t \in Tables |-> Settled(t)],
  doing <- IF pc \in {"put", "scan"} \/ (pc = "done" /\ Refused(stmt)) THEN stmt ELSE NoStatement

\* The statements implement those of TableStore: an update does not meet again the
\* rows it has changed, a delete leaves none, and one that is refused changes none.
Implements == Store!Spec

\* README.md of query_language: the plan comes to every combination of rows that
\* satisfies all the conditions, once and to no other, whichever indexes it uses.
ResultExact ==
  PlanEnded => /\ IsInjective(out)
               /\ ToSet(out) = Store!Answer(stmt.from, stmt.conds)

\* The assertion of select_from, ql_manager.cpp:256: when the plan is built every
\* condition has been given to a table of it.
CondsPopped == pc = "scan" /\ stmt.kind = "select" => Strays = {}

\* A statement comes to its end.
StatementsEnd == (pc # "idle") ~> (pc = "idle")
=============================================================================
