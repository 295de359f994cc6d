----------------------------- MODULE TableStore -----------------------------
(***************************************************************************)
(* What the statements of one client promise: each is refused and changes  *)
(* nothing, or takes effect as a whole, on exactly the rows that satisfy   *)
(* its conditions.                                                         *)
(*                                                                         *)
(* A statement is a record: its kind, the tables it is about, the          *)
(* conditions of its WHERE clause, the values to insert and the columns to *)
(* set.  A condition compares the column lhs with a literal or a column;   *)
(* a column is a pair of a table, or Unqualified, and a name.              *)
(***************************************************************************)
EXTENDS Integers, Sequences, SequencesExt

CONSTANTS
  Cols,         \* the names of the columns of every table, in order
  Room,         \* bound: the record ids of every table
  Value,        \* the values a column may have
  Statement,    \* the statements there may be
  NoStatement,
  Unqualified   \* the table of a column that is named without one

VARIABLES
  rows,         \* the rows of every table, by record id
  doing         \* the statement begun that has not taken effect

vars == <<rows, doing>>

Tables == DOMAIN Cols

\* The row of the values to insert, which come in the order of the columns.
RecordOf(t, values) ==
  [c \in ToSet(Cols[t]) |-> values[CHOOSE i \in DOMAIN Cols[t] : Cols[t][i] = c]]

\* The comparison a condition makes.
Compare(op, v, w) ==
  \/ op = "OP_EQ" /\ v = w
  \/ op = "OP_NE" /\ v # w
  \/ op = "OP_LT" /\ v < w
  \/ op = "OP_GT" /\ v > w
  \/ op = "OP_LE" /\ v <= w
  \/ op = "OP_GE" /\ v >= w

\* A table of the statement has this column.
Known(col, from) ==
  \E j \in DOMAIN from :
    /\ col[1] \in {Unqualified, from[j]}
    /\ col[2] \in ToSet(Cols[from[j]])

\* What a column stands for when table from[i] is at row rs[i].
Meaning(col, from, rs) ==
  LET i == CHOOSE j \in DOMAIN from :
             /\ col[1] \in {Unqualified, from[j]}
             /\ col[2] \in ToSet(Cols[from[j]])
  IN rs[i][col[2]]

\* No rows satisfy a condition on a table that the statement is not about.
Satisfies(d, from, rs) ==
  /\ Known(d.lhs, from)
  /\ d.is_rhs_val \/ Known(d.rhs, from)
  /\ Compare(d.op, Meaning(d.lhs, from, rs),
             IF d.is_rhs_val THEN d.rhs ELSE Meaning(d.rhs, from, rs))

\* The record ids, one of each table, of the combinations that a query asks for.
Answer(from, conds) ==
  {rids \in [DOMAIN from -> UNION {DOMAIN rows[t] : t \in ToSet(from)}] :
     /\ \A i \in DOMAIN from : rids[i] \in DOMAIN rows[from[i]]
     /\ \A j \in DOMAIN conds :
          Satisfies(conds[j], from, [i \in DOMAIN from |-> rows[from[i]][rids[i]]])}

Matching(s) == {rids[1] : rids \in Answer(s.from, s.conds)}

\* A row after the set clauses, the last for a column being the one that counts.
Assigned(row, sets) == FoldLeft(LAMBDA r, set : [r EXCEPT ![set[1]] = set[2]], row, sets)

-----------------------------------------------------------------------------
Init ==
  /\ rows = [t \in Tables |-> << >>]
  /\ doing = NoStatement

Begin ==
  /\ doing = NoStatement
  /\ doing' \in Statement
  /\ UNCHANGED rows

\* A statement that is refused, and a query.
Return ==
  /\ doing' = NoStatement
  /\ UNCHANGED rows

\* The statement changes the rows of its table to these.
Effect(new) ==
  /\ rows' = [rows EXCEPT ![doing.from[1]] = new]
  /\ doing' = NoStatement

Insert ==
  /\ doing.kind = "insert"
  /\ LET t == doing.from[1] IN
     /\ Len(doing.row) = Len(Cols[t]) /\ ToSet(doing.row) \subseteq Value
     /\ \E r \in Room[t] \ DOMAIN rows[t] :
          Effect([q \in DOMAIN rows[t] \cup {r} |->
                    IF q = r THEN RecordOf(t, doing.row) ELSE rows[t][q]])

Delete ==
  /\ doing.kind = "delete"
  /\ LET t == doing.from[1] IN
     Effect([r \in DOMAIN rows[t] \ Matching(doing) |-> rows[t][r]])

Update ==
  /\ doing.kind = "update"
  /\ LET t == doing.from[1] IN
     Effect([r \in DOMAIN rows[t] |->
               IF r \in Matching(doing) THEN Assigned(rows[t][r], doing.sets) ELSE rows[t][r]])

Next == Begin \/ (doing # NoStatement /\ (Return \/ Insert \/ Delete \/ Update))

Spec == Init /\ [][Next]_vars
=============================================================================
