---------------------------- MODULE MCStatements ----------------------------
(* Statements for TLC: table a has two columns with an index each, table b has *)
(* one without and table c one without; the values are 0 and 1.                *)
EXTENDS Statements

CONSTANTS RoomA, RoomB, RoomC   \* bounds: the rows of each table

MCCols == [a |-> <<"x", "y">>, b |-> <<"x">>, c |-> <<"z">>]
MCIndexed == {<<"a", "x">>, <<"a", "y">>}
MCRoom == [a |-> 1 .. RoomA, b |-> 1 .. RoomB, c |-> 1 .. RoomC]
MCValue == {0, 1}

Ops == {"OP_EQ", "OP_NE", "OP_LT", "OP_GT", "OP_LE", "OP_GE"}

Val(t, name, op, v) == [lhs |-> <<t, name>>, op |-> op, is_rhs_val |-> TRUE, rhs |-> v]
Col(t, name, op, u, name2) ==
  [lhs |-> <<t, name>>, op |-> op, is_rhs_val |-> FALSE, rhs |-> <<u, name2>>]

\* Conditions on table a: one of every kind, and two with and without an index
\* that serves the first or the second.
OnA ==
  {<< >>}
  \cup {<<Val("a", "x", op, v)>> : op \in Ops, v \in MCValue}
  \cup {<<Col("a", "x", op, "a", "y")>> : op \in {"OP_EQ", "OP_GT"}}
  \cup {<<Val("a", "y", "OP_NE", 1), Val(Unqualified, "x", "OP_GE", 1)>>,
        <<Val("a", "x", "OP_GE", 0), Val("a", "x", "OP_LT", 1)>>,
        <<Val("a", "x", "OP_LE", 0), Val("a", "y", "OP_EQ", 1)>>}

RefusedOnA == {<<Val("a", "z", "OP_EQ", 0)>>, <<Val("a", "x", "OP_EQ", Misfit)>>}

\* Conditions of a statement about a that name b: with and without an index that
\* serves one before it, and with one before it that a row may fail.
Stray ==
  {<<Val("b", "x", "OP_EQ", 0)>>,
   <<Val("a", "x", "OP_EQ", 1), Val("b", "x", "OP_EQ", 0)>>,
   <<Val("b", "x", "OP_NE", 0), Val("a", "y", "OP_GT", 0)>>,
   <<Col("a", "x", "OP_GT", "a", "y"), Col("b", "x", "OP_LT", "a", "x")>>}

\* Conditions on a and b, in either order, with names that the code makes out.
OnAB ==
  {<<Col("a", "x", op, "b", "x")>> : op \in Ops}
  \cup {<<Col("b", "x", "OP_LT", Unqualified, "y")>>,
        <<Col("b", "x", "OP_GE", "a", "x"), Val("a", "y", "OP_EQ", 0)>>,
        <<Val("b", "x", "OP_EQ", 1)>>,
        <<Val(Unqualified, "x", "OP_EQ", 0)>>}

\* Conditions on a, b and c: a value is fed to a table that is not the next one.
OnABC ==
  {<<Col("a", "x", "OP_EQ", "c", "z")>>,
   <<Col("c", "z", "OP_LE", "a", "y"), Col("b", "x", "OP_NE", "c", "z")>>}

Stmt(kind, from, conds) ==
  [kind |-> kind, from |-> from, conds |-> conds, row |-> << >>, sets |-> << >>, sel |-> << >>]

Insert(t, values) == [Stmt("insert", <<t>>, << >>) EXCEPT !.row = values]

MCStatement ==
  {Insert("a", <<v, w>>) : v \in MCValue, w \in MCValue \cup {Misfit}}
  \cup {Insert("b", <<v>>) : v \in MCValue}
  \cup {Insert("c", <<v>>) : v \in MCValue}
  \cup {Insert("a", <<0>>), Insert("b", <<0, 0>>), Insert("d", <<0>>)}
  \cup {Stmt("delete", <<"d">>, << >>), Stmt("select", <<"a", "d">>, << >>)}
  \cup {Stmt("delete", <<"a">>, conds) : conds \in Stray}
  \cup {[Stmt("update", <<"a">>, conds) EXCEPT !.sets = << <<"x", 1>> >>] : conds \in Stray}
  \cup {Stmt(kind, <<"a">>, conds) : kind \in {"delete", "select"}, conds \in OnA \cup RefusedOnA}
  \cup {Stmt("delete", <<t>>, << >>) : t \in {"b", "c"}}
  \cup {[Stmt("update", <<"a">>, conds) EXCEPT !.sets = sets] :
          conds \in {<< >>, <<Val("a", "x", "OP_GE", 0)>>, <<Val("a", "y", "OP_EQ", 0)>>,
                     <<Val("a", "x", "OP_EQ", Misfit)>>},
          sets \in {<< <<"x", 1>> >>, << <<"x", 1>>, <<"y", 1>>, <<"x", 0>> >>, << <<"y", Misfit>> >>}}
  \cup {Stmt("select", from, conds) : from \in {<<"a", "b">>, <<"b", "a">>}, conds \in OnAB}
  \cup {Stmt("select", from, conds) :
          from \in {<<"a", "b", "c">>, <<"c", "b", "a">>}, conds \in OnABC}
  \cup {[Stmt("select", <<"a", "b">>, << >>) EXCEPT !.sel = <<col>>] :
          col \in {<<Unqualified, "x">>, <<Unqualified, "y">>, <<"c", "z">>}}

\* The same and, of a query on table b, a condition on a table not in its FROM.
MCStatementAny ==
  MCStatement \cup {Stmt("select", <<"b">>, <<Val("a", "x", "OP_EQ", 0)>>)}
=============================================================================
