---------------------------- MODULE CatalogStore ----------------------------
(***************************************************************************)
(* What the catalog promises: every database keeps the tables and indexes  *)
(* made in it, whatever is opened, closed, created or dropped around it,   *)
(* and only those of the selected database change.                         *)
(***************************************************************************)
CONSTANTS
  Db, Tab, Col,       \* names of databases, tables and columns
  NoDb,               \* no database is selected
  Absent              \* the content of a database that does not exist

VARIABLES
  content,            \* content[d]: table -> column -> "has an index"
  selected            \* the database in use

vars == <<content, selected>>

Init ==
  /\ content = [d \in Db |-> Absent]
  /\ selected = NoDb

CreateDb(d) ==
  /\ content[d] = Absent
  /\ content' = [content EXCEPT ![d] = << >>]
  /\ UNCHANGED selected

DropDb(d) ==
  /\ content[d] # Absent /\ d # selected
  /\ content' = [content EXCEPT ![d] = Absent]
  /\ UNCHANGED selected

Select(d) ==
  /\ selected = NoDb /\ content[d] # Absent
  /\ selected' = d
  /\ UNCHANGED content

Deselect ==
  /\ selected # NoDb
  /\ selected' = NoDb
  /\ UNCHANGED content

Tables == DOMAIN content[selected]

CreateTable(t) ==
  /\ selected # NoDb /\ t \notin Tables
  /\ content' = [content EXCEPT ![selected] = [u \in Tables \cup {t} |->
                                              IF u = t THEN [k \in Col |-> FALSE] ELSE @[u]]]
  /\ UNCHANGED selected

DropTable(t) ==
  /\ selected # NoDb /\ t \in Tables
  /\ content' = [content EXCEPT ![selected] = [u \in Tables \ {t} |-> @[u]]]
  /\ UNCHANGED selected

\* An index is made or dropped.
ToggleIndex(t, k) ==
  /\ selected # NoDb /\ t \in Tables
  /\ content' = [content EXCEPT ![selected][t][k] = ~@]
  /\ UNCHANGED selected

Next ==
  \/ \E d \in Db : CreateDb(d) \/ DropDb(d) \/ Select(d)
  \/ Deselect
  \/ \E t \in Tab : CreateTable(t) \/ DropTable(t) \/ \E k \in Col : ToggleIndex(t, k)

Spec == Init /\ [][Next]_vars
=============================================================================
