----------------------------- MODULE CatalogUse -----------------------------
(***************************************************************************)
(* The catalog as it can be used: what its clients have to agree on, since *)
(* its semaphores do not see to it, and what holds when they do.           *)
(***************************************************************************)
EXTENDS Catalog

CONSTANT Absent      \* no content, as it is seen from outside

ASSUME AbsentAssumption == \A T \in SUBSET Tab : Absent \notin [T -> [Col -> BOOLEAN]]

Busy(c) == ~At(c, "idle")

\* The operations that change what all tables depend on.
Exclusive(op) == op \in {"open_db", "close_db"}

\* A request that client c may make: databases are opened and closed alone, no
\* two clients work on one table or on one database, and a table or a column is
\* named only if it is there, in an open database.
Agreed(c, r) ==
  /\ \A o \in Client \ {c} :
       Busy(o) =>
         /\ ~Exclusive(r.op) /\ ~Exclusive(call[o].op)
         /\ r.tab = NoTab \/ r.tab # call[o].tab
         /\ r.db = NoDb \/ r.db # call[o].db
  /\ r.tab # NoTab => current_db_name # NoDb /\ r.tab \notin TooLong
  /\ r.op \in {"drop_table", "create_index", "drop_index"} => r.tab \in DOMAIN tabs
  /\ r.op \in IndexOps => r.col # NoCol

AgreedNext == \E c \in Client : Step(c) \/ \E r \in Requests : Agreed(c, r) /\ Begin(c, r)

AgreedSpec == Init /\ [][AgreedNext]_vars

FairAgreedSpec == AgreedSpec /\ \A c \in Client : WF_vars(Step(c))

-----------------------------------------------------------------------------
(* Properties.                                                             *)

Labels ==
  DbOps \cup TableOps \cup IndexOps \cup
  {"idle", "write_meta", "register_database", "remove_dir", "unregister_database", "switch",
   "load", "lock_file_handles", "open_all", "close_db", "close_files", "close_indexes", "leave",
   "open_table", "destroy_table", "drop_indexes", "find_table", "fill_index", "store_index",
   "mark_index", "destroy_index", "unmark_index"}

IsCatalog(cat) ==
  /\ DOMAIN cat \subseteq Tab
  /\ \A t \in DOMAIN cat : cat[t] \in [Col -> BOOLEAN] \cup {<< >>}

\* The types; file_handles_sem is taken only while open_db takes the next one.
TypeOK ==
  /\ posted \subseteq Semaphores
  /\ \A s \in Semaphores \ posted : s = file_handles_sem /\ \E c \in Client : At(c, "open_all")
  /\ IsCatalog(tabs)
  /\ current_db_name \in Db \cup {NoDb}
  /\ fhs \subseteq Tab /\ ihs \subseteq Tab \X Col
  /\ cwd \in Dir /\ dirs \subseteq Db /\ db_list \subseteq Db
  /\ DOMAIN open_files \subseteq File /\ \A f \in DOMAIN open_files : open_files[f] \in Dir
  /\ files \in [Dir -> SUBSET File]
  /\ \A d \in Dir : meta[d] = NoMeta \/ IsCatalog(meta[d])
  /\ pc \in [Client -> Labels]
  /\ \A c \in Client : call[c] \in {NoCall} \cup [op : DbOps \cup {"close_db"} \cup TableOps \cup IndexOps,
       db : Db \cup {NoDb}, tab : Tab \cup {NoTab}, col : Col \cup {NoCol}, todo : SUBSET Col]

\* Nobody works on the table t or on all of them.
Settled(t) == \A c \in Client : call[c].tab # t /\ ~Exclusive(call[c].op)

\* The files of one table among those in F.
Of(t, F) == {f \in F : f[1] = t}

\* Catalog, handles, open files and the directory agree on every table nobody
\* works on, while others work on theirs: a table of the open database has its
\* record file and its indexes and no other, each open under a handle.
HandlesMatch ==
  \A t \in Tab : Settled(t) =>
    LET F == Of(t, FilesOf(tabs)) IN
    /\ F = Of(t, DOMAIN open_files)
    /\ F = Of(t, {RecordFileOf(u) : u \in fhs} \cup ihs)
    /\ \A f \in F : open_files[f] = current_db_name
    /\ current_db_name # NoDb => F = Of(t, files[current_db_name])

\* A reference into the catalog or a handle that is used after its semaphore was
\* given back still leads to what it did.
RefsLive ==
  \A c \in Client :
    /\ pc[c] \in {"destroy_table", "drop_indexes", "find_table", "fill_index", "store_index",
                  "mark_index", "destroy_index", "unmark_index"} => call[c].tab \in DOMAIN tabs
    /\ At(c, "fill_index") =>
         call[c].tab \in fhs /\ IndexFileOf(call[c].tab, call[c].col) \in DOMAIN open_files

\* databases.list and the directories agree on every database that nobody is
\* creating or dropping.
Registered ==
  \A d \in Db : (\A c \in Client : call[c].db # d) => (d \in dirs <=> d \in db_list)

\* Between its first and its last step close_db has the catalog in db.meta only.
Closing == \E c \in Client : pc[c] \in {"close_files", "close_indexes", "leave"}

\* The tables of a database, wherever they are kept at the moment.
Content(d) ==
  CASE d \notin dirs -> Absent
    [] d \in dirs /\ d = current_db_name /\ ~Closing -> tabs
    [] OTHER -> IF meta[d] = NoMeta THEN << >> ELSE meta[d]

\* The catalog implements the abstract one: what is opened again is what was
\* closed, and no operation changes another database than the open one.
Store == INSTANCE CatalogStore WITH
  content <- [d \in Db |-> Content(d)], selected <- current_db_name

Implements == Store!Spec

\* query_language/ql_test.cpp goes on after a statement that was refused, and the
\* next one is answered too: every statement comes to an end.
StatementsEnd == \A c \in Client : (pc[c] # "idle") ~> (pc[c] = "idle")

\* system_management/README.md: each database is completely isolated, with a
\* namespace of its own.  open_db shows the tables of the database it opens and
\* no others.
DatabasesIsolated ==
  [][current_db_name' \notin {NoDb, current_db_name} => tabs' = meta[current_db_name']]_vars
=============================================================================
