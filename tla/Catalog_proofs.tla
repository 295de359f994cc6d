--------------------------- MODULE Catalog_proofs ---------------------------
(***************************************************************************)
(* What is proved of the catalog when its clients agree, for every number  *)
(* of clients, databases, tables and columns: it matches the handles, the  *)
(* open files and the directory on every table nobody works on, and it     *)
(* implements the abstract one.  The invariant has four parts: what the    *)
(* calls are, with the agreement; what is on disk; what a database that is *)
(* being opened or closed looks like; and what the table somebody works on *)
(* looks like at each of the steps.                                        *)
(***************************************************************************)
EXTENDS CatalogUse, TLAPS

\* Catalogs in which every table has the columns it was made with.
Catalogs == UNION {[T -> [Col -> BOOLEAN]] : T \in SUBSET Tab}

Ops == DbOps \cup {"close_db"} \cup TableOps \cup IndexOps

Calls == [op : Ops \cup {"none"}, db : Db \cup {NoDb}, tab : Tab \cup {NoTab},
          col : Col \cup {NoCol}, todo : SUBSET Col]

Types ==
  /\ posted \subseteq Semaphores
  /\ tabs \in Catalogs
  /\ current_db_name \in Db \cup {NoDb}
  /\ fhs \subseteq Tab /\ ihs \subseteq Tab \X Col
  /\ cwd \in Dir /\ dirs \subseteq Db /\ db_list \subseteq Db
  /\ open_files \in [DOMAIN open_files -> Dir] /\ DOMAIN open_files \subseteq File
  /\ files \in [Dir -> SUBSET File]
  /\ meta \in [Dir -> Catalogs \cup {NoMeta}]
  /\ pc \in [Client -> Labels]
  /\ call \in [Client -> Calls]

-----------------------------------------------------------------------------
(* The calls.                                                              *)

\* The labels of an operation on databases, on a table, on an index.
CreateDbAt == {"create_db", "write_meta", "register_database"}
DropDbAt == {"drop_db", "remove_dir", "unregister_database"}
CloseDbAt == {"close_db", "close_files", "close_indexes", "leave"}
OpenDbAt == {"open_db", "switch", "load", "lock_file_handles", "open_all"} \cup CloseDbAt
CreateTableAt == {"create_table", "open_table"}
DropTableAt == {"drop_table", "destroy_table", "drop_indexes",
                "drop_index", "destroy_index", "unmark_index"}
Making == {"find_table", "fill_index", "store_index", "mark_index"}
CreateIndexAt == {"create_index"} \cup Making
DropIndexAt == {"drop_index", "destroy_index", "unmark_index"}

\* What a thread at label p may run.
CallAt(p, r) ==
  \/ p = "idle" /\ r = NoCall
  \/ r.op = "create_db" /\ p \in CreateDbAt /\ r.db \in Db /\ r.tab = NoTab
  \/ r.op = "drop_db" /\ p \in DropDbAt /\ r.db \in Db /\ r.tab = NoTab
  \/ r.op = "open_db" /\ p \in OpenDbAt /\ r.db \in Db /\ r.tab = NoTab
  \/ r.op = "close_db" /\ p \in CloseDbAt /\ r.db = NoDb /\ r.tab = NoTab
  \/ r.op = "create_table" /\ p \in CreateTableAt /\ r.db = NoDb /\ r.tab \in Tab \ TooLong
  \/ r.op = "drop_table" /\ p \in DropTableAt /\ r.db = NoDb /\ r.tab \in Tab \ TooLong
     /\ (p \in DropIndexAt => r.col \in Col)
  \/ r.op = "create_index" /\ p \in CreateIndexAt /\ r.db = NoDb /\ r.tab \in Tab \ TooLong
     /\ r.col \in Col
  \/ r.op = "drop_index" /\ p \in DropIndexAt /\ r.db = NoDb /\ r.tab \in Tab \ TooLong
     /\ r.col \in Col

\* Two calls that may run at a time.
Compatible(r, s) ==
  /\ Exclusive(r.op) => s.op = "none"
  /\ Exclusive(s.op) => r.op = "none"
  /\ r.tab = NoTab \/ r.tab # s.tab
  /\ r.db = NoDb \/ r.db # s.db

CallsOK ==
  /\ \A c \in Client : CallAt(pc[c], call[c])
  /\ \A c, o \in Client : c # o => Compatible(call[c], call[o])

SemsOK ==
  /\ \A c \in Client : At(c, "open_all") => posted = Semaphores \ {file_handles_sem}
  /\ (\A c \in Client : ~At(c, "open_all")) => posted = Semaphores

-----------------------------------------------------------------------------
(* The databases.                                                          *)

Stored(d) == IF meta[d] = NoMeta THEN << >> ELSE meta[d]

\* Where a thread is about to see to databases.list, and where it relies on a directory.
ListLabels == {"write_meta", "register_database", "unregister_database"}
DirLabels == ListLabels \cup {"remove_dir", "switch", "load"}

DatabaseOK(d) ==
  /\ d \notin dirs => meta[d] = NoMeta /\ files[d] = {}
  /\ d \in dirs /\ (\A c \in Client : At(c, "write_meta") => call[c].db # d) => meta[d] # NoMeta
  /\ d # current_db_name => files[d] = FilesOf(Stored(d))
  /\ (\A c \in Client : pc[c] \in ListLabels => call[c].db # d) => (d \in dirs <=> d \in db_list)

DirsOK ==
  /\ current_db_name # NoDb => current_db_name \in dirs
  /\ cwd = IF current_db_name = NoDb THEN BaseDir ELSE current_db_name
  /\ \A f \in DOMAIN open_files : open_files[f] = current_db_name
  /\ \A d \in Db : DatabaseOK(d)
  /\ \A c \in Client :
       /\ pc[c] \in {"write_meta", "register_database"} => call[c].db \in dirs
       /\ At(c, "write_meta") => meta[call[c].db] = NoMeta
       /\ pc[c] \in {"write_meta", "remove_dir"} => call[c].db # current_db_name
       /\ At(c, "unregister_database") => call[c].db \notin dirs
       /\ call[c].op = "open_db" /\ ~At(c, "open_db") => call[c].db \in dirs
       /\ At(c, "load") => current_db_name = NoDb

-----------------------------------------------------------------------------
(* Opening and closing.                                                    *)

\* Where the catalog in memory and the handles do not have to match.
Moving == {"close_files", "close_indexes", "leave", "lock_file_handles", "open_all"}

Handles == {RecordFileOf(t) : t \in fhs} \cup ihs

MovingOK(p) ==
  LET cat == meta[current_db_name] IN
  /\ current_db_name # NoDb /\ cat # NoMeta
  /\ files[current_db_name] = FilesOf(cat)
  /\ tabs = IF p \in {"lock_file_handles", "open_all"} THEN cat ELSE << >>
  /\ fhs = IF p = "close_files" THEN DOMAIN cat ELSE {}
  /\ ihs = IF p \in {"close_files", "close_indexes"} THEN Indexed(cat) ELSE {}
  /\ DOMAIN open_files = IF p = "close_files" THEN FilesOf(cat)
                         ELSE IF p = "close_indexes" THEN Indexed(cat) ELSE {}

-----------------------------------------------------------------------------
(* The tables.                                                             *)

Known(t) == t \in DOMAIN tabs
Marked(t, k) == t \in DOMAIN tabs /\ tabs[t][k]

\* The record file of t is there, and open with its handle.
Record(t, there, open) ==
  /\ RecordFileOf(t) \in files[current_db_name] <=> there
  /\ RecordFileOf(t) \in DOMAIN open_files <=> open
  /\ t \in fhs <=> open

\* An index of t is there and open, and has its handle.
Index(t, k, there, handled) ==
  /\ <<t, k>> \in files[current_db_name] <=> there
  /\ <<t, k>> \in DOMAIN open_files <=> there
  /\ <<t, k>> \in ihs <=> handled

\* The table t with a thread at label p of the call r working on it; Matched: with none.
NoRecord(p, r) == r.op = "drop_table" /\ p \notin {"drop_table", "destroy_table"}

TableAt(t, p, r) ==
  /\ p \notin {"idle", "create_table"} => Known(t)
  /\ Record(t, Known(t) /\ ~NoRecord(p, r), Known(t) /\ ~NoRecord(p, r) /\ p # "open_table")
  /\ \A k \in Col :
       LET made == k = r.col /\ p \in Making
           gone == k = r.col /\ p = "unmark_index"
       IN  /\ Index(t, k, made \/ (Marked(t, k) /\ ~gone),
                    (made /\ p = "mark_index") \/ (Marked(t, k) /\ ~gone))
           /\ made => ~Marked(t, k)
           /\ p = "open_table" => ~Marked(t, k)
           /\ NoRecord(p, r) /\ k \notin r.todo => ~Marked(t, k) \/ (k = r.col /\ p \in DropIndexAt)
  /\ p \in {"destroy_index", "unmark_index"} \/ (NoRecord(p, r) /\ p = "drop_index") =>
       r.col \in Col /\ Marked(t, r.col)

TablesOK ==
  /\ current_db_name = NoDb => tabs = << >> /\ Handles = {} /\ DOMAIN open_files = {}
  /\ current_db_name # NoDb =>
       \A t \in Tab : (\A c \in Client : call[c].tab # t) => TableAt(t, "idle", NoCall)
  /\ \A c \in Client : \A p \in {pc[c]}, r \in {call[c]} :
       r.tab # NoTab => current_db_name # NoDb /\ TableAt(r.tab, p, r)

PhaseOK ==
  /\ \A c \in Client : \A p \in Moving : pc[c] = p => MovingOK(p)
  /\ (\A c \in Client : pc[c] \notin Moving) => TablesOK

IInv == Types /\ CallsOK /\ SemsOK /\ DirsOK /\ PhaseOK

-----------------------------------------------------------------------------
(* Catalogs and their files.                                               *)

LEMMA CatalogForm ==
  ASSUME NEW cat \in Catalogs
  PROVE  /\ DOMAIN cat \subseteq Tab /\ cat \in [DOMAIN cat -> [Col -> BOOLEAN]]
         /\ cat # NoMeta
BY NoMetaAssumption DEF Catalogs

LEMMA IsOfCatalogs ==
  ASSUME NEW T \in SUBSET Tab, NEW cat \in [T -> [Col -> BOOLEAN]]
  PROVE  cat \in Catalogs
BY DEF Catalogs

LEMMA FilesOfCatalog ==
  ASSUME NEW cat \in Catalogs
  PROVE  /\ FilesOf(cat) \subseteq File /\ Indexed(cat) \subseteq Tab \X Col
         /\ \A t : RecordFileOf(t) \in FilesOf(cat) <=> t \in DOMAIN cat
         /\ \A t : \A k \in Col :
              /\ <<t, k>> \in Indexed(cat) <=> t \in DOMAIN cat /\ cat[t][k]
              /\ <<t, k>> \in FilesOf(cat) <=> t \in DOMAIN cat /\ cat[t][k]
<1>1. DOMAIN cat \subseteq Tab /\ cat \in [DOMAIN cat -> [Col -> BOOLEAN]]
  BY CatalogForm
<1>2. \A t : \A k \in Col : <<t, k>> \in Indexed(cat) <=> t \in DOMAIN cat /\ cat[t][k]
  BY <1>1 DEF Indexed
<1>3. Indexed(cat) \subseteq Tab \X Col
  BY <1>1 DEF Indexed
<1>4. FilesOf(cat) \subseteq File
  BY <1>1, <1>3 DEF FilesOf, RecordFileOf, File
<1>5. \A t : RecordFileOf(t) \in FilesOf(cat) <=> t \in DOMAIN cat
  BY <1>3, NamesAssumption DEF FilesOf, RecordFileOf
<1>6. \A t : \A k \in Col : <<t, k>> \in FilesOf(cat) <=> <<t, k>> \in Indexed(cat)
  BY NamesAssumption DEF FilesOf, RecordFileOf
<1>. QED  BY <1>2, <1>3, <1>4, <1>5, <1>6

LEMMA EmptyCatalog ==
  /\ << >> \in Catalogs /\ DOMAIN << >> = {}
  /\ Indexed(<< >>) = {} /\ FilesOf(<< >>) = {}
<1>1. DOMAIN << >> = {} /\ << >> \in [{} -> [Col -> BOOLEAN]]
  OBVIOUS
<1>2. Indexed(<< >>) = {}
  BY <1>1 DEF Indexed
<1>. QED  BY <1>1, <1>2, IsOfCatalogs DEF FilesOf

-----------------------------------------------------------------------------
(* Threads.                                                                *)

\* A thread goes to the label p, in the call r.
Moves(c, p, r) == pc' = [pc EXCEPT ![c] = p] /\ call' = [call EXCEPT ![c] = r]

LEMMA GoMoves ==
  ASSUME Types, NEW c \in Client, NEW l, Go(c, l)
  PROVE  Moves(c, l, call[c])
BY DEF Types, Go, Moves

LEMMA NoCallType == NoCall \in Calls
BY DEF NoCall, Calls

LEMMA Moved ==
  ASSUME Types, NEW c \in Client, NEW p \in Labels, NEW r \in Calls, Moves(c, p, r)
  PROVE  /\ pc' \in [Client -> Labels] /\ call' \in [Client -> Calls]
         /\ pc'[c] = p /\ call'[c] = r
         /\ \A o \in Client \ {c} : pc'[o] = pc[o] /\ call'[o] = call[o]
BY DEF Types, Moves

LEMMA CallsKept ==
  ASSUME Types, CallsOK, NEW c \in Client, NEW p \in Labels, NEW r \in Calls, Moves(c, p, r),
         CallAt(p, r),
         \/ r = NoCall
         \/ r.op = call[c].op /\ r.db = call[c].db /\ r.tab = call[c].tab
  PROVE  CallsOK'
<1>1. /\ pc'[c] = p /\ call'[c] = r
      /\ \A o \in Client \ {c} : pc'[o] = pc[o] /\ call'[o] = call[o]
  BY Moved
<1>2. \A o \in Client : CallAt(pc'[o], call'[o])
  BY <1>1 DEF CallsOK
<1>3. ASSUME NEW o \in Client \ {c} PROVE Compatible(r, call[o]) /\ Compatible(call[o], r)
  <2>1. Compatible(call[c], call[o]) /\ Compatible(call[o], call[c])
    BY DEF CallsOK
  <2>2. CASE r = NoCall
    <3>1. r.op = "none" /\ r.tab = NoTab /\ r.db = NoDb /\ ~Exclusive("none")
      BY <2>2 DEF NoCall, Exclusive
    <3>2. CallAt(pc[o], call[o])
      BY DEF CallsOK
    <3>. QED  BY <3>1 DEF Compatible
  <2>3. CASE r.op = call[c].op /\ r.db = call[c].db /\ r.tab = call[c].tab
    BY <2>1, <2>3 DEF Compatible
  <2>. QED  BY <2>2, <2>3
<1>4. \A b, o \in Client : b # o => Compatible(call'[b], call'[o])
  BY <1>1, <1>3 DEF CallsOK
<1>. QED  BY <1>2, <1>4 DEF CallsOK

\* The operations that open and close a database run alone.
LEMMA Alone ==
  ASSUME CallsOK, NEW c \in Client, Exclusive(call[c].op), NEW o \in Client \ {c}
  PROVE  pc[o] = "idle" /\ call[o].db = NoDb /\ call[o].tab = NoTab
<1>1. call[o].op = "none"
  BY DEF CallsOK, Compatible
<1>2. CallAt(pc[o], call[o])
  BY DEF CallsOK
<1>. QED  BY <1>1, <1>2 DEF CallAt, NoCall

\* The labels where a database is opened or closed belong to those operations.
LEMMA MovingExclusive ==
  ASSUME CallsOK, NEW c \in Client, pc[c] \in Moving
  PROVE  Exclusive(call[c].op)
<1>1. CallAt(pc[c], call[c])
  BY DEF CallsOK
<1>2. /\ Moving \cap (CreateDbAt \cup DropDbAt \cup CreateTableAt \cup DropTableAt) = {}
      /\ Moving \cap (CreateIndexAt \cup DropIndexAt \cup {"idle"}) = {}
  BY DEF Moving, CreateDbAt, DropDbAt, CreateTableAt, DropTableAt, CreateIndexAt, DropIndexAt, Making
<1>. QED  BY <1>1, <1>2 DEF CallAt, Exclusive

\* While a thread runs another operation, nothing is being opened or closed.
LEMMA Quiet ==
  ASSUME IInv, NEW c \in Client, call[c].op \notin {"none", "open_db", "close_db"}
  PROVE  /\ \A o \in Client : pc[o] \notin Moving /\ ~Exclusive(call[o].op)
         /\ TablesOK /\ posted = Semaphores
<1>1. ASSUME NEW o \in Client PROVE ~Exclusive(call[o].op)
  <2>1. CASE o = c
    BY <2>1 DEF Exclusive
  <2>2. CASE o # c
    BY <2>2 DEF IInv, CallsOK, Compatible
  <2>. QED  BY <2>1, <2>2
<1>2. \A o \in Client : pc[o] \notin Moving
  BY <1>1, MovingExclusive DEF IInv
<1>3. posted = Semaphores
  BY <1>2 DEF IInv, SemsOK, At, Moving
<1>. QED  BY <1>1, <1>2, <1>3 DEF IInv, PhaseOK

-----------------------------------------------------------------------------
(* What a step leaves as it is.                                            *)

LEMMA SemsKept ==
  ASSUME IInv, NEW c \in Client, NEW p \in Labels \ {"open_all"}, NEW r \in Calls, Moves(c, p, r),
         pc[c] # "open_all", UNCHANGED posted
  PROVE  SemsOK'
<1>1. pc'[c] = p /\ \A o \in Client \ {c} : pc'[o] = pc[o]
  BY Moved DEF IInv
<1>2. \A o \in Client : pc'[o] = "open_all" <=> pc[o] = "open_all"
  BY <1>1
<1>. QED  BY <1>2 DEF IInv, SemsOK, At

LEMMA DirsKept ==
  ASSUME IInv, NEW c \in Client, NEW p \in Labels \ ListLabels, NEW r \in Calls, Moves(c, p, r),
         pc[c] \notin ListLabels,
         p = "remove_dir" => r.db # current_db_name,
         r.op = "open_db" /\ p # "open_db" => r.db \in dirs,
         p = "load" => current_db_name = NoDb,
         UNCHANGED <<current_db_name, cwd, dirs, meta, db_list>>,
         \A d \in Db : d # current_db_name => files'[d] = files[d],
         \A f \in DOMAIN open_files' : open_files'[f] = current_db_name
  PROVE  DirsOK'
<1>1. /\ pc'[c] = p /\ call'[c] = r
      /\ \A o \in Client \ {c} : pc'[o] = pc[o] /\ call'[o] = call[o]
  BY Moved DEF IInv
<1>2. p \notin ListLabels /\ p # "write_meta" /\ pc[c] # "write_meta"
  BY DEF ListLabels
<1>3. ASSUME NEW d \in Db PROVE DatabaseOK(d)'
  <2>1. /\ (\A o \in Client : At(o, "write_meta") => call[o].db # d)'
             <=> \A o \in Client : At(o, "write_meta") => call[o].db # d
        /\ (\A o \in Client : pc[o] \in ListLabels => call[o].db # d)'
             <=> \A o \in Client : pc[o] \in ListLabels => call[o].db # d
    BY <1>1, <1>2 DEF At
  <2>2. Stored(d)' = Stored(d) /\ (d = current_db_name \/ files'[d] = files[d])
    BY DEF Stored
  <2>3. d \notin dirs => d # current_db_name
    BY NamesAssumption DEF IInv, DirsOK
  <2>. QED  BY <2>1, <2>2, <2>3 DEF IInv, DirsOK, DatabaseOK, FilesOf, Indexed
<1>4. \A o \in Client :
        /\ pc'[o] \in {"write_meta", "register_database"} => call'[o].db \in dirs
        /\ pc'[o] = "write_meta" => meta[call'[o].db] = NoMeta
        /\ pc'[o] \in {"write_meta", "remove_dir"} => call'[o].db # current_db_name
        /\ pc'[o] = "unregister_database" => call'[o].db \notin dirs
        /\ call'[o].op = "open_db" /\ pc'[o] # "open_db" => call'[o].db \in dirs
        /\ pc'[o] = "load" => current_db_name = NoDb
  BY <1>1 DEF IInv, DirsOK, At, ListLabels
<1>. QED  BY <1>3, <1>4 DEF IInv, DirsOK, At

\* The table t is in the catalog, open and on disk as it was.
SameTable(t) ==
  /\ Known(t)' <=> Known(t)
  /\ RecordFileOf(t) \in files'[current_db_name'] <=> RecordFileOf(t) \in files[current_db_name]
  /\ RecordFileOf(t) \in DOMAIN open_files' <=> RecordFileOf(t) \in DOMAIN open_files
  /\ t \in fhs' <=> t \in fhs
  /\ \A k \in Col :
       /\ Marked(t, k)' <=> Marked(t, k)
       /\ <<t, k>> \in files'[current_db_name'] <=> <<t, k>> \in files[current_db_name]
       /\ <<t, k>> \in DOMAIN open_files' <=> <<t, k>> \in DOMAIN open_files
       /\ <<t, k>> \in ihs' <=> <<t, k>> \in ihs

LEMMA SameTableAt ==
  ASSUME NEW t \in Tab, NEW p, NEW r, SameTable(t), TableAt(t, p, r)
  PROVE  TableAt(t, p, r)'
BY DEF SameTable, TableAt, Record, Index

\* A thread that works on the table t takes a step that leaves the other tables alone.
LEMMA TablesKept ==
  ASSUME IInv, NEW c \in Client, NEW t \in Tab, call[c].tab = t,
         call[c].op \notin {"none", "open_db", "close_db"},
         NEW p \in Labels \ Moving, NEW r \in Calls, Moves(c, p, r),
         (r = NoCall /\ p = "idle") \/ r.tab = t,
         UNCHANGED current_db_name,
         \A u \in Tab \ {t} : SameTable(u),
         TableAt(t, p, r)'
  PROVE  PhaseOK'
<1>1. /\ pc'[c] = p /\ call'[c] = r
      /\ \A o \in Client \ {c} : pc'[o] = pc[o] /\ call'[o] = call[o]
  BY Moved DEF IInv
<1>2. /\ \A o \in Client : pc[o] \notin Moving
      /\ TablesOK /\ current_db_name # NoDb
  BY Quiet, NamesAssumption DEF TablesOK
<1>3. \A o \in Client : pc'[o] \notin Moving
  BY <1>1, <1>2
<1>4. ASSUME NEW u \in Tab, \A o \in Client : call'[o].tab # u
      PROVE  TableAt(u, "idle", NoCall)'
  <2>1. CASE u = t
    BY <1>1, <1>4, <2>1
  <2>2. CASE u # t
    <3>1. \A o \in Client : call[o].tab # u
      BY <1>1, <1>4, <2>2
    <3>2. TableAt(u, "idle", NoCall)
      BY <1>2, <3>1 DEF TablesOK
    <3>. QED  BY <2>2, <3>2, SameTableAt
  <2>. QED  BY <2>1, <2>2
<1>5. ASSUME NEW o \in Client, NEW q, NEW s, q = pc'[o], s = call'[o], s.tab # NoTab
      PROVE  TableAt(s.tab, q, s)'
  <2>1. CASE o = c
    BY <1>1, <1>5, <2>1 DEF NoCall
  <2>2. CASE o # c
    <3>1. q = pc[o] /\ s = call[o]
      BY <1>1, <1>5, <2>2
    <3>2. s.tab \in Tab
      BY <1>5, <3>1 DEF IInv, Types, Calls
    <3>3. s.tab # t
      BY <2>2, <3>1, NamesAssumption DEF IInv, CallsOK, Compatible
    <3>4. TableAt(s.tab, q, s)
      BY <1>2, <1>5, <3>1 DEF TablesOK
    <3>. QED  BY <3>2, <3>3, <3>4, SameTableAt
  <2>. QED  BY <2>1, <2>2
<1>6. TablesOK'
  BY <1>2, <1>4, <1>5 DEF TablesOK
<1>. QED  BY <1>3, <1>6 DEF PhaseOK

\* A step that changes nothing in the open database.
LEMMA PhaseKept ==
  ASSUME IInv, NEW c \in Client, NEW p \in Labels \ Moving, NEW r \in Calls, Moves(c, p, r),
         pc[c] \notin Moving, call[c].tab = NoTab, r.tab = NoTab,
         UNCHANGED <<tabs, current_db_name, fhs, ihs, open_files>>,
         current_db_name # NoDb => /\ files'[current_db_name] = files[current_db_name]
                                   /\ meta'[current_db_name] = meta[current_db_name]
  PROVE  PhaseOK'
<1>1. /\ pc'[c] = p /\ call'[c] = r
      /\ \A o \in Client \ {c} : pc'[o] = pc[o] /\ call'[o] = call[o]
  BY Moved DEF IInv
<1>2. ASSUME NEW o \in Client, NEW q \in Moving, pc'[o] = q
      PROVE  MovingOK(q)'
  <2>1. pc[o] = q /\ MovingOK(q)
    BY <1>1, <1>2 DEF IInv, PhaseOK
  <2>. QED  BY <2>1 DEF MovingOK, FilesOf, Indexed
<1>3. ASSUME \A o \in Client : pc'[o] \notin Moving
      PROVE  TablesOK'
  <2>1. TablesOK
    <3>1. \A o \in Client : pc[o] \notin Moving
      BY <1>1, <1>3
    <3>. QED  BY <3>1 DEF IInv, PhaseOK
  <2>2. current_db_name # NoDb => \A u \in Tab : SameTable(u)
    BY DEF SameTable, Known, Marked
  <2>3. ASSUME NEW u \in Tab, \A o \in Client : call'[o].tab # u, current_db_name # NoDb
        PROVE  TableAt(u, "idle", NoCall)'
    <3>1. \A o \in Client : call[o].tab # u
      BY <1>1, <2>3, NamesAssumption
    <3>. QED  BY <2>1, <2>2, <2>3, <3>1, SameTableAt DEF TablesOK
  <2>4. ASSUME NEW o \in Client, NEW q, NEW s, q = pc'[o], s = call'[o], s.tab # NoTab
        PROVE  current_db_name # NoDb /\ TableAt(s.tab, q, s)'
    <3>1. q = pc[o] /\ s = call[o]
      BY <1>1, <2>4
    <3>2. s.tab \in Tab
      BY <2>4, <3>1 DEF IInv, Types, Calls
    <3>3. current_db_name # NoDb /\ TableAt(s.tab, q, s)
      BY <2>1, <2>4, <3>1 DEF TablesOK
    <3>. QED  BY <2>2, <3>2, <3>3, SameTableAt
  <2>5. Handles' = Handles
    BY DEF Handles
  <2>. QED  BY <2>1, <2>3, <2>4, <2>5 DEF TablesOK
<1>. QED  BY <1>2, <1>3 DEF PhaseOK

LEMMA TableStep ==
  ASSUME IInv, NEW c \in Client, NEW t \in Tab, call[c].tab = t,
         call[c].op \in TableOps \cup IndexOps,
         NEW p \in Labels \ (Moving \cup DirLabels), NEW r \in Calls, Moves(c, p, r), CallAt(p, r),
         \/ r = NoCall
         \/ r.op = call[c].op /\ r.db = call[c].db /\ r.tab = t,
         UNCHANGED <<posted, current_db_name, cwd, dirs, meta, db_list>>,
         tabs' \in Catalogs, fhs' \subseteq Tab, ihs' \subseteq Tab \X Col,
         files' \in [Dir -> SUBSET File],
         \A d \in Db : d # current_db_name => files'[d] = files[d],
         DOMAIN open_files' \subseteq File,
         open_files' \in [DOMAIN open_files' -> {current_db_name}],
         \A u \in Tab \ {t} : SameTable(u),
         TableAt(t, p, r)'
  PROVE  IInv'
<1>1. call[c].op \notin {"none", "open_db", "close_db"}
  BY DEF TableOps, IndexOps
<1>2. pc[c] \notin ListLabels \cup {"open_all"}
  <2>1. CallAt(pc[c], call[c])
    BY DEF IInv, CallsOK
  <2>. QED  BY <2>1 DEF CallAt, TableOps, IndexOps, ListLabels, CreateTableAt, DropTableAt,
                        CreateIndexAt, DropIndexAt, Making
<1>3. current_db_name \in Db
  <2>1. TablesOK
    BY <1>1, Quiet
  <2>2. current_db_name # NoDb
    BY <2>1, NamesAssumption DEF TablesOK
  <2>. QED  BY <2>2 DEF IInv, Types
<1>4. Types'
  <2>1. open_files' \in [DOMAIN open_files' -> Dir]
    BY <1>3 DEF Dir
  <2>. QED  BY <2>1, Moved DEF IInv, Types
<1>5. CallsOK'
  BY CallsKept DEF IInv
<1>6. SemsOK'
  BY <1>2, SemsKept DEF Moving
<1>7. DirsOK'
  BY <1>1, <1>2, DirsKept DEF DirLabels, NoCall
<1>8. PhaseOK'
  <2>1. r = NoCall => p = "idle"
    BY DEF CallAt, NoCall
  <2>. QED  BY <1>1, <2>1, TablesKept
<1>. QED  BY <1>4, <1>5, <1>6, <1>7, <1>8 DEF IInv

\* What a thread that works on a table can rely on.
LEMMA AtTable ==
  ASSUME IInv, NEW c \in Client, call[c].op \in TableOps \cup IndexOps
  PROVE  /\ call[c].tab \in Tab \ TooLong /\ call[c].db = NoDb
         /\ CallAt(pc[c], call[c]) /\ call[c] \in Calls
         /\ current_db_name \in Db /\ cwd = current_db_name /\ InDirectory
         /\ posted = Semaphores
         /\ open_files \in [DOMAIN open_files -> {current_db_name}]
         /\ \A p, r : p = pc[c] /\ r = call[c] => TableAt(r.tab, p, r)
<1>1. TablesOK /\ posted = Semaphores
  BY Quiet DEF TableOps, IndexOps
<1>2. CallAt(pc[c], call[c]) /\ call[c] \in Calls
  BY DEF IInv, CallsOK, Types
<1>3. call[c].tab \in Tab \ TooLong /\ call[c].db = NoDb
  BY <1>2 DEF CallAt, NoCall, TableOps, IndexOps
<1>4. /\ current_db_name # NoDb
      /\ \A p, r : p = pc[c] /\ r = call[c] => TableAt(r.tab, p, r)
  BY <1>1, <1>3, NamesAssumption DEF TablesOK
<1>5. current_db_name \in Db /\ cwd = current_db_name /\ current_db_name \in dirs
  BY <1>4 DEF IInv, Types, DirsOK
<1>6. open_files \in [DOMAIN open_files -> {current_db_name}]
  BY DEF IInv, Types, DirsOK
<1>. QED  BY <1>1, <1>2, <1>3, <1>4, <1>5, <1>6 DEF InDirectory

-----------------------------------------------------------------------------
(* Catalogs, open files and directories that one entry is added to or taken from. *)

LEMMA WithFacts ==
  ASSUME NEW f, NEW x, NEW v, x \notin DOMAIN f
  PROVE  /\ DOMAIN With(f, x, v) = DOMAIN f \cup {x}
         /\ With(f, x, v)[x] = v /\ \A y \in DOMAIN f : With(f, x, v)[y] = f[y]
         /\ \A V : f \in [DOMAIN f -> V] /\ v \in V => With(f, x, v) \in [DOMAIN f \cup {x} -> V]
BY DEF With

LEMMA WithoutFacts ==
  ASSUME NEW f, NEW S
  PROVE  /\ DOMAIN Without(f, S) = DOMAIN f \ S
         /\ \A y \in DOMAIN f \ S : Without(f, S)[y] = f[y]
         /\ \A V : f \in [DOMAIN f -> V] => Without(f, S) \in [DOMAIN f \ S -> V]
BY DEF Without

LEMMA WithTable ==
  ASSUME NEW cat \in Catalogs, NEW t \in Tab, t \notin DOMAIN cat, NEW v \in [Col -> BOOLEAN]
  PROVE  With(cat, t, v) \in Catalogs
<1>1. DOMAIN cat \subseteq Tab /\ cat \in [DOMAIN cat -> [Col -> BOOLEAN]]
  BY CatalogForm
<1>2. With(cat, t, v) \in [DOMAIN cat \cup {t} -> [Col -> BOOLEAN]]
  BY <1>1, WithFacts
<1>. QED  BY <1>1, <1>2, IsOfCatalogs

LEMMA WithoutTable ==
  ASSUME NEW cat \in Catalogs, NEW t \in Tab
  PROVE  Without(cat, {t}) \in Catalogs
<1>1. DOMAIN cat \subseteq Tab /\ cat \in [DOMAIN cat -> [Col -> BOOLEAN]]
  BY CatalogForm
<1>. QED  BY <1>1, IsOfCatalogs DEF Without

LEMMA MarkedTable ==
  ASSUME NEW cat \in Catalogs, NEW t \in DOMAIN cat, NEW k \in Col, NEW b \in BOOLEAN
  PROVE  [cat EXCEPT ![t][k] = b] \in Catalogs
<1>1. DOMAIN cat \subseteq Tab /\ cat \in [DOMAIN cat -> [Col -> BOOLEAN]]
  BY CatalogForm
<1>2. [cat EXCEPT ![t][k] = b] \in [DOMAIN cat -> [Col -> BOOLEAN]]
  BY <1>1
<1>. QED  BY <1>1, <1>2, IsOfCatalogs

-----------------------------------------------------------------------------
(* The steps of create_table and drop_table.                               *)

\* The operation a thread is in at a label of the operations on tables.
LEMMA TableLabels ==
  ASSUME NEW p, NEW r, CallAt(p, r)
  PROVE  /\ p \in CreateTableAt => r.op = "create_table"
         /\ p \in {"drop_table", "destroy_table", "drop_indexes"} => r.op = "drop_table"
         /\ p \in CreateIndexAt => r.op = "create_index"
         /\ p \in DropIndexAt => r.op \in {"drop_table", "drop_index"}
BY DEF CallAt, CreateDbAt, DropDbAt, OpenDbAt, CloseDbAt, CreateTableAt, DropTableAt, CreateIndexAt,
       DropIndexAt, Making

\* A step that touches, of the catalog, the files and the handles, only those of the table t.
LEMMA OthersSame ==
  ASSUME NEW t, NEW u \in Tab \ {t}, UNCHANGED current_db_name,
         u \in DOMAIN tabs' <=> u \in DOMAIN tabs,
         u \in DOMAIN tabs => tabs'[u] = tabs[u],
         u \in fhs' <=> u \in fhs,
         \A f \in File : f[1] # t =>
           /\ f \in files'[current_db_name] <=> f \in files[current_db_name]
           /\ f \in DOMAIN open_files' <=> f \in DOMAIN open_files
           /\ f \in ihs' <=> f \in ihs
  PROVE  SameTable(u)
<1>1. RecordFileOf(u) \in File /\ RecordFileOf(u)[1] = u
  BY DEF RecordFileOf, File
<1>2. \A k \in Col : <<u, k>> \in File /\ <<u, k>>[1] = u
  BY DEF File
<1>. QED  BY <1>1, <1>2 DEF SameTable, Known, Marked

\* An operation ends.
LEMMA Idle ==
  /\ "idle" \in Labels \ (Moving \cup DirLabels) /\ CallAt("idle", NoCall)
  /\ \A c : Return(c) => Moves(c, "idle", NoCall)
BY DEF Labels, Moving, DirLabels, ListLabels, CallAt, NoCall, Return, Moves

\* A table is opened under the handle its file is given.
LEMMA OpenTableKeeps ==
  ASSUME IInv, NEW c \in Client, NEW r, r = call[c], OpenTable(c)
  PROVE  IInv'
<1>. DEFINE t == r.tab
            f == RecordFileOf(t)
<1>1. pc[c] = "open_table" /\ r.op = "create_table"
  BY TableLabels DEF OpenTable, At, IInv, CallsOK, CreateTableAt
<1>2. /\ t \in Tab /\ current_db_name \in Db /\ cwd = current_db_name
      /\ open_files \in [DOMAIN open_files -> {current_db_name}]
      /\ TableAt(t, "open_table", r)
  BY <1>1, AtTable DEF TableOps
<1>3. /\ Known(t) /\ f \in files[cwd] /\ f \notin DOMAIN open_files /\ f \in File
      /\ \A k \in Col : ~Marked(t, k) /\ Index(t, k, FALSE, FALSE)
  BY <1>1, <1>2 DEF TableAt, Record, Index, NoRecord, RecordFileOf, File, Making
<1>4. /\ CanOpen(f) /\ Return(c) /\ fhs' = fhs \cup {t} /\ open_files' = With(open_files, f, cwd)
      /\ UNCHANGED <<posted, tabs, current_db_name, ihs, cwd, disk>>
  BY <1>3 DEF OpenTable, CanOpen
<1>5. DOMAIN open_files' = DOMAIN open_files \cup {f} /\ open_files' \in [DOMAIN open_files' -> {cwd}]
  BY <1>2, <1>3, <1>4, WithFacts
<1>6. \A u \in Tab \ {t} : SameTable(u)
  BY <1>4, <1>5, OthersSame DEF disk, RecordFileOf
<1>7. TableAt(t, "idle", NoCall)'
  <2>1. Record(t, TRUE, TRUE)'
    BY <1>3, <1>4, <1>5, <1>2 DEF Record, disk
  <2>2. \A k \in Col : ~Marked(t, k)' /\ Index(t, k, FALSE, FALSE)'
    BY <1>3, <1>4, <1>5, NamesAssumption DEF Index, Marked, disk, RecordFileOf
  <2>. QED  BY <1>3, <1>4, <2>1, <2>2 DEF TableAt, Known, NoRecord, NoCall, Making
<1>. QED
  BY <1>1, <1>2, <1>3, <1>4, <1>5, <1>6, <1>7, Idle, NoCallType, TableStep
  DEF IInv, Types, disk, TableOps

\* A thread that works on a table goes on without changing anything.
LEMMA TableMoves ==
  ASSUME IInv, NEW c \in Client, NEW r, r = call[c], r.op \in TableOps \cup IndexOps,
         NEW p \in Labels \ (Moving \cup DirLabels), NEW s \in Calls, Moves(c, p, s), CallAt(p, s),
         \/ s = NoCall
         \/ s.op = r.op /\ s.db = r.db /\ s.tab = r.tab,
         UNCHANGED <<posted, memory, cwd, open_files, disk>>,
         TableAt(r.tab, p, s)
  PROVE  IInv'
<1>1. r.tab \in Tab /\ open_files \in [DOMAIN open_files -> {current_db_name}]
  BY AtTable
<1>2. \A u \in Tab : SameTable(u)
  BY DEF SameTable, Known, Marked, memory, disk
<1>3. TableAt(r.tab, p, s)'
  BY <1>1, <1>2, SameTableAt
<1>. QED  BY <1>1, <1>2, <1>3, TableStep DEF memory, disk, IInv, Types

LEMMA CreateTableKeeps ==
  ASSUME IInv, NEW c \in Client, NEW r, r = call[c], CreateTable(c)
  PROVE  IInv'
<1>. DEFINE t == r.tab
            f == RecordFileOf(t)
<1>1. pc[c] = "create_table" /\ r.op = "create_table"
  BY TableLabels DEF CreateTable, At, IInv, CallsOK, CreateTableAt
<1>2. /\ t \in Tab \ TooLong /\ current_db_name \in Db /\ cwd = current_db_name /\ InDirectory
      /\ r.db = NoDb /\ r \in Calls
      /\ open_files \in [DOMAIN open_files -> {current_db_name}]
      /\ TableAt(t, "create_table", r)
  BY <1>1, AtTable DEF TableOps
<1>3. CASE Known(t)
  <2>1. Refused(c)
    BY <1>3 DEF CreateTable, Known
  <2>2. TableAt(t, "idle", NoCall)
    BY <1>2, <1>3, <1>1, NamesAssumption DEF TableAt, NoRecord, NoCall, Making
  <2>. QED  BY <1>1, <2>1, <2>2, Idle, NoCallType, TableMoves DEF Refused, TableOps
<1>4. CASE ~Known(t)
  <2>1. /\ f \notin files[cwd] /\ f \notin DOMAIN open_files /\ f \in File /\ t \notin fhs
        /\ \A k \in Col : ~Marked(t, k) /\ Index(t, k, FALSE, FALSE)
    BY <1>1, <1>2, <1>4 DEF TableAt, Record, NoRecord, RecordFileOf, File, Making, Marked, Known
  <2>2. /\ files' = [files EXCEPT ![cwd] = @ \cup {f}]
        /\ tabs' = With(tabs, t, [k \in Col |-> FALSE]) /\ Go(c, "open_table")
        /\ UNCHANGED <<posted, current_db_name, fhs, ihs, cwd, open_files, dirs, meta, db_list>>
    BY <1>2, <1>4, <2>1 DEF CreateTable, CanCreate, Created, Known
  <2>3. /\ files' \in [Dir -> SUBSET File] /\ files'[cwd] = files[cwd] \cup {f}
        /\ \A d \in Db : d # cwd => files'[d] = files[d]
    BY <1>2, <2>1, <2>2 DEF IInv, Types, Dir
  <2>4. /\ tabs' \in Catalogs /\ DOMAIN tabs' = DOMAIN tabs \cup {t}
        /\ tabs'[t] = [k \in Col |-> FALSE] /\ \A u \in DOMAIN tabs : tabs'[u] = tabs[u]
    <3>1. tabs \in Catalogs /\ t \notin DOMAIN tabs
      BY <1>4 DEF IInv, Types, Known
    <3>2. [k \in Col |-> FALSE] \in [Col -> BOOLEAN]
      OBVIOUS
    <3>3. tabs' \in Catalogs
      BY <1>2, <2>2, <3>1, <3>2, WithTable
    <3>. QED  BY <2>2, <3>1, <3>3 DEF With
  <2>5. \A u \in Tab \ {t} : SameTable(u)
    <3>1. \A g \in File : g[1] # t => (g \in files'[cwd] <=> g \in files[cwd])
      BY <2>3 DEF RecordFileOf
    <3>. QED  BY <1>2, <2>2, <2>4, <3>1, OthersSame
  <2>6. TableAt(t, "open_table", r)'
    <3>1. Record(t, TRUE, FALSE)' /\ Known(t)'
      BY <1>2, <2>1, <2>2, <2>3, <2>4 DEF Record, Known
    <3>2. \A k \in Col : Index(t, k, FALSE, FALSE)'
      BY <1>2, <2>1, <2>2, <2>3, NamesAssumption DEF Index, RecordFileOf
    <3>3. \A k \in Col : ~Marked(t, k)'
      BY <2>4 DEF Marked
    <3>. QED  BY <1>1, <3>1, <3>2, <3>3 DEF TableAt, NoRecord, Making
  <2>7. Moves(c, "open_table", r) /\ CallAt("open_table", r)
    BY <1>1, <1>2, <2>2, GoMoves DEF IInv, CallAt, CreateTableAt
  <2>8. "open_table" \in Labels \ (Moving \cup DirLabels)
    BY DEF Labels, Moving, DirLabels, ListLabels
  <2>. QED
    BY <1>1, <1>2, <2>2, <2>3, <2>4, <2>5, <2>6, <2>7, <2>8, TableStep
    DEF IInv, Types, TableOps
<1>. QED  BY <1>3, <1>4

LEMMA DropTableKeeps ==
  ASSUME IInv, NEW c \in Client, NEW r, r = call[c], DropTable(c)
  PROVE  IInv'
<1>1. pc[c] = "drop_table" /\ r.op = "drop_table"
  BY TableLabels DEF DropTable, At, IInv, CallsOK
<1>2. r.tab \in Tab \ TooLong /\ r.db = NoDb /\ r \in Calls /\ TableAt(r.tab, "drop_table", r)
  BY <1>1, AtTable DEF TableOps
<1>3. /\ Go(c, "destroy_table") /\ UNCHANGED <<posted, memory, cwd, open_files, disk>>
  BY <1>2 DEF DropTable, TableAt, Known
<1>4. /\ "destroy_table" \in Labels \ (Moving \cup DirLabels)
      /\ Moves(c, "destroy_table", r) /\ CallAt("destroy_table", r)
  BY <1>1, <1>2, <1>3, GoMoves
  DEF IInv, CallAt, DropTableAt, DropIndexAt, Labels, Moving, DirLabels, ListLabels
<1>5. TableAt(r.tab, "destroy_table", r)
  BY <1>2 DEF TableAt, NoRecord, Making, DropIndexAt
<1>. QED  BY <1>1, <1>2, <1>3, <1>4, <1>5, TableMoves DEF TableOps

LEMMA DestroyTableKeeps ==
  ASSUME IInv, NEW c \in Client, NEW r, r = call[c], DestroyTable(c)
  PROVE  IInv'
<1>. DEFINE t == r.tab
            f == RecordFileOf(t)
            s == [r EXCEPT !.todo = Col]
<1>1. pc[c] = "destroy_table" /\ r.op = "drop_table"
  BY TableLabels DEF DestroyTable, At, IInv, CallsOK
<1>2. /\ t \in Tab \ TooLong /\ current_db_name \in Db /\ cwd = current_db_name
      /\ r.db = NoDb /\ r \in Calls
      /\ open_files \in [DOMAIN open_files -> {current_db_name}]
      /\ TableAt(t, "destroy_table", r)
  BY <1>1, AtTable DEF TableOps
<1>3. /\ Known(t) /\ f \in files[cwd] /\ f \in DOMAIN open_files /\ f \in File /\ t \in fhs
      /\ \A k \in Col : Index(t, k, Marked(t, k), Marked(t, k))
  BY <1>2 DEF TableAt, Record, Index, NoRecord, RecordFileOf, File, Making
<1>4. /\ open_files' = Without(open_files, {f}) /\ files' = [files EXCEPT ![cwd] = @ \ {f}]
      /\ fhs' = fhs \ {t} /\ pc' = [pc EXCEPT ![c] = "drop_indexes"]
      /\ call' = [call EXCEPT ![c].todo = Col]
      /\ UNCHANGED <<posted, tabs, current_db_name, ihs, cwd, dirs, meta, db_list>>
  BY <1>3 DEF DestroyTable, CanClose, CanDestroy, Destroyed
<1>5. DOMAIN open_files' = DOMAIN open_files \ {f} /\ open_files' \in [DOMAIN open_files' -> {cwd}]
  BY <1>2, <1>4, WithoutFacts
<1>6. /\ files' \in [Dir -> SUBSET File] /\ files'[cwd] = files[cwd] \ {f}
      /\ \A d \in Db : d # cwd => files'[d] = files[d]
  BY <1>2, <1>4 DEF IInv, Types, Dir
<1>7. \A u \in Tab \ {t} : SameTable(u)
  <2>1. \A g \in File : g[1] # t => g # f
    BY DEF RecordFileOf
  <2>. QED  BY <1>2, <1>4, <1>5, <1>6, <2>1, OthersSame
<1>8. s \in Calls /\ s.op = r.op /\ s.db = r.db /\ s.tab = t /\ s.todo = Col
  BY <1>2 DEF Calls
<1>9. TableAt(t, "drop_indexes", s)'
  <2>1. Record(t, FALSE, FALSE)' /\ Known(t)'
    BY <1>2, <1>3, <1>4, <1>5, <1>6 DEF Record, Known
  <2>2. \A k \in Col : Marked(t, k)' <=> Marked(t, k)
    BY <1>4 DEF Marked
  <2>3. \A k \in Col : Index(t, k, Marked(t, k), Marked(t, k))'
    BY <1>2, <1>3, <1>4, <1>5, <1>6, <2>2, NamesAssumption DEF Index, RecordFileOf
  <2>. QED  BY <1>1, <1>8, <2>1, <2>2, <2>3 DEF TableAt, Index, NoRecord, Making
<1>10. Moves(c, "drop_indexes", s) /\ CallAt("drop_indexes", s)
  BY <1>1, <1>2, <1>4, <1>8 DEF IInv, Types, Moves, CallAt, DropTableAt, DropIndexAt
<1>11. "drop_indexes" \in Labels \ (Moving \cup DirLabels)
  BY DEF Labels, Moving, DirLabels, ListLabels
<1>. HIDE DEF s
<1>. QED
  BY <1>1, <1>2, <1>4, <1>5, <1>6, <1>7, <1>8, <1>9, <1>10, <1>11, TableStep
  DEF IInv, Types, TableOps

LEMMA DropNextIndexKeeps ==
  ASSUME IInv, NEW c \in Client, NEW r, r = call[c], DropNextIndex(c)
  PROVE  IInv'
<1>1. pc[c] = "drop_indexes" /\ r.op = "drop_table"
  BY TableLabels DEF DropNextIndex, At, IInv, CallsOK
<1>2. /\ r.tab \in Tab \ TooLong /\ r.db = NoDb /\ r \in Calls
      /\ TableAt(r.tab, "drop_indexes", r)
  BY <1>1, AtTable DEF TableOps
<1>3. PICK k \in r.todo :
        /\ call' = [call EXCEPT ![c].todo = @ \ {k}, ![c].col = k]
        /\ pc' = [pc EXCEPT ![c] = IF <<r.tab, k>> \in Indexed(tabs) THEN "drop_index" ELSE "drop_indexes"]
        /\ UNCHANGED <<posted, memory, cwd, open_files, disk>>
  BY DEF DropNextIndex
<1>. DEFINE s == [r EXCEPT !.todo = @ \ {k}, !.col = k]
            p == IF <<r.tab, k>> \in Indexed(tabs) THEN "drop_index" ELSE "drop_indexes"
<1>4. /\ s \in Calls /\ s.op = r.op /\ s.db = r.db /\ s.tab = r.tab
      /\ s.todo = r.todo \ {k} /\ s.col = k /\ k \in Col
  BY <1>2 DEF Calls
<1>5. <<r.tab, k>> \in Indexed(tabs) <=> Marked(r.tab, k)
  BY <1>4, FilesOfCatalog DEF IInv, Types, Marked
<1>6. TableAt(r.tab, p, s)
  <2>1. /\ Known(r.tab) /\ Record(r.tab, FALSE, FALSE)
        /\ \A j \in Col : /\ Index(r.tab, j, Marked(r.tab, j), Marked(r.tab, j))
                          /\ j \notin r.todo => ~Marked(r.tab, j)
    BY <1>1, <1>2 DEF TableAt, Index, NoRecord, Making, DropIndexAt
  <2>2. p \in {"drop_index", "drop_indexes"} /\ (p = "drop_index" <=> Marked(r.tab, k))
    BY <1>5
  <2>. HIDE DEF p, s
  <2>. QED  BY <1>1, <1>4, <2>1, <2>2 DEF TableAt, Index, NoRecord, Making, DropIndexAt
<1>7. Moves(c, p, s) /\ CallAt(p, s)
  BY <1>1, <1>2, <1>3, <1>4 DEF IInv, Types, Moves, CallAt, DropTableAt, DropIndexAt
<1>8. p \in Labels \ (Moving \cup DirLabels)
  BY DEF Labels, Moving, DirLabels, ListLabels, DbOps, TableOps, IndexOps
<1>. HIDE DEF s
<1>. QED  BY <1>1, <1>2, <1>3, <1>4, <1>6, <1>7, <1>8, TableMoves DEF TableOps

LEMMA ForgetTableKeeps ==
  ASSUME IInv, NEW c \in Client, NEW r, r = call[c], ForgetTable(c)
  PROVE  IInv'
<1>. DEFINE t == r.tab
<1>1. pc[c] = "drop_indexes" /\ r.op = "drop_table"
  BY TableLabels DEF ForgetTable, At, IInv, CallsOK
<1>2. /\ t \in Tab \ TooLong /\ current_db_name \in Db /\ cwd = current_db_name
      /\ open_files \in [DOMAIN open_files -> {current_db_name}]
      /\ TableAt(t, "drop_indexes", r)
  BY <1>1, AtTable DEF TableOps
<1>3. /\ tabs' = Without(tabs, {t}) /\ Return(c) /\ r.todo = {}
      /\ UNCHANGED <<posted, current_db_name, fhs, ihs, cwd, open_files, disk>>
  BY DEF ForgetTable
<1>4. /\ tabs' \in Catalogs /\ DOMAIN tabs' = DOMAIN tabs \ {t}
      /\ \A u \in DOMAIN tabs' : tabs'[u] = tabs[u]
  <2>1. tabs \in Catalogs /\ Without(tabs, {t}) \in Catalogs
    BY <1>2, WithoutTable DEF IInv, Types
  <2>. QED  BY <1>3, <2>1 DEF Without
<1>5. \A u \in Tab \ {t} : SameTable(u)
  BY <1>3, <1>4, OthersSame DEF disk
<1>6. TableAt(t, "idle", NoCall)'
  <2>1. /\ Record(t, FALSE, FALSE)
        /\ \A k \in Col : ~Marked(t, k) /\ Index(t, k, FALSE, FALSE)
    BY <1>1, <1>2, <1>3 DEF TableAt, NoRecord, Making, DropIndexAt
  <2>2. /\ ~Known(t)' /\ Record(t, FALSE, FALSE)'
        /\ \A k \in Col : ~Marked(t, k)' /\ Index(t, k, FALSE, FALSE)'
    BY <1>3, <1>4, <2>1 DEF Known, Marked, Record, Index, disk
  <2>. QED  BY <2>2 DEF TableAt, NoRecord, NoCall, Making
<1>. QED
  BY <1>1, <1>2, <1>3, <1>4, <1>5, <1>6, Idle, NoCallType, TableStep
  DEF IInv, Types, disk, TableOps

-----------------------------------------------------------------------------
(* The steps of create_index and drop_index.                               *)

LEMMA CreateIndexKeeps ==
  ASSUME IInv, NEW c \in Client, NEW r, r = call[c], CreateIndex(c)
  PROVE  IInv'
<1>. DEFINE t == r.tab
            k == r.col
            f == IndexFileOf(t, k)
<1>1. pc[c] = "create_index" /\ r.op = "create_index"
  BY TableLabels DEF CreateIndex, At, IInv, CallsOK, CreateIndexAt
<1>2. /\ t \in Tab \ TooLong /\ current_db_name \in Db /\ cwd = current_db_name /\ InDirectory
      /\ r.db = NoDb /\ r \in Calls /\ CallAt("create_index", r)
      /\ open_files \in [DOMAIN open_files -> {current_db_name}]
      /\ TableAt(t, "create_index", r)
  BY <1>1, AtTable DEF IndexOps
<1>3. k \in Col
  BY <1>1, <1>2 DEF CallAt
<1>4. /\ Known(t) /\ Record(t, TRUE, TRUE)
      /\ \A j \in Col : Index(t, j, Marked(t, j), Marked(t, j))
  BY <1>1, <1>2 DEF TableAt, Index, NoRecord, Making
<1>5. tabs \in Catalogs /\ k \in DOMAIN tabs[t] /\ (f \in Indexed(tabs) <=> Marked(t, k))
  <2>1. tabs \in Catalogs
    BY DEF IInv, Types
  <2>. QED  BY <1>3, <1>4, <2>1, CatalogForm, FilesOfCatalog DEF Known, Marked, IndexFileOf
<1>6. CASE Marked(t, k)
  <2>1. Refused(c)
    BY <1>5, <1>6 DEF CreateIndex
  <2>2. TableAt(t, "idle", NoCall)
    BY <1>4, NamesAssumption DEF TableAt, Index, NoRecord, NoCall, Making
  <2>. QED  BY <1>1, <2>1, <2>2, Idle, NoCallType, TableMoves DEF Refused, IndexOps
<1>7. CASE ~Marked(t, k)
  <2>1. f \notin files[cwd] /\ f \notin DOMAIN open_files /\ f \in File
    BY <1>2, <1>3, <1>4, <1>7 DEF Index, IndexFileOf, File
  <2>2. /\ files' = [files EXCEPT ![cwd] = @ \cup {f}]
        /\ open_files' = With(open_files, f, cwd) /\ Go(c, "find_table")
        /\ UNCHANGED <<posted, memory, cwd, dirs, meta, db_list>>
    BY <1>2, <1>4, <1>5, <1>7, <2>1 DEF CreateIndex, CanCreate, Created, Known
  <2>3. /\ files' \in [Dir -> SUBSET File] /\ files'[cwd] = files[cwd] \cup {f}
        /\ \A d \in Db : d # cwd => files'[d] = files[d]
    BY <1>2, <2>1, <2>2 DEF IInv, Types, Dir
  <2>4. /\ DOMAIN open_files' = DOMAIN open_files \cup {f}
        /\ open_files' \in [DOMAIN open_files' -> {cwd}]
    BY <1>2, <2>1, <2>2 DEF With
  <2>5. \A u \in Tab \ {t} : SameTable(u)
    <3>1. \A g \in File : g[1] # t => g # f
      BY DEF IndexFileOf
    <3>. QED  BY <1>2, <2>2, <2>3, <2>4, <3>1, OthersSame DEF memory
  <2>6. TableAt(t, "find_table", r)'
    <3>1. Record(t, TRUE, TRUE)' /\ Known(t)' /\ \A j \in Col : Marked(t, j)' <=> Marked(t, j)
      BY <1>2, <1>3, <1>4, <2>2, <2>3, <2>4, NamesAssumption
      DEF Record, Known, Marked, memory, RecordFileOf, IndexFileOf
    <3>2. Index(t, k, TRUE, FALSE)' /\ ~Marked(t, k)'
      BY <1>2, <1>3, <1>4, <1>7, <2>2, <2>3, <2>4, <3>1 DEF Index, memory, IndexFileOf
    <3>3. \A j \in Col \ {k} : Index(t, j, Marked(t, j), Marked(t, j))'
      BY <1>2, <1>4, <2>2, <2>3, <2>4, <3>1 DEF Index, memory, IndexFileOf
    <3>. QED  BY <1>1, <3>1, <3>2, <3>3 DEF TableAt, Index, NoRecord, Making
  <2>7. /\ Moves(c, "find_table", r) /\ CallAt("find_table", r)
        /\ "find_table" \in Labels \ (Moving \cup DirLabels)
    BY <1>1, <1>2, <1>3, <2>2, GoMoves
    DEF IInv, CallAt, CreateIndexAt, Making, Labels, Moving, DirLabels, ListLabels
  <2>. QED
    BY <1>1, <1>2, <2>2, <2>3, <2>4, <2>5, <2>6, <2>7, TableStep DEF IInv, Types, IndexOps, memory
<1>. QED  BY <1>6, <1>7

\* The labels where an index is made follow each other in the same call.
LEMMA MakingGoes ==
  ASSUME IInv, NEW c \in Client, NEW r, r = call[c], r.op = "create_index",
         NEW p \in Making, Go(c, p)
  PROVE  /\ Moves(c, p, r) /\ CallAt(p, r) /\ p \in Labels \ (Moving \cup DirLabels) /\ r \in Calls
         /\ r.tab \in Tab \ TooLong /\ r.db = NoDb /\ r.col \in Col
<1>1. r.tab \in Tab \ TooLong /\ r.db = NoDb /\ r \in Calls /\ CallAt(pc[c], r)
  BY AtTable DEF IndexOps
<1>2. r.col \in Col
  BY <1>1 DEF CallAt, NoCall
<1>3. CallAt(p, r) /\ p \in Labels \ (Moving \cup DirLabels)
  BY <1>1, <1>2 DEF CallAt, CreateIndexAt, Making, Labels, Moving, DirLabels, ListLabels
<1>. QED  BY <1>1, <1>2, <1>3, GoMoves DEF IInv

LEMMA FindTableKeeps ==
  ASSUME IInv, NEW c \in Client, NEW r, r = call[c], FindTable(c)
  PROVE  IInv'
<1>1. pc[c] = "find_table" /\ r.op = "create_index"
  BY TableLabels DEF FindTable, At, IInv, CallsOK, CreateIndexAt, Making
<1>2. TableAt(r.tab, "find_table", r)
  BY <1>1, AtTable DEF IndexOps
<1>3. Go(c, "fill_index") /\ UNCHANGED <<posted, memory, cwd, open_files, disk>>
  BY <1>1, <1>2 DEF FindTable, TableAt, Record, NoRecord
<1>4. TableAt(r.tab, "fill_index", r)
  BY <1>1, <1>2 DEF TableAt, NoRecord, Making
<1>. QED  BY <1>1, <1>3, <1>4, MakingGoes, TableMoves DEF Making, IndexOps

LEMMA FillIndexKeeps ==
  ASSUME IInv, NEW c \in Client, NEW r, r = call[c], FillIndex(c)
  PROVE  IInv'
<1>1. pc[c] = "fill_index" /\ r.op = "create_index"
  BY TableLabels DEF FillIndex, At, IInv, CallsOK, CreateIndexAt, Making
<1>2. TableAt(r.tab, "fill_index", r)
  BY <1>1, AtTable DEF IndexOps
<1>3. Go(c, "store_index") /\ UNCHANGED <<posted, memory, cwd, open_files, disk>>
  BY DEF FillIndex
<1>4. TableAt(r.tab, "store_index", r)
  BY <1>1, <1>2 DEF TableAt, NoRecord, Making
<1>. QED  BY <1>1, <1>3, <1>4, MakingGoes, TableMoves DEF Making, IndexOps

LEMMA StoreIndexKeeps ==
  ASSUME IInv, NEW c \in Client, NEW r, r = call[c], StoreIndex(c)
  PROVE  IInv'
<1>. DEFINE t == r.tab
            k == r.col
            f == IndexFileOf(t, k)
<1>1. pc[c] = "store_index" /\ r.op = "create_index"
  BY TableLabels DEF StoreIndex, At, IInv, CallsOK, CreateIndexAt, Making
<1>2. TableAt(t, "store_index", r) /\ open_files \in [DOMAIN open_files -> {current_db_name}]
  BY <1>1, AtTable DEF IndexOps
<1>3. /\ ihs' = ihs \cup {f} /\ Go(c, "mark_index")
      /\ UNCHANGED <<posted, tabs, current_db_name, fhs, cwd, open_files, disk>>
  BY DEF StoreIndex
<1>4. /\ Moves(c, "mark_index", r) /\ CallAt("mark_index", r) /\ r \in Calls
      /\ "mark_index" \in Labels \ (Moving \cup DirLabels)
      /\ t \in Tab \ TooLong /\ k \in Col /\ f \in Tab \X Col
  BY <1>1, <1>3, MakingGoes DEF Making, IndexFileOf
<1>5. /\ Known(t) /\ Record(t, TRUE, TRUE) /\ ~Marked(t, k) /\ Index(t, k, TRUE, FALSE)
      /\ \A j \in Col \ {k} : Index(t, j, Marked(t, j), Marked(t, j))
  BY <1>1, <1>2, <1>4 DEF TableAt, Index, NoRecord, Making
<1>6. \A u \in Tab \ {t} : SameTable(u)
  <2>1. \A g \in File : g[1] # t => g # f
    BY DEF IndexFileOf
  <2>. QED  BY <1>3, <2>1, OthersSame DEF disk
<1>7. TableAt(t, "mark_index", r)'
  <2>1. Record(t, TRUE, TRUE)' /\ Known(t)' /\ \A j \in Col : Marked(t, j)' <=> Marked(t, j)
    BY <1>3, <1>5 DEF Record, Known, Marked, disk
  <2>2. Index(t, k, TRUE, TRUE)' /\ ~Marked(t, k)'
    BY <1>3, <1>4, <1>5, <2>1 DEF Index, IndexFileOf, disk
  <2>3. \A j \in Col \ {k} : Index(t, j, Marked(t, j), Marked(t, j))'
    BY <1>3, <1>5, <2>1 DEF Index, IndexFileOf, disk
  <2>. QED  BY <1>1, <2>1, <2>2, <2>3 DEF TableAt, Index, NoRecord, Making
<1>. QED
  BY <1>1, <1>2, <1>3, <1>4, <1>6, <1>7, TableStep DEF IInv, Types, disk, IndexOps

\* What col->index becomes.
LEMMA MarkFacts ==
  ASSUME IInv, NEW c \in Client, NEW r, r = call[c], NEW b \in BOOLEAN, Mark(c, b),
         r.tab \in Tab, r.col \in Col, Known(r.tab),
         UNCHANGED <<current_db_name, fhs, ihs, open_files, disk>>
  PROVE  /\ tabs' \in Catalogs /\ Known(r.tab)' /\ (Marked(r.tab, r.col)' <=> b)
         /\ \A j \in Col \ {r.col} : Marked(r.tab, j)' <=> Marked(r.tab, j)
         /\ \A u \in Tab \ {r.tab} : SameTable(u)
<1>. DEFINE t == r.tab
            k == r.col
<1>1. tabs \in Catalogs /\ t \in DOMAIN tabs
  BY DEF IInv, Types, Known
<1>2. tabs \in [DOMAIN tabs -> [Col -> BOOLEAN]]
  BY <1>1, CatalogForm
<1>3. tabs' = [tabs EXCEPT ![t][k] = b]
  BY <1>1, <1>2 DEF Mark
<1>4. /\ tabs' \in Catalogs /\ DOMAIN tabs' = DOMAIN tabs /\ tabs'[t][k] = b
      /\ \A j \in Col \ {k} : tabs'[t][j] = tabs[t][j]
      /\ \A u \in DOMAIN tabs \ {t} : tabs'[u] = tabs[u]
  <2>1. tabs' \in Catalogs
    BY <1>1, <1>3, MarkedTable
  <2>. QED  BY <1>1, <1>2, <1>3, <2>1
<1>5. \A u \in Tab \ {t} : SameTable(u)
  BY <1>4, OthersSame DEF disk
<1>. QED  BY <1>1, <1>4, <1>5 DEF Known, Marked

LEMMA MarkIndexKeeps ==
  ASSUME IInv, NEW c \in Client, NEW r, r = call[c], MarkIndex(c)
  PROVE  IInv'
<1>. DEFINE t == r.tab
            k == r.col
<1>1. pc[c] = "mark_index" /\ r.op = "create_index"
  BY TableLabels DEF MarkIndex, At, IInv, CallsOK, CreateIndexAt, Making
<1>2. /\ t \in Tab \ TooLong /\ CallAt("mark_index", r)
      /\ TableAt(t, "mark_index", r) /\ open_files \in [DOMAIN open_files -> {current_db_name}]
  BY <1>1, AtTable DEF IndexOps
<1>3. Known(t) /\ k \in Col
  BY <1>1, <1>2 DEF TableAt, CallAt
<1>4. /\ Mark(c, TRUE) /\ Return(c)
      /\ UNCHANGED <<posted, current_db_name, fhs, ihs, cwd, open_files, disk>>
  BY DEF MarkIndex
<1>5. /\ tabs' \in Catalogs /\ Known(t)' /\ Marked(t, k)'
      /\ \A j \in Col \ {k} : Marked(t, j)' <=> Marked(t, j)
      /\ \A u \in Tab \ {t} : SameTable(u)
  BY <1>2, <1>3, <1>4, MarkFacts
<1>6. TableAt(t, "idle", NoCall)'
  <2>1. /\ Record(t, TRUE, TRUE) /\ Index(t, k, TRUE, TRUE)
        /\ \A j \in Col \ {k} : Index(t, j, Marked(t, j), Marked(t, j))
    BY <1>1, <1>2, <1>3 DEF TableAt, Index, NoRecord, Making
  <2>2. /\ Record(t, TRUE, TRUE)' /\ Index(t, k, TRUE, TRUE)'
        /\ \A j \in Col \ {k} : Index(t, j, Marked(t, j), Marked(t, j))'
    BY <1>4, <1>5, <2>1 DEF Record, Index, disk
  <2>. QED  BY <1>5, <2>2, NamesAssumption DEF TableAt, Index, NoRecord, NoCall, Making
<1>. QED
  BY <1>1, <1>2, <1>4, <1>5, <1>6, Idle, NoCallType, TableStep
  DEF IInv, Types, disk, IndexOps

LEMMA DropIndexKeeps ==
  ASSUME IInv, NEW c \in Client, NEW r, r = call[c], DropIndex(c)
  PROVE  IInv'
<1>. DEFINE t == r.tab
            k == r.col
<1>1. pc[c] = "drop_index" /\ r.op \in {"drop_table", "drop_index"}
  BY TableLabels DEF DropIndex, At, IInv, CallsOK, DropIndexAt
<1>2. /\ t \in Tab \ TooLong /\ r.db = NoDb /\ r \in Calls /\ CallAt("drop_index", r)
      /\ TableAt(t, "drop_index", r)
  BY <1>1, AtTable DEF TableOps, IndexOps
<1>3. Known(t) /\ k \in Col
  BY <1>1, <1>2 DEF TableAt, CallAt, DropIndexAt
<1>4. k \in DOMAIN tabs[t] /\ (<<t, k>> \in Indexed(tabs) <=> Marked(t, k))
  <2>1. tabs \in Catalogs
    BY DEF IInv, Types
  <2>. QED  BY <1>3, <2>1, CatalogForm, FilesOfCatalog DEF Known, Marked
<1>5. CASE Marked(t, k)
  <2>1. Go(c, "destroy_index") /\ UNCHANGED <<posted, memory, cwd, open_files, disk>>
    BY <1>3, <1>4, <1>5 DEF DropIndex, Known, Marked, memory
  <2>2. TableAt(t, "destroy_index", r)
    BY <1>1, <1>2, <1>3, <1>5 DEF TableAt, Index, NoRecord, Making, DropIndexAt
  <2>3. /\ Moves(c, "destroy_index", r) /\ CallAt("destroy_index", r)
        /\ "destroy_index" \in Labels \ (Moving \cup DirLabels)
    BY <1>1, <1>2, <1>3, <2>1, GoMoves
    DEF IInv, CallAt, DropTableAt, DropIndexAt, Labels, Moving, DirLabels, ListLabels
  <2>. QED  BY <1>1, <1>2, <2>1, <2>2, <2>3, TableMoves DEF TableOps, IndexOps
<1>6. CASE ~Marked(t, k)
  <2>1. Refused(c)
    BY <1>3, <1>4, <1>6 DEF DropIndex, Known, Marked
  <2>2. r.op = "drop_index"
    BY <1>1, <1>2, <1>6 DEF TableAt, NoRecord
  <2>3. TableAt(t, "idle", NoCall)
    BY <1>2, <1>3, <2>2, NamesAssumption DEF TableAt, Index, NoRecord, NoCall, Making, DropIndexAt
  <2>. QED  BY <1>1, <2>1, <2>3, Idle, NoCallType, TableMoves DEF Refused, TableOps, IndexOps
<1>. QED  BY <1>5, <1>6

LEMMA DestroyIndexKeeps ==
  ASSUME IInv, NEW c \in Client, NEW r, r = call[c], DestroyIndex(c)
  PROVE  IInv'
<1>. DEFINE t == r.tab
            k == r.col
            f == IndexFileOf(t, k)
<1>1. pc[c] = "destroy_index" /\ r.op \in {"drop_table", "drop_index"}
  BY TableLabels DEF DestroyIndex, At, IInv, CallsOK, DropIndexAt
<1>2. /\ t \in Tab \ TooLong /\ current_db_name \in Db /\ cwd = current_db_name
      /\ r.db = NoDb /\ r \in Calls /\ CallAt("destroy_index", r)
      /\ open_files \in [DOMAIN open_files -> {current_db_name}]
      /\ TableAt(t, "destroy_index", r)
  BY <1>1, AtTable DEF TableOps, IndexOps
<1>3. /\ Known(t) /\ k \in Col /\ Marked(t, k) /\ Index(t, k, TRUE, TRUE)
      /\ Record(t, ~NoRecord("destroy_index", r), ~NoRecord("destroy_index", r))
      /\ \A j \in Col \ {k} : /\ Index(t, j, Marked(t, j), Marked(t, j))
                              /\ NoRecord("destroy_index", r) /\ j \notin r.todo => ~Marked(t, j)
  BY <1>2 DEF TableAt, Record, Index, NoRecord, Making
<1>4. /\ open_files' = Without(open_files, {f}) /\ files' = [files EXCEPT ![cwd] = @ \ {f}]
      /\ ihs' = ihs \ {f} /\ Go(c, "unmark_index")
      /\ UNCHANGED <<posted, tabs, current_db_name, fhs, cwd, dirs, meta, db_list>>
  BY <1>2, <1>3 DEF DestroyIndex, CanClose, CanDestroy, Destroyed, Index, IndexFileOf
<1>5. DOMAIN open_files' = DOMAIN open_files \ {f} /\ open_files' \in [DOMAIN open_files' -> {cwd}]
  BY <1>2, <1>4 DEF Without
<1>6. /\ files' \in [Dir -> SUBSET File] /\ files'[cwd] = files[cwd] \ {f}
      /\ \A d \in Db : d # cwd => files'[d] = files[d]
  BY <1>2, <1>4 DEF IInv, Types, Dir
<1>7. \A u \in Tab \ {t} : SameTable(u)
  <2>1. \A g \in File : g[1] # t => g # f
    BY DEF IndexFileOf
  <2>. QED  BY <1>2, <1>4, <1>5, <1>6, <2>1, OthersSame
<1>8. TableAt(t, "unmark_index", r)'
  <2>1. Known(t)' /\ \A j \in Col : Marked(t, j)' <=> Marked(t, j)
    BY <1>3, <1>4 DEF Known, Marked
  <2>2. Record(t, ~NoRecord("unmark_index", r), ~NoRecord("unmark_index", r))'
    BY <1>2, <1>3, <1>4, <1>5, <1>6, NamesAssumption
    DEF Record, RecordFileOf, IndexFileOf, NoRecord
  <2>3. Index(t, k, FALSE, FALSE)'
    BY <1>2, <1>4, <1>5, <1>6 DEF Index, IndexFileOf
  <2>4. \A j \in Col \ {k} : Index(t, j, Marked(t, j), Marked(t, j))'
    BY <1>2, <1>3, <1>4, <1>5, <1>6, <2>1 DEF Index, IndexFileOf
  <2>. QED  BY <1>3, <2>1, <2>2, <2>3, <2>4 DEF TableAt, Record, Index, NoRecord, Making, DropIndexAt
<1>9. /\ Moves(c, "unmark_index", r) /\ CallAt("unmark_index", r)
      /\ "unmark_index" \in Labels \ (Moving \cup DirLabels)
  BY <1>1, <1>2, <1>3, <1>4, GoMoves
  DEF IInv, CallAt, DropTableAt, DropIndexAt, Labels, Moving, DirLabels, ListLabels
<1>. QED
  BY <1>1, <1>2, <1>4, <1>5, <1>6, <1>7, <1>8, <1>9, TableStep
  DEF IInv, Types, TableOps, IndexOps

LEMMA UnmarkIndexKeeps ==
  ASSUME IInv, NEW c \in Client, NEW r, r = call[c], UnmarkIndex(c)
  PROVE  IInv'
<1>. DEFINE t == r.tab
            k == r.col
<1>1. pc[c] = "unmark_index" /\ r.op \in {"drop_table", "drop_index"}
  BY TableLabels DEF UnmarkIndex, At, IInv, CallsOK, DropIndexAt
<1>2. /\ t \in Tab \ TooLong /\ r.db = NoDb /\ r \in Calls
      /\ open_files \in [DOMAIN open_files -> {current_db_name}]
      /\ TableAt(t, "unmark_index", r)
  BY <1>1, AtTable DEF TableOps, IndexOps
<1>3. /\ Known(t) /\ k \in Col /\ Index(t, k, FALSE, FALSE)
      /\ Record(t, ~NoRecord("unmark_index", r), ~NoRecord("unmark_index", r))
      /\ \A j \in Col \ {k} : /\ Index(t, j, Marked(t, j), Marked(t, j))
                              /\ NoRecord("unmark_index", r) /\ j \notin r.todo => ~Marked(t, j)
  BY <1>2 DEF TableAt, Record, Index, NoRecord, Making
<1>4. /\ Mark(c, FALSE)
      /\ IF r.op = "drop_table" THEN Go(c, "drop_indexes") ELSE Return(c)
      /\ UNCHANGED <<posted, current_db_name, fhs, ihs, cwd, open_files, disk>>
  BY DEF UnmarkIndex
<1>5. /\ tabs' \in Catalogs /\ Known(t)' /\ ~Marked(t, k)'
      /\ \A j \in Col \ {k} : Marked(t, j)' <=> Marked(t, j)
      /\ \A u \in Tab \ {t} : SameTable(u)
  BY <1>2, <1>3, <1>4, MarkFacts
<1>6. /\ Record(t, ~NoRecord("unmark_index", r), ~NoRecord("unmark_index", r))'
      /\ Index(t, k, FALSE, FALSE)'
      /\ \A j \in Col \ {k} : Index(t, j, Marked(t, j), Marked(t, j))'
  BY <1>3, <1>4, <1>5 DEF Record, Index, NoRecord, disk
<1>7. CASE r.op = "drop_table"
  <2>1. TableAt(t, "drop_indexes", r)'
    BY <1>3, <1>5, <1>6, <1>7 DEF TableAt, Record, Index, NoRecord, Making
  <2>2. /\ Moves(c, "drop_indexes", r) /\ CallAt("drop_indexes", r)
        /\ "drop_indexes" \in Labels \ (Moving \cup DirLabels)
    BY <1>2, <1>4, <1>7, GoMoves
    DEF IInv, CallAt, DropTableAt, DropIndexAt, Labels, Moving, DirLabels, ListLabels
  <2>. QED
    BY <1>1, <1>2, <1>4, <1>5, <1>7, <2>1, <2>2, TableStep DEF IInv, Types, disk, TableOps
<1>8. CASE r.op = "drop_index"
  <2>1. TableAt(t, "idle", NoCall)'
    BY <1>5, <1>6, <1>8, NamesAssumption DEF TableAt, Record, Index, NoRecord, NoCall, Making
  <2>. QED
    BY <1>1, <1>2, <1>4, <1>5, <1>8, <2>1, Idle, NoCallType, TableStep
    DEF IInv, Types, disk, IndexOps
<1>. QED  BY <1>1, <1>7, <1>8

-----------------------------------------------------------------------------
(* The steps of create_db and drop_db.                                     *)

\* The operation a thread is in at a label of the operations on databases.
LEMMA DbLabels ==
  ASSUME NEW p, NEW r, CallAt(p, r)
  PROVE  /\ p \in CreateDbAt => r.op = "create_db"
         /\ p \in DropDbAt => r.op = "drop_db"
         /\ p \in OpenDbAt \ CloseDbAt => r.op = "open_db"
         /\ p \in CloseDbAt => r.op \in {"open_db", "close_db"}
BY DEF CallAt, CreateDbAt, DropDbAt, OpenDbAt, CloseDbAt, CreateTableAt, DropTableAt, CreateIndexAt,
       DropIndexAt, Making

\* What a thread that creates or drops a database can rely on.
LEMMA AtDatabase ==
  ASSUME IInv, NEW c \in Client, NEW r, r = call[c], r.op \in {"create_db", "drop_db"}
  PROVE  /\ r.db \in Db /\ r.tab = NoTab /\ r \in Calls /\ CallAt(pc[c], r)
         /\ \A o \in Client \ {c} : call[o].db # r.db
         /\ r.db \notin dirs => meta[r.db] = NoMeta /\ files[r.db] = {}
         /\ r.db \in dirs /\ pc[c] # "write_meta" => meta[r.db] # NoMeta
         /\ r.db # current_db_name => files[r.db] = FilesOf(Stored(r.db))
         /\ pc[c] \notin ListLabels => (r.db \in dirs <=> r.db \in db_list)
<1>1. r \in Calls /\ CallAt(pc[c], r)
  BY DEF IInv, CallsOK, Types
<1>2. r.db \in Db /\ r.tab = NoTab
  BY <1>1 DEF CallAt, NoCall
<1>3. \A o \in Client \ {c} : call[o].db # r.db
  BY <1>2, NamesAssumption DEF IInv, CallsOK, Compatible
<1>4. DatabaseOK(r.db)
  BY <1>2 DEF IInv, DirsOK
<1>. QED  BY <1>1, <1>2, <1>3, <1>4 DEF DatabaseOK, At

\* A step of those operations, on the database d of the call.
LEMMA DbStep ==
  ASSUME IInv, NEW c \in Client, NEW r, r = call[c], r.op \in {"create_db", "drop_db"},
         NEW p \in Labels, NEW s \in Calls, Moves(c, p, s), CallAt(p, s),
         \/ s = NoCall
         \/ s = r,
         UNCHANGED <<posted, memory, cwd, open_files>>,
         dirs' \subseteq Db, db_list' \subseteq Db, files' \in [Dir -> SUBSET File],
         meta' \in [Dir -> Catalogs \cup {NoMeta}],
         \A e \in Db \ {r.db} : /\ e \in dirs' <=> e \in dirs
                                /\ e \in db_list' <=> e \in db_list
                                /\ files'[e] = files[e] /\ meta'[e] = meta[e],
         r.db = current_db_name =>
           r.db \in dirs' /\ files'[r.db] = files[r.db] /\ meta'[r.db] = meta[r.db],
         r.db \notin dirs' => meta'[r.db] = NoMeta /\ files'[r.db] = {},
         r.db \in dirs' /\ p # "write_meta" => meta'[r.db] # NoMeta,
         r.db # current_db_name => files'[r.db] = FilesOf(Stored(r.db)'),
         p \notin ListLabels => (r.db \in dirs' <=> r.db \in db_list'),
         p \in {"write_meta", "register_database"} => r.db \in dirs',
         p = "write_meta" => meta'[r.db] = NoMeta,
         p \in {"write_meta", "remove_dir"} => r.db # current_db_name,
         p = "unregister_database" => r.db \notin dirs'
  PROVE  IInv'
<1>. DEFINE d == r.db
<1>1. /\ d \in Db /\ r.tab = NoTab /\ CallAt(pc[c], r)
      /\ \A o \in Client \ {c} : call[o].db # d
  BY AtDatabase
<1>2. /\ pc'[c] = p /\ call'[c] = s /\ pc' \in [Client -> Labels] /\ call' \in [Client -> Calls]
      /\ \A o \in Client \ {c} : pc'[o] = pc[o] /\ call'[o] = call[o]
  BY Moved DEF IInv
<1>3. /\ {p, pc[c]} \cap (Moving \cup {"open_all", "switch", "load"}) = {}
      /\ s.tab = NoTab /\ (s.db = d \/ p = "idle")
  BY <1>1, NamesAssumption DEF CallAt, NoCall, CreateDbAt, DropDbAt, Moving
<1>4. Types'
  BY <1>2 DEF IInv, Types, memory
<1>5. CallsOK'
  BY CallsKept DEF IInv
<1>6. SemsOK'
  BY <1>3, SemsKept
<1>7. DirsOK'
  <2>1. ASSUME NEW e \in Db \ {d} PROVE DatabaseOK(e)'
    <3>1. \A o \in Client : \/ pc'[o] = pc[o] /\ call'[o] = call[o]
                            \/ call[o].db # e /\ (call'[o].db # e \/ pc'[o] = "idle")
      BY <1>1, <1>2, <1>3
    <3>2. /\ (\A o \in Client : At(o, "write_meta") => call[o].db # e)'
               => \A o \in Client : At(o, "write_meta") => call[o].db # e
          /\ (\A o \in Client : pc[o] \in ListLabels => call[o].db # e)'
               => \A o \in Client : pc[o] \in ListLabels => call[o].db # e
      BY <3>1 DEF At
    <3>3. Stored(e)' = Stored(e)
      BY DEF Stored
    <3>. QED  BY <3>2, <3>3 DEF IInv, DirsOK, DatabaseOK, FilesOf, Indexed, memory
  <2>2. DatabaseOK(d)'
    <3>1. (\A o \in Client : At(o, "write_meta") => call[o].db # d)' => p # "write_meta"
      BY <1>2, <1>3 DEF At
    <3>2. (\A o \in Client : pc[o] \in ListLabels => call[o].db # d)' => p \notin ListLabels
      BY <1>2, <1>3 DEF ListLabels
    <3>. QED  BY <3>1, <3>2 DEF DatabaseOK, memory, FilesOf, Indexed
  <2>3. \A o \in Client \ {c} :
          /\ pc'[o] \in {"write_meta", "register_database"} => call'[o].db \in dirs'
          /\ pc'[o] = "write_meta" => meta'[call'[o].db] = NoMeta
          /\ pc'[o] \in {"write_meta", "remove_dir"} => call'[o].db # current_db_name
          /\ pc'[o] = "unregister_database" => call'[o].db \notin dirs'
          /\ call'[o].op # "open_db"
          /\ pc'[o] = "load" => current_db_name = NoDb
    <3>1. ASSUME NEW o \in Client \ {c}
          PROVE  pc[o] \in DirLabels => call[o].db \in Db \ {d}
      <4>1. CallAt(pc[o], call[o])
        BY DEF IInv, CallsOK
      <4>2. pc[o] \in DirLabels => call[o].db \in Db
        BY <4>1 DEF CallAt, CloseDbAt, CreateTableAt, DropTableAt, CreateIndexAt, DropIndexAt,
                    Making, DirLabels, ListLabels
      <4>. QED  BY <1>1, <4>2
    <3>2. \A o \in Client : ~Exclusive(call[o].op)
      BY Quiet
    <3>. QED  BY <1>2, <3>1, <3>2 DEF IInv, DirsOK, At, DirLabels, ListLabels, Exclusive
  <2>4. /\ p \in {"write_meta", "register_database"} => s.db \in dirs'
        /\ p = "write_meta" => meta'[s.db] = NoMeta
        /\ p \in {"write_meta", "remove_dir"} => s.db # current_db_name
        /\ p = "unregister_database" => s.db \notin dirs'
        /\ p # "load" /\ s.op # "open_db"
    BY <1>3 DEF NoCall
  <2>5. current_db_name # NoDb => current_db_name \in dirs'
    BY DEF IInv, Types, DirsOK
  <2>. QED  BY <1>2, <2>1, <2>2, <2>3, <2>4, <2>5 DEF IInv, DirsOK, At, memory
<1>8. PhaseOK'
  <2>1. current_db_name # NoDb => /\ files'[current_db_name] = files[current_db_name]
                                  /\ meta'[current_db_name] = meta[current_db_name]
    BY DEF IInv, Types
  <2>. QED  BY <1>1, <1>3, <2>1, PhaseKept DEF memory
<1>. QED  BY <1>4, <1>5, <1>6, <1>7, <1>8 DEF IInv

LEMMA CreateDbKeeps ==
  ASSUME IInv, NEW c \in Client, NEW r, r = call[c], CreateDb(c)
  PROVE  IInv'
<1>. DEFINE d == r.db
<1>1. pc[c] = "create_db" /\ r.op = "create_db"
  BY DbLabels DEF CreateDb, At, IInv, CallsOK, CreateDbAt
<1>2. /\ d \in Db /\ r.tab = NoTab /\ r \in Calls
      /\ d \notin dirs => meta[d] = NoMeta /\ files[d] = {}
      /\ d \in dirs => meta[d] # NoMeta
      /\ d # current_db_name => files[d] = FilesOf(Stored(d))
      /\ d \in dirs <=> d \in db_list
  BY <1>1, AtDatabase DEF ListLabels
<1>3. CASE d \in dirs
  <2>1. Refused(c)
    BY <1>3 DEF CreateDb
  <2>. QED
    BY <1>1, <1>2, <1>3, <2>1, Idle, NoCallType, DbStep
    DEF Refused, disk, IInv, Types, Stored, ListLabels
<1>4. CASE d \notin dirs
  <2>1. /\ dirs' = dirs \cup {d} /\ Go(c, "write_meta")
        /\ UNCHANGED <<posted, memory, cwd, open_files, files, meta, db_list>>
    BY <1>4 DEF CreateDb
  <2>2. Moves(c, "write_meta", r) /\ CallAt("write_meta", r) /\ "write_meta" \in Labels
    BY <1>1, <1>2, <2>1, GoMoves DEF IInv, CallAt, CreateDbAt, Labels
  <2>3. d # current_db_name
    BY <1>2, <1>4, NamesAssumption DEF IInv, DirsOK
  <2>. QED
    BY <1>1, <1>2, <1>4, <2>1, <2>2, <2>3, DbStep DEF IInv, Types, Stored, ListLabels
<1>. QED  BY <1>3, <1>4

LEMMA WriteMetaKeeps ==
  ASSUME IInv, NEW c \in Client, NEW r, r = call[c], WriteMeta(c)
  PROVE  IInv'
<1>. DEFINE d == r.db
<1>1. pc[c] = "write_meta" /\ r.op = "create_db"
  BY DbLabels DEF WriteMeta, At, IInv, CallsOK, CreateDbAt
<1>2. /\ d \in Db /\ r.tab = NoTab /\ r \in Calls
      /\ d # current_db_name => files[d] = FilesOf(Stored(d))
      /\ d \in dirs /\ meta[d] = NoMeta /\ d # current_db_name
  BY <1>1, AtDatabase DEF IInv, DirsOK, At
<1>3. /\ meta' = [meta EXCEPT ![d] = << >>] /\ Go(c, "register_database")
      /\ UNCHANGED <<posted, memory, cwd, open_files, dirs, files, db_list>>
  BY <1>2 DEF WriteMeta
<1>4. /\ meta' \in [Dir -> Catalogs \cup {NoMeta}] /\ meta'[d] = << >>
      /\ \A e \in Db \ {d} : meta'[e] = meta[e]
  BY <1>2, <1>3, EmptyCatalog DEF IInv, Types, Dir
<1>5. << >> # NoMeta
  BY EmptyCatalog, CatalogForm
<1>6. /\ Moves(c, "register_database", r) /\ CallAt("register_database", r)
      /\ "register_database" \in Labels
  BY <1>1, <1>2, <1>3, GoMoves DEF IInv, CallAt, CreateDbAt, Labels
<1>7. files'[d] = FilesOf(Stored(d)')
  BY <1>2, <1>3, <1>4, <1>5, EmptyCatalog DEF Stored
<1>. QED
  BY <1>1, <1>2, <1>3, <1>4, <1>5, <1>6, <1>7, DbStep DEF IInv, Types, ListLabels

LEMMA RegisterDatabaseKeeps ==
  ASSUME IInv, NEW c \in Client, NEW r, r = call[c], RegisterDatabase(c)
  PROVE  IInv'
<1>. DEFINE d == r.db
<1>1. pc[c] = "register_database" /\ r.op = "create_db"
  BY DbLabels DEF RegisterDatabase, At, IInv, CallsOK, CreateDbAt
<1>2. /\ d \in Db /\ r.tab = NoTab /\ d \in dirs /\ meta[d] # NoMeta
      /\ d # current_db_name => files[d] = FilesOf(Stored(d))
  BY <1>1, AtDatabase DEF IInv, DirsOK
<1>3. /\ db_list' = db_list \cup {d} /\ Return(c)
      /\ UNCHANGED <<posted, memory, cwd, open_files, dirs, files, meta>>
  BY DEF RegisterDatabase
<1>. QED
  BY <1>1, <1>2, <1>3, Idle, NoCallType, DbStep DEF IInv, Types, Stored, ListLabels

LEMMA DropDbKeeps ==
  ASSUME IInv, NEW c \in Client, NEW r, r = call[c], DropDb(c)
  PROVE  IInv'
<1>. DEFINE d == r.db
<1>1. pc[c] = "drop_db" /\ r.op = "drop_db"
  BY DbLabels DEF DropDb, At, IInv, CallsOK, DropDbAt
<1>2. /\ d \in Db /\ r.tab = NoTab /\ r \in Calls
      /\ d \notin dirs => meta[d] = NoMeta /\ files[d] = {}
      /\ d \in dirs => meta[d] # NoMeta
      /\ d # current_db_name => files[d] = FilesOf(Stored(d))
      /\ d \in dirs <=> d \in db_list
      /\ d = current_db_name => d \in dirs
  BY <1>1, AtDatabase, NamesAssumption DEF ListLabels, IInv, DirsOK
<1>3. CASE d \notin dirs \/ d = current_db_name
  <2>1. Refused(c)
    BY <1>3 DEF DropDb
  <2>. QED
    BY <1>1, <1>2, <2>1, Idle, NoCallType, DbStep
    DEF Refused, disk, IInv, Types, Stored, ListLabels
<1>4. CASE ~(d \notin dirs \/ d = current_db_name)
  <2>1. Go(c, "remove_dir") /\ UNCHANGED <<posted, memory, cwd, open_files, disk>>
    BY <1>4 DEF DropDb
  <2>2. Moves(c, "remove_dir", r) /\ CallAt("remove_dir", r) /\ "remove_dir" \in Labels
    BY <1>1, <1>2, <2>1, GoMoves DEF IInv, CallAt, DropDbAt, Labels
  <2>. QED
    BY <1>1, <1>2, <1>4, <2>1, <2>2, DbStep DEF disk, IInv, Types, Stored, ListLabels
<1>. QED  BY <1>3, <1>4

LEMMA RemoveDirKeeps ==
  ASSUME IInv, NEW c \in Client, NEW r, r = call[c], RemoveDir(c)
  PROVE  IInv'
<1>. DEFINE d == r.db
<1>1. pc[c] = "remove_dir" /\ r.op = "drop_db"
  BY DbLabels DEF RemoveDir, At, IInv, CallsOK, DropDbAt
<1>2. d \in Db /\ r.tab = NoTab /\ r \in Calls /\ d # current_db_name
  BY <1>1, AtDatabase DEF IInv, DirsOK
<1>3. /\ dirs' = dirs \ {d} /\ files' = [files EXCEPT ![d] = {}]
      /\ meta' = [meta EXCEPT ![d] = NoMeta] /\ Go(c, "unregister_database")
      /\ UNCHANGED <<posted, memory, cwd, open_files, db_list>>
  BY DEF RemoveDir
<1>4. /\ meta' \in [Dir -> Catalogs \cup {NoMeta}] /\ meta'[d] = NoMeta
      /\ files' \in [Dir -> SUBSET File] /\ files'[d] = {}
      /\ \A e \in Db \ {d} : meta'[e] = meta[e] /\ files'[e] = files[e]
  BY <1>2, <1>3 DEF IInv, Types, Dir
<1>5. /\ Moves(c, "unregister_database", r) /\ CallAt("unregister_database", r)
      /\ "unregister_database" \in Labels
  BY <1>1, <1>2, <1>3, GoMoves DEF IInv, CallAt, DropDbAt, Labels
<1>6. files'[d] = FilesOf(Stored(d)')
  BY <1>4, EmptyCatalog DEF Stored
<1>. QED
  BY <1>1, <1>2, <1>3, <1>4, <1>5, <1>6, DbStep DEF IInv, Types, ListLabels

LEMMA UnregisterDatabaseKeeps ==
  ASSUME IInv, NEW c \in Client, NEW r, r = call[c], UnregisterDatabase(c)
  PROVE  IInv'
<1>. DEFINE d == r.db
<1>1. pc[c] = "unregister_database" /\ r.op = "drop_db"
  BY DbLabels DEF UnregisterDatabase, At, IInv, CallsOK, DropDbAt
<1>2. /\ d \in Db /\ r.tab = NoTab /\ d \notin dirs /\ meta[d] = NoMeta /\ files[d] = {}
      /\ d # current_db_name => files[d] = FilesOf(Stored(d))
      /\ d # current_db_name
  BY <1>1, AtDatabase, NamesAssumption DEF IInv, DirsOK, At
<1>3. /\ db_list' = db_list \ {d} /\ Return(c)
      /\ UNCHANGED <<posted, memory, cwd, open_files, dirs, files, meta>>
  BY DEF UnregisterDatabase
<1>. QED
  BY <1>1, <1>2, <1>3, Idle, NoCallType, DbStep DEF IInv, Types, Stored, ListLabels

-----------------------------------------------------------------------------
(* The steps of open_db and close_db.                                      *)

\* All of the open database is as its catalog says.
Whole ==
  /\ fhs = DOMAIN tabs /\ ihs = Indexed(tabs)
  /\ DOMAIN open_files = FilesOf(tabs) /\ files[current_db_name] = FilesOf(tabs)

\* Nobody works on a table.
Matched ==
  /\ current_db_name = NoDb => tabs = << >> /\ fhs = {} /\ ihs = {} /\ DOMAIN open_files = {}
  /\ current_db_name # NoDb => \A t \in Tab : TableAt(t, "idle", NoCall)

LEMMA SameFiles ==
  ASSUME NEW F \in SUBSET File, NEW G \in SUBSET File,
         \A t \in Tab : RecordFileOf(t) \in F <=> RecordFileOf(t) \in G,
         \A t \in Tab : \A k \in Col : <<t, k>> \in F <=> <<t, k>> \in G
  PROVE  F = G
BY DEF File, RecordFileOf

LEMMA MatchedWhole ==
  ASSUME Types, Matched, current_db_name # NoDb
  PROVE  Whole
<1>1. /\ tabs \in Catalogs /\ DOMAIN tabs \subseteq Tab /\ FilesOf(tabs) \subseteq File
      /\ Indexed(tabs) \subseteq Tab \X Col /\ files[current_db_name] \subseteq File
      /\ DOMAIN open_files \subseteq File /\ fhs \subseteq Tab /\ ihs \subseteq Tab \X Col
  BY CatalogForm, FilesOfCatalog DEF Types, Dir
<1>2. /\ \A t \in Tab : RecordFileOf(t) \in FilesOf(tabs) <=> t \in DOMAIN tabs
      /\ \A t \in Tab : \A k \in Col : /\ <<t, k>> \in FilesOf(tabs) <=> Marked(t, k)
                                       /\ <<t, k>> \in Indexed(tabs) <=> Marked(t, k)
  BY <1>1, FilesOfCatalog DEF Marked
<1>3. ASSUME NEW t \in Tab
      PROVE  /\ Record(t, t \in DOMAIN tabs, t \in DOMAIN tabs)
             /\ \A k \in Col : Index(t, k, Marked(t, k), Marked(t, k))
  <2>1. TableAt(t, "idle", NoCall)
    BY DEF Matched
  <2>. QED  BY <2>1, NamesAssumption DEF TableAt, Record, Index, NoRecord, NoCall, Making, Known
<1>4. fhs = DOMAIN tabs
  BY <1>1, <1>3 DEF Record
<1>5. ihs = Indexed(tabs)
  <2>1. \A t \in Tab : \A k \in Col : <<t, k>> \in ihs <=> <<t, k>> \in Indexed(tabs)
    BY <1>2, <1>3 DEF Index
  <2>. QED  BY <1>1, <2>1
<1>6. DOMAIN open_files = FilesOf(tabs)
  <2>1. /\ \A t \in Tab : RecordFileOf(t) \in DOMAIN open_files <=> RecordFileOf(t) \in FilesOf(tabs)
        /\ \A t \in Tab : \A k \in Col : <<t, k>> \in DOMAIN open_files <=> <<t, k>> \in FilesOf(tabs)
    BY <1>2, <1>3 DEF Record, Index
  <2>. QED  BY <1>1, <2>1, SameFiles
<1>7. files[current_db_name] = FilesOf(tabs)
  <2>. DEFINE F == files[current_db_name]
  <2>1. /\ \A t \in Tab : RecordFileOf(t) \in F <=> RecordFileOf(t) \in FilesOf(tabs)
        /\ \A t \in Tab : \A k \in Col : <<t, k>> \in F <=> <<t, k>> \in FilesOf(tabs)
    BY <1>2, <1>3 DEF Record, Index
  <2>. QED  BY <1>1, <2>1, SameFiles
<1>. QED  BY <1>4, <1>5, <1>6, <1>7 DEF Whole

LEMMA WholeMatched ==
  ASSUME tabs' \in Catalogs, Whole', NEW t \in Tab
  PROVE  TableAt(t, "idle", NoCall)'
<1>1. /\ RecordFileOf(t) \in FilesOf(tabs') <=> t \in DOMAIN tabs'
      /\ \A k \in Col : /\ <<t, k>> \in FilesOf(tabs') <=> Marked(t, k)'
                        /\ <<t, k>> \in Indexed(tabs') <=> Marked(t, k)'
  BY FilesOfCatalog DEF Marked
<1>2. FilesOf(tabs)' = FilesOf(tabs') /\ Indexed(tabs)' = Indexed(tabs')
  BY DEF FilesOf, Indexed
<1>3. /\ Record(t, t \in DOMAIN tabs, t \in DOMAIN tabs)'
      /\ \A k \in Col : Index(t, k, Marked(t, k), Marked(t, k))'
  BY <1>1, <1>2 DEF Whole, Record, Index
<1>. QED  BY <1>3, NamesAssumption DEF TableAt, Record, Index, NoRecord, NoCall, Making, Known

\* What a thread that opens or closes a database can rely on.
LEMMA AtExclusive ==
  ASSUME IInv, NEW c \in Client, NEW r, r = call[c], Exclusive(r.op)
  PROVE  /\ r \in Calls /\ CallAt(pc[c], r) /\ r.tab = NoTab
         /\ \A o \in Client \ {c} : pc[o] = "idle" /\ call[o].db = NoDb /\ call[o].tab = NoTab
         /\ posted = IF pc[c] = "open_all" THEN Semaphores \ {file_handles_sem} ELSE Semaphores
         /\ \A d \in dirs : meta[d] \in Catalogs
         /\ \A d \in Db : /\ d \notin dirs => meta[d] = NoMeta /\ files[d] = {}
                          /\ d # current_db_name => files[d] = FilesOf(Stored(d))
                          /\ d \in dirs <=> d \in db_list
         /\ pc[c] \notin Moving => Matched
         /\ cwd = IF current_db_name = NoDb THEN BaseDir ELSE current_db_name
         /\ current_db_name # NoDb => current_db_name \in dirs /\ InDirectory
<1>1. r \in Calls /\ CallAt(pc[c], r) /\ pc[c] \in Labels
  BY DEF IInv, CallsOK, Types
<1>2. r.tab = NoTab /\ pc[c] \in OpenDbAt
  BY <1>1 DEF CallAt, NoCall, Exclusive, OpenDbAt
<1>3. \A o \in Client \ {c} : pc[o] = "idle" /\ call[o].db = NoDb /\ call[o].tab = NoTab
  BY Alone DEF IInv
<1>4. posted = IF pc[c] = "open_all" THEN Semaphores \ {file_handles_sem} ELSE Semaphores
  BY <1>3 DEF IInv, SemsOK, At
<1>5. \A o \in Client : pc[o] \notin ListLabels
  BY <1>2, <1>3 DEF ListLabels, OpenDbAt, CloseDbAt
<1>6. ASSUME NEW d \in Db
      PROVE  /\ d \notin dirs => meta[d] = NoMeta /\ files[d] = {}
             /\ d # current_db_name => files[d] = FilesOf(Stored(d))
             /\ d \in dirs <=> d \in db_list
             /\ d \in dirs => meta[d] \in Catalogs
  <2>1. DatabaseOK(d) /\ meta[d] \in Catalogs \cup {NoMeta}
    BY DEF IInv, DirsOK, Types, Dir
  <2>. QED  BY <1>5, <2>1 DEF DatabaseOK, At, ListLabels
<1>7. pc[c] \notin Moving => Matched
  <2>1. SUFFICES ASSUME pc[c] \notin Moving PROVE Matched
    OBVIOUS
  <2>2. \A o \in Client : pc[o] \notin Moving /\ call[o].tab = NoTab
    BY <1>2, <1>3, <2>1 DEF Moving
  <2>3. TablesOK
    BY <2>2 DEF IInv, PhaseOK
  <2>4. \A o \in Client, t \in Tab : call[o].tab # t
    BY <2>2, NamesAssumption
  <2>. QED  BY <2>3, <2>4 DEF TablesOK, Matched, Handles
<1>. QED
  BY <1>1, <1>2, <1>3, <1>4, <1>6, <1>7 DEF IInv, Types, DirsOK, InDirectory

\* A step of those operations.
LEMMA ExclusiveStep ==
  ASSUME IInv, NEW c \in Client, NEW r, r = call[c], Exclusive(r.op),
         NEW p \in Labels, NEW s \in Calls, Moves(c, p, s), CallAt(p, s),
         \/ s = NoCall
         \/ s = r,
         UNCHANGED <<dirs, files, db_list>>,
         posted' = IF p = "open_all" THEN Semaphores \ {file_handles_sem} ELSE Semaphores,
         tabs' \in Catalogs, fhs' \subseteq Tab, ihs' \subseteq Tab \X Col,
         current_db_name' \in Db \cup {NoDb}, current_db_name' # NoDb => current_db_name' \in dirs,
         cwd' = IF current_db_name' = NoDb THEN BaseDir ELSE current_db_name',
         DOMAIN open_files' \subseteq File, open_files' \in [DOMAIN open_files' -> Dir],
         \A f \in DOMAIN open_files' : open_files'[f] = current_db_name',
         meta' \in [Dir -> Catalogs \cup {NoMeta}],
         \A d \in Db : /\ meta'[d] = NoMeta <=> d \notin dirs
                       /\ d # current_db_name' => files[d] = FilesOf(Stored(d)'),
         s.op = "open_db" /\ p # "open_db" => s.db \in dirs,
         p = "load" => current_db_name' = NoDb,
         p \in Moving => MovingOK(p)',
         p \notin Moving => Matched'
  PROVE  IInv'
<1>1. /\ pc'[c] = p /\ call'[c] = s /\ pc' \in [Client -> Labels] /\ call' \in [Client -> Calls]
      /\ \A o \in Client \ {c} : pc'[o] = pc[o] /\ call'[o] = call[o]
  BY Moved DEF IInv
<1>2. /\ \A o \in Client \ {c} : pc'[o] = "idle" /\ call'[o].db = NoDb /\ call'[o].tab = NoTab
      /\ s.tab = NoTab /\ p \notin ListLabels \cup {"remove_dir"}
  <2>1. /\ r.tab = NoTab
        /\ \A o \in Client \ {c} : pc[o] = "idle" /\ call[o].db = NoDb /\ call[o].tab = NoTab
    BY AtExclusive
  <2>2. s.tab = NoTab /\ p \in OpenDbAt \cup {"idle"}
    BY <2>1 DEF CallAt, Exclusive, NoCall, OpenDbAt
  <2>. QED  BY <1>1, <2>1, <2>2 DEF OpenDbAt, CloseDbAt, ListLabels
<1>3. Types'
  <2>1. cwd' \in Dir
    BY DEF Dir
  <2>. QED  BY <1>1, <2>1 DEF IInv, Types
<1>4. CallsOK'
  BY CallsKept DEF IInv
<1>5. SemsOK'
  BY <1>1, <1>2 DEF SemsOK, At
<1>6. DirsOK'
  <2>1. ASSUME NEW d \in Db PROVE DatabaseOK(d)'
    <3>1. (d \in dirs <=> d \in db_list) /\ (d \notin dirs => files[d] = {})
      BY AtExclusive
    <3>. QED  BY <3>1 DEF DatabaseOK, FilesOf, Indexed
  <2>2. \A o \in Client :
          /\ pc'[o] \notin ListLabels \cup {"remove_dir"}
          /\ call'[o].op = "open_db" /\ pc'[o] # "open_db" => call'[o].db \in dirs
          /\ pc'[o] = "load" => current_db_name' = NoDb
    <3>1. ASSUME NEW o \in Client \ {c} PROVE call'[o].op # "open_db"
      <4>1. CallAt(pc'[o], call'[o]) /\ pc'[o] = "idle"
        BY <1>2, <1>4 DEF CallsOK
      <4>. QED  BY <4>1 DEF CallAt, NoCall, OpenDbAt, CloseDbAt
    <3>. QED  BY <1>1, <1>2, <3>1 DEF ListLabels
  <2>. QED  BY <2>1, <2>2 DEF DirsOK, At, ListLabels
<1>7. PhaseOK'
  <2>1. CASE p \in Moving
    <3>1. \A o \in Client : pc'[o] \in Moving => o = c
      BY <1>2 DEF Moving
    <3>. QED  BY <1>1, <2>1, <3>1 DEF PhaseOK
  <2>2. CASE p \notin Moving
    <3>1. \A o \in Client : pc'[o] \notin Moving /\ call'[o].tab = NoTab
      BY <1>1, <1>2, <2>2 DEF Moving
    <3>2. TablesOK'
      BY <2>2, <3>1 DEF Matched, TablesOK, Handles
    <3>. QED  BY <3>1, <3>2 DEF PhaseOK
  <2>. QED  BY <2>1, <2>2
<1>. QED  BY <1>3, <1>4, <1>5, <1>6, <1>7 DEF IInv

\* One that changes nothing.
LEMMA ExclusiveMoves ==
  ASSUME IInv, NEW c \in Client, NEW r, r = call[c], Exclusive(r.op),
         NEW p \in Labels \ (Moving \cup {"load"}), NEW s \in Calls, Moves(c, p, s), CallAt(p, s),
         \/ s = NoCall
         \/ s = r,
         pc[c] \notin Moving,
         UNCHANGED <<posted, memory, cwd, open_files, disk>>,
         s.op = "open_db" /\ p # "open_db" => s.db \in dirs
  PROVE  IInv'
<1>1. Matched'
  <2>1. Matched
    BY AtExclusive
  <2>2. ASSUME NEW t \in Tab, TableAt(t, "idle", NoCall)
        PROVE  TableAt(t, "idle", NoCall)'
    <3>1. SameTable(t)
      BY DEF SameTable, Known, Marked, memory, disk
    <3>. QED  BY <2>2, <3>1, SameTableAt
  <2>. QED  BY <2>1, <2>2 DEF Matched, memory
<1>2. Types /\ DirsOK
  BY DEF IInv
<1>3. posted = Semaphores /\ p # "open_all"
  BY AtExclusive DEF Moving
<1>4. \A d \in Db : /\ meta[d] = NoMeta <=> d \notin dirs
                    /\ d # current_db_name => files[d] = FilesOf(Stored(d)')
  BY AtExclusive, CatalogForm DEF disk, Stored
<1>. QED
  BY <1>1, <1>2, <1>3, <1>4, ExclusiveStep DEF memory, disk, Types, DirsOK

LEMMA OpenDbKeeps ==
  ASSUME IInv, NEW c \in Client, NEW r, r = call[c], OpenDb(c)
  PROVE  IInv'
<1>1. pc[c] = "open_db" /\ r.op = "open_db" /\ Exclusive(r.op)
  BY DbLabels DEF OpenDb, At, IInv, CallsOK, OpenDbAt, CloseDbAt, Exclusive
<1>2. r \in Calls /\ r.db \in Db /\ r.tab = NoTab /\ pc[c] \notin Moving
  BY <1>1, AtExclusive DEF CallAt, Moving
<1>3. CASE r.db \notin dirs
  <2>1. Refused(c)
    BY <1>3 DEF OpenDb
  <2>. QED  BY <1>1, <1>2, <2>1, Idle, NoCallType, ExclusiveMoves DEF Refused, NoCall
<1>4. CASE r.db \in dirs
  <2>1. Go(c, "switch") /\ UNCHANGED <<posted, memory, cwd, open_files, disk>>
    BY <1>4 DEF OpenDb
  <2>2. /\ Moves(c, "switch", r) /\ CallAt("switch", r)
        /\ "switch" \in Labels \ (Moving \cup {"load"})
    BY <1>1, <1>2, <2>1, GoMoves DEF IInv, CallAt, OpenDbAt, Labels, Moving
  <2>. QED  BY <1>1, <1>2, <1>4, <2>1, <2>2, ExclusiveMoves
<1>. QED  BY <1>3, <1>4

\* What is in memory is what db.meta says, once it has been read.
LEMMA OverNothing ==
  ASSUME NEW cat \in Catalogs
  PROVE  Over(cat, << >>) = cat
<1>1. cat = [t \in DOMAIN cat |-> cat[t]]
  BY CatalogForm
<1>. QED  BY <1>1 DEF Over

LEMMA LoadMetaFacts ==
  ASSUME IInv, NEW c \in Client, NEW r, r = call[c], r.op = "open_db", pc[c] \in {"switch", "load"},
         current_db_name = NoDb, LoadMeta(c)
  PROVE  /\ r \in Calls /\ r.db \in Db /\ r.db \in dirs /\ r.tab = NoTab /\ posted = Semaphores
         /\ meta[r.db] \in Catalogs /\ meta[r.db] # NoMeta /\ files[r.db] = FilesOf(Stored(r.db))
         /\ fhs = {} /\ ihs = {} /\ DOMAIN open_files = {}
         /\ cwd' = r.db /\ tabs' = meta[r.db] /\ current_db_name' = r.db /\ current_db_name' # NoDb
         /\ Go(c, "lock_file_handles") /\ UNCHANGED <<posted, fhs, ihs, open_files, disk>>
<1>. DEFINE d == r.db
<1>1. Exclusive(r.op)
  BY DEF Exclusive
<1>2. /\ r \in Calls /\ d \in Db /\ d \in dirs /\ r.tab = NoTab /\ posted = Semaphores
      /\ meta[d] \in Catalogs /\ files[d] = FilesOf(Stored(d)) /\ Matched
  <2>1. CallAt(pc[c], r) /\ d \in dirs
    BY AtExclusive, <1>1 DEF IInv, DirsOK, At
  <2>. QED  BY <1>1, <2>1, AtExclusive, NamesAssumption DEF CallAt, Moving
<1>3. meta[d] # NoMeta /\ tabs = << >> /\ fhs = {} /\ ihs = {} /\ DOMAIN open_files = {}
  BY <1>2, CatalogForm DEF Matched
<1>4. /\ cwd' = d /\ tabs' = Over(meta[d], tabs) /\ current_db_name' = d
      /\ Go(c, "lock_file_handles") /\ UNCHANGED <<posted, fhs, ihs, open_files, disk>>
  BY <1>2, <1>3 DEF LoadMeta, Readable
<1>5. tabs' = meta[d] /\ current_db_name' # NoDb
  BY <1>2, <1>3, <1>4, OverNothing, NamesAssumption
<1>. QED  BY <1>2, <1>3, <1>4, <1>5

LEMMA LoadMetaKeeps ==
  ASSUME IInv, NEW c \in Client, NEW r, r = call[c], r.op = "open_db", pc[c] \in {"switch", "load"},
         current_db_name = NoDb, LoadMeta(c)
  PROVE  IInv'
<1>. DEFINE d == r.db
<1>1. /\ r \in Calls /\ d \in Db /\ d \in dirs /\ r.tab = NoTab /\ posted = Semaphores
      /\ meta[d] \in Catalogs /\ meta[d] # NoMeta /\ files[d] = FilesOf(Stored(d))
      /\ fhs = {} /\ ihs = {} /\ DOMAIN open_files = {}
  BY LoadMetaFacts
<1>2. /\ cwd' = d /\ tabs' = meta[d] /\ current_db_name' = d /\ current_db_name' # NoDb
      /\ Go(c, "lock_file_handles") /\ UNCHANGED <<posted, fhs, ihs, open_files, disk>>
  BY LoadMetaFacts
<1>3. Exclusive(r.op) /\ Types
  BY DEF Exclusive, IInv
<1>4. /\ Moves(c, "lock_file_handles", r) /\ CallAt("lock_file_handles", r)
      /\ "lock_file_handles" \in Labels \cap Moving
  BY <1>1, <1>2, GoMoves DEF IInv, CallAt, OpenDbAt, Labels, Moving
<1>5. MovingOK("lock_file_handles")'
  BY <1>1, <1>2 DEF MovingOK, disk, Stored, FilesOf, Indexed
<1>6. \A e \in Db : /\ meta[e] = NoMeta <=> e \notin dirs
                    /\ e # d => files[e] = FilesOf(Stored(e)')
  BY <1>2, <1>3, AtExclusive, CatalogForm, NamesAssumption DEF disk, Stored
<1>. QED
  BY <1>1, <1>2, <1>3, <1>4, <1>5, <1>6, ExclusiveStep DEF disk, Types

LEMMA SwitchKeeps ==
  ASSUME IInv, NEW c \in Client, NEW r, r = call[c], Switch(c)
  PROVE  IInv'
<1>1. pc[c] = "switch" /\ r.op = "open_db" /\ Exclusive(r.op)
  BY DbLabels DEF Switch, At, IInv, CallsOK, OpenDbAt, CloseDbAt, Exclusive
<1>2. r \in Calls /\ r.db \in dirs /\ r.db \in Db /\ r.tab = NoTab /\ pc[c] \notin Moving
  BY <1>1, AtExclusive DEF IInv, DirsOK, At, CallAt, Moving
<1>3. CASE current_db_name = NoDb
  BY <1>1, <1>3, LoadMetaKeeps DEF Switch
<1>4. CASE current_db_name # NoDb
  <2>1. Go(c, "close_db") /\ UNCHANGED <<posted, memory, cwd, open_files, disk>>
    BY <1>4 DEF Switch
  <2>2. /\ Moves(c, "close_db", r) /\ CallAt("close_db", r)
        /\ "close_db" \in Labels \ (Moving \cup {"load"})
    BY <1>1, <1>2, <2>1, GoMoves DEF IInv, CallAt, OpenDbAt, CloseDbAt, Labels, Moving
  <2>. QED  BY <1>1, <1>2, <2>1, <2>2, ExclusiveMoves
<1>. QED  BY <1>3, <1>4

LEMMA LoadKeeps ==
  ASSUME IInv, NEW c \in Client, NEW r, r = call[c], Load(c)
  PROVE  IInv'
<1>1. pc[c] = "load" /\ r.op = "open_db"
  BY DbLabels DEF Load, At, IInv, CallsOK, OpenDbAt, CloseDbAt
<1>2. current_db_name = NoDb
  BY <1>1 DEF IInv, DirsOK, At
<1>. QED  BY <1>1, <1>2, LoadMetaKeeps DEF Load

\* Where a database is being opened or closed, what goes on is what the thread says.
LEMMA AtMoving ==
  ASSUME IInv, NEW c \in Client, NEW p \in Moving, pc[c] = p
  PROVE  /\ MovingOK(p) /\ Types /\ DirsOK
         /\ current_db_name \in Db /\ current_db_name \in dirs /\ cwd = current_db_name /\ InDirectory
         /\ meta[current_db_name] \in Catalogs
         /\ \A d \in Db : /\ meta[d] = NoMeta <=> d \notin dirs
                          /\ d # current_db_name => files[d] = FilesOf(Stored(d))
<1>1. Exclusive(call[c].op)
  BY MovingExclusive DEF IInv
<1>2. MovingOK(p) /\ Types /\ DirsOK
  BY DEF IInv, PhaseOK
<1>3. current_db_name \in Db /\ current_db_name \in dirs /\ cwd = current_db_name
  BY <1>2 DEF MovingOK, Types, DirsOK
<1>4. meta[current_db_name] \in Catalogs
  BY <1>2, <1>3 DEF MovingOK, Types, Dir
<1>5. \A d \in Db : /\ meta[d] = NoMeta <=> d \notin dirs
                    /\ d # current_db_name => files[d] = FilesOf(Stored(d))
  BY <1>1, AtExclusive, CatalogForm
<1>. QED  BY <1>2, <1>3, <1>4, <1>5 DEF InDirectory

LEMMA LockFileHandlesKeeps ==
  ASSUME IInv, NEW c \in Client, NEW r, r = call[c], LockFileHandles(c)
  PROVE  IInv'
<1>1. pc[c] = "lock_file_handles" /\ r.op = "open_db" /\ Exclusive(r.op)
  BY DbLabels DEF LockFileHandles, At, IInv, CallsOK, OpenDbAt, CloseDbAt, Exclusive
<1>2. /\ r \in Calls /\ r.db \in Db /\ r.tab = NoTab /\ r.db \in dirs /\ posted = Semaphores
      /\ MovingOK("lock_file_handles") /\ Types /\ DirsOK
      /\ \A d \in Db : /\ meta[d] = NoMeta <=> d \notin dirs
                       /\ d # current_db_name => files[d] = FilesOf(Stored(d))
  BY <1>1, AtExclusive, AtMoving DEF CallAt, DirsOK, At, Moving
<1>3. /\ posted' = posted \ {file_handles_sem} /\ Go(c, "open_all")
      /\ UNCHANGED <<memory, cwd, open_files, disk>>
  BY DEF LockFileHandles
<1>4. /\ Moves(c, "open_all", r) /\ CallAt("open_all", r) /\ "open_all" \in Labels \cap Moving
  BY <1>1, <1>2, <1>3, GoMoves DEF CallAt, OpenDbAt, Labels, Moving
<1>5. MovingOK("open_all")'
  BY <1>2, <1>3 DEF MovingOK, FilesOf, Indexed, memory, disk
<1>6. \A d \in Db : Stored(d)' = Stored(d)
  BY <1>3 DEF Stored, disk
<1>. QED
  BY <1>1, <1>2, <1>3, <1>4, <1>5, <1>6, ExclusiveStep DEF memory, disk, Types, DirsOK

LEMMA OpenAllKeeps ==
  ASSUME IInv, NEW c \in Client, NEW r, r = call[c], OpenAll(c)
  PROVE  IInv'
<1>1. pc[c] = "open_all" /\ r.op = "open_db" /\ Exclusive(r.op)
  BY DbLabels DEF OpenAll, At, IInv, CallsOK, OpenDbAt, CloseDbAt, Exclusive
<1>2. /\ r \in Calls /\ posted = Semaphores \ {file_handles_sem}
      /\ MovingOK("open_all") /\ Types /\ DirsOK
      /\ current_db_name \in Db /\ cwd = current_db_name
      /\ \A d \in Db : /\ meta[d] = NoMeta <=> d \notin dirs
                       /\ d # current_db_name => files[d] = FilesOf(Stored(d))
  BY <1>1, AtExclusive, AtMoving DEF Moving
<1>3. /\ tabs \in Catalogs /\ files[cwd] = FilesOf(tabs)
      /\ fhs = {} /\ ihs = {} /\ DOMAIN open_files = {}
  BY <1>2 DEF MovingOK, Types
<1>4. PICK F \in SUBSET FilesOf(tabs) :
        /\ fhs' = fhs \cup {t \in Tab : RecordFileOf(t) \in F}
        /\ ihs' = ihs \cup (F \cap (Tab \X Col))
        /\ open_files' = Over([f \in F |-> cwd], open_files)
        /\ IF F = FilesOf(tabs)
           THEN posted' = posted \cup {file_handles_sem} /\ Return(c)
           ELSE \E f \in FilesOf(tabs) : ~CanOpen(f)
        /\ UNCHANGED <<tabs, current_db_name, cwd, disk>>
  BY DEF OpenAll
<1>5. /\ F = FilesOf(tabs) /\ Return(c) /\ posted' = Semaphores
  BY <1>2, <1>3, <1>4 DEF CanOpen, Semaphores, file_handles_sem
<1>6. /\ DOMAIN tabs \subseteq Tab /\ FilesOf(tabs) \subseteq File /\ Indexed(tabs) \subseteq Tab \X Col
      /\ \A t : RecordFileOf(t) \in FilesOf(tabs) <=> t \in DOMAIN tabs
      /\ FilesOf(tabs) \cap (Tab \X Col) = Indexed(tabs)
  <2>1. /\ DOMAIN tabs \subseteq Tab /\ FilesOf(tabs) \subseteq File
        /\ Indexed(tabs) \subseteq Tab \X Col
        /\ \A t : RecordFileOf(t) \in FilesOf(tabs) <=> t \in DOMAIN tabs
    BY <1>3, CatalogForm, FilesOfCatalog
  <2>2. \A t : RecordFileOf(t) \notin Tab \X Col
    BY NamesAssumption DEF RecordFileOf
  <2>3. FilesOf(tabs) \cap (Tab \X Col) = Indexed(tabs)
    BY <2>1, <2>2 DEF FilesOf
  <2>. QED  BY <2>1, <2>3
<1>7. /\ fhs' = DOMAIN tabs /\ ihs' = Indexed(tabs)
      /\ DOMAIN open_files' = FilesOf(tabs)
      /\ \A f \in DOMAIN open_files' : open_files'[f] = cwd
      /\ open_files' \in [DOMAIN open_files' -> Dir]
  BY <1>2, <1>3, <1>4, <1>5, <1>6 DEF Over, Dir
<1>8. Matched'
  <2>1. Whole' /\ tabs' \in Catalogs
    BY <1>2, <1>3, <1>4, <1>7 DEF Whole, FilesOf, Indexed, disk
  <2>. QED  BY <1>2, <1>4, <2>1, WholeMatched, NamesAssumption DEF Matched
<1>9. \A d \in Db : Stored(d)' = Stored(d)
  BY <1>4 DEF Stored, disk
<1>10. "idle" \notin Moving /\ NoCall.op # "open_db"
  BY DEF Moving, NoCall
<1>11. /\ UNCHANGED <<dirs, files, db_list, meta>> /\ tabs' \in Catalogs
       /\ fhs' \subseteq Tab /\ ihs' \subseteq Tab \X Col /\ DOMAIN open_files' \subseteq File
       /\ current_db_name' = current_db_name /\ cwd' = current_db_name
  BY <1>2, <1>3, <1>4, <1>6, <1>7 DEF disk
<1>12. /\ current_db_name # NoDb => current_db_name \in dirs
       /\ meta \in [Dir -> Catalogs \cup {NoMeta}] /\ current_db_name # NoDb
  BY <1>2, NamesAssumption DEF Types, DirsOK
<1>. QED
  BY <1>1, <1>2, <1>5, <1>7, <1>8, <1>9, <1>10, <1>11, <1>12, Idle, NoCallType, ExclusiveStep

\* A thread that closes a database goes on.
LEMMA ClosingGoes ==
  ASSUME IInv, NEW c \in Client, NEW r, r = call[c], Exclusive(r.op), pc[c] \in CloseDbAt,
         NEW p \in CloseDbAt, Go(c, p)
  PROVE  /\ Moves(c, p, r) /\ CallAt(p, r) /\ p \in Labels /\ r \in Calls
         /\ r.op = "open_db" => r.db \in dirs
<1>1. r \in Calls /\ CallAt(pc[c], r)
  BY AtExclusive
<1>2. CallAt(p, r) /\ p \in Labels
  BY <1>1 DEF CallAt, Exclusive, OpenDbAt, CloseDbAt, Labels
<1>3. r.op = "open_db" => r.db \in dirs
  BY DEF IInv, DirsOK, At, CloseDbAt
<1>. QED  BY <1>1, <1>2, <1>3, GoMoves DEF IInv

\* The labels of close_db belong to the operations that run alone.
LEMMA ClosingExclusive ==
  ASSUME CallsOK, NEW c \in Client, pc[c] \in CloseDbAt
  PROVE  Exclusive(call[c].op)
BY DbLabels DEF CallsOK, Exclusive

LEMMA CloseDbKeeps ==
  ASSUME IInv, NEW c \in Client, NEW r, r = call[c], CloseDb(c)
  PROVE  IInv'
<1>1. pc[c] = "close_db" /\ pc[c] \in CloseDbAt /\ pc[c] \notin Moving /\ Exclusive(r.op)
  BY ClosingExclusive DEF CloseDb, At, IInv, CloseDbAt, Moving
<1>2. /\ posted = Semaphores /\ Matched /\ Types /\ DirsOK
      /\ cwd = IF current_db_name = NoDb THEN BaseDir ELSE current_db_name
      /\ current_db_name # NoDb => current_db_name \in dirs /\ InDirectory
      /\ \A d \in Db : /\ meta[d] = NoMeta <=> d \notin dirs
                       /\ d # current_db_name => files[d] = FilesOf(Stored(d))
  BY <1>1, AtExclusive, CatalogForm DEF IInv
<1>3. CASE current_db_name = NoDb
  <2>1. Refused(c)
    BY <1>3 DEF CloseDb
  <2>. QED  BY <1>1, <2>1, Idle, NoCallType, ExclusiveMoves DEF Refused, NoCall
<1>4. CASE current_db_name # NoDb
  <2>. DEFINE d == current_db_name
  <2>1. /\ meta' = [meta EXCEPT ![d] = tabs] /\ tabs' = << >> /\ Go(c, "close_files")
        /\ UNCHANGED <<posted, current_db_name, fhs, ihs, cwd, open_files, dirs, files, db_list>>
    BY <1>2, <1>4 DEF CloseDb
  <2>2. d \in Db /\ d \in dirs /\ tabs \in Catalogs /\ Whole
    BY <1>2, <1>4, MatchedWhole DEF Types
  <2>3. /\ Moves(c, "close_files", r) /\ CallAt("close_files", r) /\ r \in Calls
        /\ "close_files" \in Labels /\ (r.op = "open_db" => r.db \in dirs)
    BY <1>1, <2>1, ClosingGoes DEF CloseDbAt
  <2>4. /\ meta' \in [Dir -> Catalogs \cup {NoMeta}] /\ meta'[d] = tabs /\ tabs # NoMeta
        /\ \A e \in Db \ {d} : meta'[e] = meta[e]
    BY <1>2, <2>1, <2>2, CatalogForm DEF Types, Dir
  <2>5. MovingOK("close_files")'
    BY <1>4, <2>1, <2>2, <2>4 DEF MovingOK, Whole, FilesOf, Indexed
  <2>6. \A e \in Db : /\ meta'[e] = NoMeta <=> e \notin dirs
                      /\ e # d => files[e] = FilesOf(Stored(e)')
    BY <1>2, <2>2, <2>4 DEF Stored
  <2>7. tabs' \in Catalogs /\ "close_files" \in Moving
    BY <2>1, EmptyCatalog DEF Moving
  <2>. QED
    BY <1>1, <1>2, <1>4, <2>1, <2>2, <2>3, <2>4, <2>5, <2>6, <2>7, ExclusiveStep DEF Types, DirsOK
<1>. QED  BY <1>3, <1>4

LEMMA CloseFilesFacts ==
  ASSUME IInv, NEW c \in Client, CloseFiles(c)
  PROVE  LET cat == meta[current_db_name]
             F == {RecordFileOf(t) : t \in fhs}
         IN  /\ pc[c] = "close_files"
             /\ fhs = DOMAIN cat /\ ihs = Indexed(cat) /\ DOMAIN open_files = FilesOf(cat)
             /\ tabs = << >> /\ FilesOf(cat) = F \cup Indexed(cat)
             /\ open_files' = Without(open_files, F) /\ Go(c, "close_indexes") /\ fhs' = {}
             /\ UNCHANGED <<posted, tabs, current_db_name, ihs, cwd, disk>>
<1>. DEFINE cat == meta[current_db_name]
            F == {RecordFileOf(t) : t \in fhs}
<1>1. pc[c] = "close_files" /\ pc[c] \in Moving
  BY DEF CloseFiles, At, Moving
<1>2. MovingOK("close_files")
  BY <1>1, AtMoving
<1>3. /\ fhs = DOMAIN cat /\ ihs = Indexed(cat) /\ DOMAIN open_files = FilesOf(cat) /\ tabs = << >>
      /\ FilesOf(cat) = F \cup Indexed(cat)
  BY <1>2 DEF MovingOK, FilesOf
<1>4. \A f \in F : CanClose(f)
  BY <1>3 DEF CanClose
<1>5. /\ open_files' = Without(open_files, F) /\ Go(c, "close_indexes") /\ fhs' = {}
      /\ UNCHANGED <<posted, tabs, current_db_name, ihs, cwd, disk>>
  BY <1>4 DEF CloseFiles, CloseHandles
<1>. QED  BY <1>1, <1>3, <1>5

LEMMA CloseFilesKeeps ==
  ASSUME IInv, NEW c \in Client, NEW r, r = call[c], CloseFiles(c)
  PROVE  IInv'
<1>. DEFINE cat == meta[current_db_name]
            F == {RecordFileOf(t) : t \in fhs}
<1>1. /\ pc[c] = "close_files" /\ pc[c] \in CloseDbAt /\ pc[c] \in Moving /\ Exclusive(r.op)
  BY ClosingExclusive DEF CloseFiles, At, IInv, CloseDbAt, Moving
<1>2. /\ MovingOK("close_files") /\ Types /\ DirsOK /\ cat \in Catalogs
      /\ current_db_name \in Db /\ current_db_name \in dirs
      /\ \A d \in Db : /\ meta[d] = NoMeta <=> d \notin dirs
                       /\ d # current_db_name => files[d] = FilesOf(Stored(d))
  BY <1>1, AtMoving
<1>3. posted = Semaphores
  BY <1>1, AtExclusive
<1>4. /\ fhs = DOMAIN cat /\ ihs = Indexed(cat) /\ DOMAIN open_files = FilesOf(cat) /\ tabs = << >>
      /\ FilesOf(cat) = F \cup Indexed(cat)
  BY CloseFilesFacts
<1>5. /\ open_files' = Without(open_files, F) /\ Go(c, "close_indexes") /\ fhs' = {}
      /\ UNCHANGED <<posted, tabs, current_db_name, ihs, cwd, disk>>
  BY CloseFilesFacts
<1>6. /\ DOMAIN open_files' = Indexed(cat) /\ open_files' \in [DOMAIN open_files' -> Dir]
      /\ \A f \in DOMAIN open_files' : open_files'[f] = current_db_name
  <2>1. F \cap Indexed(cat) = {}
    BY NamesAssumption DEF RecordFileOf, Indexed
  <2>. QED  BY <1>2, <1>4, <1>5, <2>1 DEF Without, Types, DirsOK
<1>7. /\ Moves(c, "close_indexes", r) /\ CallAt("close_indexes", r) /\ r \in Calls
      /\ "close_indexes" \in Labels /\ (r.op = "open_db" => r.db \in dirs)
  BY <1>1, <1>5, ClosingGoes DEF CloseDbAt
<1>8. MovingOK("close_indexes")'
  BY <1>2, <1>4, <1>5, <1>6 DEF MovingOK, FilesOf, Indexed, disk
<1>9. \A d \in Db : Stored(d)' = Stored(d)
  BY <1>5 DEF Stored, disk
<1>10. DOMAIN open_files' \subseteq File /\ "close_indexes" \in Moving
  BY <1>2, <1>4, <1>6 DEF Types, Moving
<1>. QED
  BY <1>1, <1>2, <1>3, <1>5, <1>6, <1>7, <1>8, <1>9, <1>10, ExclusiveStep DEF disk, Types, DirsOK

LEMMA CloseIndexesFacts ==
  ASSUME IInv, NEW c \in Client, CloseIndexes(c)
  PROVE  /\ pc[c] = "close_indexes" /\ tabs = << >> /\ fhs = {}
         /\ ihs = Indexed(meta[current_db_name]) /\ DOMAIN open_files = ihs
         /\ open_files' = Without(open_files, ihs) /\ Go(c, "leave") /\ ihs' = {}
         /\ UNCHANGED <<posted, tabs, current_db_name, fhs, cwd, disk>>
<1>1. pc[c] = "close_indexes" /\ pc[c] \in Moving
  BY DEF CloseIndexes, At, Moving
<1>2. /\ tabs = << >> /\ fhs = {}
      /\ ihs = Indexed(meta[current_db_name]) /\ DOMAIN open_files = ihs
  BY <1>1, AtMoving DEF MovingOK
<1>3. \A f \in ihs : CanClose(f)
  BY <1>2 DEF CanClose
<1>. QED  BY <1>1, <1>2, <1>3 DEF CloseIndexes, CloseHandles

LEMMA CloseIndexesKeeps ==
  ASSUME IInv, NEW c \in Client, NEW r, r = call[c], CloseIndexes(c)
  PROVE  IInv'
<1>. DEFINE cat == meta[current_db_name]
<1>1. /\ pc[c] = "close_indexes" /\ pc[c] \in CloseDbAt /\ pc[c] \in Moving /\ Exclusive(r.op)
  BY ClosingExclusive DEF CloseIndexes, At, IInv, CloseDbAt, Moving
<1>2. /\ MovingOK("close_indexes") /\ Types /\ DirsOK /\ cat \in Catalogs
      /\ current_db_name \in Db /\ current_db_name \in dirs
      /\ \A d \in Db : /\ meta[d] = NoMeta <=> d \notin dirs
                       /\ d # current_db_name => files[d] = FilesOf(Stored(d))
  BY <1>1, AtMoving
<1>3. posted = Semaphores
  BY <1>1, AtExclusive
<1>4. fhs = {} /\ ihs = Indexed(cat) /\ DOMAIN open_files = Indexed(cat) /\ tabs = << >>
  BY CloseIndexesFacts
<1>5. /\ open_files' = Without(open_files, ihs) /\ Go(c, "leave") /\ ihs' = {}
      /\ UNCHANGED <<posted, tabs, current_db_name, fhs, cwd, disk>>
  BY CloseIndexesFacts
<1>6. DOMAIN open_files' = {} /\ open_files' \in [{} -> Dir]
  BY <1>4, <1>5 DEF Without
<1>7. /\ Moves(c, "leave", r) /\ CallAt("leave", r) /\ r \in Calls
      /\ "leave" \in Labels /\ (r.op = "open_db" => r.db \in dirs)
  BY <1>1, <1>5, ClosingGoes DEF CloseDbAt
<1>8. MovingOK("leave")'
  BY <1>2, <1>4, <1>5, <1>6 DEF MovingOK, FilesOf, Indexed, disk
<1>9. \A d \in Db : Stored(d)' = Stored(d)
  BY <1>5 DEF Stored, disk
<1>10. "leave" \in Moving
  BY DEF Moving
<1>. QED
  BY <1>1, <1>2, <1>3, <1>5, <1>6, <1>7, <1>8, <1>9, <1>10, ExclusiveStep DEF disk, Types, DirsOK

LEMMA LeaveKeeps ==
  ASSUME IInv, NEW c \in Client, NEW r, r = call[c], Leave(c)
  PROVE  IInv'
<1>. DEFINE cat == meta[current_db_name]
<1>1. /\ pc[c] = "leave" /\ pc[c] \in CloseDbAt /\ pc[c] \in Moving /\ Exclusive(r.op)
  BY ClosingExclusive DEF Leave, At, IInv, CloseDbAt, Moving
<1>2. /\ MovingOK("leave") /\ Types /\ DirsOK /\ cat \in Catalogs
      /\ current_db_name \in Db /\ current_db_name \in dirs /\ cwd = current_db_name /\ InDirectory
      /\ \A d \in Db : /\ meta[d] = NoMeta <=> d \notin dirs
                       /\ d # current_db_name => files[d] = FilesOf(Stored(d))
  BY <1>1, AtMoving
<1>3. posted = Semaphores /\ r \in Calls /\ CallAt("leave", r)
  BY <1>1, AtExclusive
<1>4. /\ fhs = {} /\ ihs = {} /\ DOMAIN open_files = {} /\ tabs = << >>
      /\ files[current_db_name] = FilesOf(cat) /\ cat # NoMeta
  BY <1>2 DEF MovingOK
<1>5. /\ cwd' = BaseDir /\ current_db_name' = NoDb
      /\ IF r.op = "open_db" THEN Go(c, "load") ELSE Return(c)
      /\ UNCHANGED <<posted, tabs, fhs, ihs, open_files, disk>>
  BY <1>2 DEF Leave
<1>6. \A d \in Db : files[d] = FilesOf(Stored(d)')
  BY <1>2, <1>4, <1>5 DEF Stored, disk
<1>7. Matched'
  BY <1>4, <1>5 DEF Matched
<1>8. CASE r.op = "open_db"
  <2>1. CallAt("load", r) /\ "load" \in Labels /\ "load" \notin Moving
    BY <1>3, <1>8 DEF CallAt, OpenDbAt, Labels, Moving
  <2>2. Moves(c, "load", r) /\ r.db \in dirs
    BY <1>1, <1>2, <1>5, <1>8, GoMoves DEF DirsOK, At
  <2>. QED
    BY <1>1, <1>2, <1>3, <1>4, <1>5, <1>6, <1>7, <2>1, <2>2, ExclusiveStep DEF disk, Types, DirsOK
<1>9. CASE r.op # "open_db"
  <2>1. "idle" \notin Moving /\ NoCall.op # "open_db" /\ Moves(c, "idle", NoCall)
    BY <1>5, <1>9, Idle DEF Moving, NoCall
  <2>. QED
    BY <1>1, <1>2, <1>3, <1>4, <1>5, <1>6, <1>7, <2>1, Idle, NoCallType, ExclusiveStep
    DEF disk, Types, DirsOK
<1>. QED  BY <1>8, <1>9

-----------------------------------------------------------------------------
(* The invariant.                                                          *)

LEMMA StepKeeps ==
  ASSUME IInv, NEW c \in Client, Step(c)
  PROVE  IInv'
BY CreateDbKeeps, WriteMetaKeeps, RegisterDatabaseKeeps, DropDbKeeps, RemoveDirKeeps,
   UnregisterDatabaseKeeps, OpenDbKeeps, SwitchKeeps, LoadKeeps, LockFileHandlesKeeps, OpenAllKeeps,
   CloseDbKeeps, CloseFilesKeeps, CloseIndexesKeeps, LeaveKeeps, CreateTableKeeps, OpenTableKeeps,
   DropTableKeeps, DestroyTableKeeps, DropNextIndexKeeps, ForgetTableKeeps, CreateIndexKeeps,
   FindTableKeeps, FillIndexKeeps, StoreIndexKeeps, MarkIndexKeeps, DropIndexKeeps,
   DestroyIndexKeeps, UnmarkIndexKeeps
DEF Step

LEMMA RequestFacts ==
  ASSUME NEW r \in Requests
  PROVE  /\ r \in Calls /\ r.op \in Labels \ (Moving \cup DirLabels)
         /\ \/ r.op \in DbOps /\ r.db \in Db /\ r.tab = NoTab
            \/ r.op = "close_db" /\ r.db = NoDb /\ r.tab = NoTab
            \/ r.op \in TableOps /\ r.db = NoDb /\ r.tab \in Tab
            \/ r.op \in IndexOps /\ r.db = NoDb /\ r.tab \in Tab
BY DEF Requests, Request, Calls, Ops, DbOps, TableOps, IndexOps, Labels, Moving, DirLabels, ListLabels

\* A client that keeps to the agreement finds the table it names with nobody working on it.
LEMMA BeginKeeps ==
  ASSUME IInv, NEW c \in Client, NEW r \in Requests, Agreed(c, r), Begin(c, r)
  PROVE  IInv'
<1>1. /\ pc[c] = "idle" /\ Moves(c, r.op, r)
      /\ UNCHANGED <<posted, memory, cwd, open_files, disk>>
  BY DEF Begin, At, Moves
<1>2. /\ r \in Calls /\ r.op \in Labels \ (Moving \cup DirLabels)
      /\ \/ r.op \in DbOps /\ r.db \in Db /\ r.tab = NoTab
         \/ r.op = "close_db" /\ r.db = NoDb /\ r.tab = NoTab
         \/ r.op \in TableOps /\ r.db = NoDb /\ r.tab \in Tab
         \/ r.op \in IndexOps /\ r.db = NoDb /\ r.tab \in Tab
  BY RequestFacts
<1>3. /\ r.tab # NoTab => current_db_name # NoDb /\ r.tab \notin TooLong
      /\ r.op \in {"drop_table", "create_index", "drop_index"} => r.tab \in DOMAIN tabs
      /\ r.op \in IndexOps => r.col \in Col
  BY <1>2 DEF Agreed, Calls
<1>4. CallAt(r.op, r)
  BY <1>2, <1>3, NamesAssumption
  DEF CallAt, DbOps, TableOps, IndexOps, CreateDbAt, DropDbAt, OpenDbAt, CloseDbAt, CreateTableAt,
      DropTableAt, CreateIndexAt, DropIndexAt
<1>5. \A o \in Client : pc[o] = "idle" => call[o].op = "none" /\ call[o].db = NoDb /\ call[o].tab = NoTab
  <2>1. ASSUME NEW p, NEW s, CallAt(p, s), p = "idle"
        PROVE  s.op = "none" /\ s.db = NoDb /\ s.tab = NoTab
    BY <2>1 DEF CallAt, NoCall, CreateDbAt, DropDbAt, OpenDbAt, CloseDbAt, CreateTableAt, DropTableAt,
                CreateIndexAt, DropIndexAt, Making
  <2>. QED  BY <2>1 DEF IInv, CallsOK
<1>6. /\ pc'[c] = r.op /\ call'[c] = r /\ pc' \in [Client -> Labels] /\ call' \in [Client -> Calls]
      /\ \A o \in Client \ {c} : pc'[o] = pc[o] /\ call'[o] = call[o]
  BY <1>1, <1>2, Moved DEF IInv
<1>7. ASSUME NEW o \in Client \ {c}
      PROVE  /\ Compatible(r, call[o]) /\ Compatible(call[o], r)
             /\ r.tab # NoTab => call[o].tab # r.tab /\ pc[o] \notin Moving
  <2>1. CASE Busy(o)
    <3>1. /\ ~Exclusive(r.op) /\ ~Exclusive(call[o].op)
          /\ r.tab = NoTab \/ r.tab # call[o].tab
          /\ r.db = NoDb \/ r.db # call[o].db
      BY <2>1 DEF Agreed
    <3>2. pc[o] \notin Moving
      BY <3>1, MovingExclusive DEF IInv
    <3>. QED  BY <3>1, <3>2 DEF Compatible
  <2>2. CASE ~Busy(o)
    BY <1>5, <2>2 DEF Busy, At, Compatible, Exclusive, Moving
  <2>. QED  BY <2>1, <2>2
<1>8. Types'
  BY <1>1, <1>6 DEF IInv, Types, memory, disk
<1>9. CallsOK'
  <2>1. \A o \in Client : CallAt(pc'[o], call'[o])
    BY <1>4, <1>6 DEF IInv, CallsOK
  <2>2. \A b, o \in Client : b # o => Compatible(call'[b], call'[o])
    BY <1>6, <1>7 DEF IInv, CallsOK
  <2>. QED  BY <2>1, <2>2 DEF CallsOK
<1>10. SemsOK'
  BY <1>1, <1>2, SemsKept DEF Moving
<1>11. DirsOK'
  <2>1. pc[c] \notin ListLabels
    BY <1>1 DEF ListLabels
  <2>2. \A f \in DOMAIN open_files' : open_files'[f] = current_db_name
    BY <1>1 DEF IInv, DirsOK
  <2>3. r.op \in Labels \ ListLabels /\ r.op \notin {"remove_dir", "load"}
    BY <1>2 DEF DirLabels
  <2>. QED  BY <1>1, <1>2, <2>1, <2>2, <2>3, DirsKept DEF memory, disk
<1>12. CASE r.tab = NoTab
  <2>1. PhaseOK'
    BY <1>1, <1>2, <1>5, <1>12, PhaseKept DEF memory, disk, Moving
  <2>. QED  BY <1>8, <1>9, <1>10, <1>11, <2>1 DEF IInv
<1>13. CASE r.tab # NoTab
  <2>1. \A o \in Client : pc[o] \notin Moving /\ pc'[o] \notin Moving
    BY <1>1, <1>2, <1>6, <1>7, <1>13 DEF Moving
  <2>2. TablesOK /\ current_db_name # NoDb /\ r.tab \in Tab
    BY <1>2, <1>3, <1>13, <2>1 DEF IInv, PhaseOK
  <2>3. \A t \in Tab : SameTable(t)
    BY <1>1 DEF SameTable, Known, Marked, memory, disk
  <2>4. ASSUME NEW t \in Tab, \A o \in Client : call'[o].tab # t
        PROVE  TableAt(t, "idle", NoCall)'
    <3>1. \A o \in Client : call[o].tab # t
      BY <1>1, <1>5, <1>6, <2>4, NamesAssumption
    <3>. QED  BY <2>2, <2>3, <3>1, SameTableAt DEF TablesOK
  <2>5. ASSUME NEW o \in Client, NEW q, NEW s, q = pc'[o], s = call'[o], s.tab # NoTab
        PROVE  TableAt(s.tab, q, s)'
    <3>1. CASE o # c
      <4>1. q = pc[o] /\ s = call[o] /\ s.tab \in Tab
        BY <1>6, <2>5, <3>1 DEF IInv, Types, Calls
      <4>. QED  BY <2>2, <2>3, <2>5, <4>1, SameTableAt DEF TablesOK
    <3>2. CASE o = c
      <4>1. \A b \in Client : call[b].tab # r.tab
        BY <1>1, <1>5, <1>7, <1>13
      <4>2. TableAt(r.tab, "idle", NoCall)
        BY <2>2, <4>1 DEF TablesOK
      <4>3. Known(r.tab) \/ r.op = "create_table"
        BY <1>2, <1>3, <1>13 DEF Known, TableOps, IndexOps
      <4>4. r.op \in TableOps \cup IndexOps
        BY <1>2, <1>13
      <4>5. TableAt(r.tab, r.op, r)
        BY <4>2, <4>3, <4>4, NamesAssumption
        DEF TableAt, Record, Index, NoRecord, NoCall, Making, DropIndexAt, TableOps, IndexOps
      <4>. QED  BY <1>6, <2>2, <2>3, <2>5, <3>2, <4>5, SameTableAt
    <3>. QED  BY <3>1, <3>2
  <2>6. TablesOK'
    BY <1>1, <2>2, <2>4, <2>5 DEF TablesOK, memory
  <2>7. PhaseOK'
    BY <2>1, <2>6 DEF PhaseOK
  <2>. QED  BY <1>8, <1>9, <1>10, <1>11, <2>7 DEF IInv
<1>. QED  BY <1>12, <1>13

LEMMA InitHolds ==
  ASSUME Init
  PROVE  IInv
<1>1. Types
  BY EmptyCatalog, NoCallType DEF Init, Types, Dir, Labels
<1>2. CallsOK
  BY DEF Init, CallsOK, CallAt, Compatible, Exclusive, NoCall
<1>3. SemsOK
  BY DEF Init, SemsOK, At
<1>4. DirsOK
  <2>1. ASSUME NEW d \in Db PROVE DatabaseOK(d)
    BY EmptyCatalog DEF Init, DatabaseOK, Stored, Dir, At
  <2>. QED  BY <2>1 DEF Init, DirsOK, At, NoCall
<1>5. PhaseOK
  <2>1. TablesOK
    BY DEF Init, TablesOK, Handles, NoCall
  <2>2. \A c \in Client : pc[c] \notin Moving
    BY DEF Init, Moving
  <2>. QED  BY <2>1, <2>2 DEF PhaseOK
<1>. QED  BY <1>1, <1>2, <1>3, <1>4, <1>5 DEF IInv

LEMMA Stuttering ==
  ASSUME IInv, UNCHANGED vars
  PROVE  IInv'
<1>1. Types' /\ CallsOK' /\ SemsOK'
  BY DEF IInv, vars, memory, disk, Types, CallsOK, SemsOK, At
<1>2. DirsOK'
  BY DEF IInv, vars, memory, disk, DirsOK, DatabaseOK, Stored, FilesOf, Indexed, At
<1>3. PhaseOK'
  <2>1. ASSUME NEW p \in Moving, MovingOK(p) PROVE MovingOK(p)'
    BY <2>1 DEF MovingOK, vars, memory, disk, FilesOf, Indexed
  <2>2. \A t \in Tab : SameTable(t)
    BY DEF SameTable, Known, Marked, vars, memory, disk
  <2>3. ASSUME TablesOK PROVE TablesOK'
    <3>1. ASSUME NEW t \in Tab, \A o \in Client : call'[o].tab # t, current_db_name # NoDb
          PROVE  TableAt(t, "idle", NoCall)'
      BY <2>2, <2>3, <3>1, SameTableAt DEF TablesOK, vars
    <3>2. ASSUME NEW o \in Client, NEW q, NEW s, q = pc'[o], s = call'[o], s.tab # NoTab
          PROVE  current_db_name # NoDb /\ TableAt(s.tab, q, s)'
      <4>1. q = pc[o] /\ s = call[o] /\ s.tab \in Tab
        BY <3>2 DEF IInv, Types, Calls, vars
      <4>. QED  BY <2>2, <2>3, <3>2, <4>1, SameTableAt DEF TablesOK
    <3>. QED  BY <2>3, <3>1, <3>2 DEF TablesOK, Handles, vars, memory
  <2>. QED  BY <2>1, <2>3 DEF IInv, PhaseOK, vars
<1>. QED  BY <1>1, <1>2, <1>3 DEF IInv

LEMMA Invariance == AgreedSpec => []IInv
<1>1. Init => IInv
  BY InitHolds
<1>2. IInv /\ [AgreedNext]_vars => IInv'
  BY StepKeeps, BeginKeeps, Stuttering DEF AgreedNext
<1>. QED  BY <1>1, <1>2, PTL DEF AgreedSpec

-----------------------------------------------------------------------------
(* Theorems.                                                               *)

\* The variables keep their types while the clients agree, and a semaphore is
\* away only where open_db takes two.
THEOREM TypeCorrect == AgreedSpec => []TypeOK
<1>1. ASSUME IInv PROVE TypeOK
  <2>1. Types /\ SemsOK
    BY <1>1 DEF IInv
  <2>2. \A s \in Semaphores \ posted : s = file_handles_sem /\ \E c \in Client : At(c, "open_all")
    BY <2>1 DEF SemsOK, Semaphores, file_handles_sem
  <2>3. IsCatalog(tabs) /\ \A d \in Dir : meta[d] = NoMeta \/ IsCatalog(meta[d])
    <3>1. \A cat \in Catalogs : IsCatalog(cat)
      BY CatalogForm DEF IsCatalog
    <3>. QED  BY <2>1, <3>1 DEF Types
  <2>4. \A c \in Client :
          call[c] \in {NoCall} \cup [op : DbOps \cup {"close_db"} \cup TableOps \cup IndexOps,
            db : Db \cup {NoDb}, tab : Tab \cup {NoTab}, col : Col \cup {NoCol}, todo : SUBSET Col]
    <3>1. ASSUME NEW r \in Calls, NEW p, CallAt(p, r)
          PROVE  r = NoCall \/ r.op \in DbOps \cup {"close_db"} \cup TableOps \cup IndexOps
      BY <3>1 DEF CallAt, DbOps, TableOps, IndexOps
    <3>2. ASSUME NEW c \in Client PROVE call[c] \in Calls /\ CallAt(pc[c], call[c])
      BY <1>1 DEF IInv, CallsOK, Types
    <3>. QED  BY <3>1, <3>2 DEF Calls
  <2>. QED  BY <2>1, <2>2, <2>3, <2>4 DEF TypeOK, Types
<1>. QED  BY <1>1, Invariance, PTL

LEMMA SameOf ==
  ASSUME NEW t \in Tab, NEW F \in SUBSET File, NEW G \in SUBSET File,
         RecordFileOf(t) \in F <=> RecordFileOf(t) \in G,
         \A k \in Col : <<t, k>> \in F <=> <<t, k>> \in G
  PROVE  Of(t, F) = Of(t, G)
BY DEF Of, File, RecordFileOf

\* A table of the open database that nobody works on has in the catalog, in the
\* maps of handles, in the table of open files and in the directory the same files.
THEOREM HandlesMatchCatalog == AgreedSpec => []HandlesMatch
<1>1. ASSUME IInv, NEW t \in Tab, Settled(t)
      PROVE  LET F == Of(t, FilesOf(tabs)) IN
             /\ F = Of(t, DOMAIN open_files)
             /\ F = Of(t, {RecordFileOf(u) : u \in fhs} \cup ihs)
             /\ \A f \in F : open_files[f] = current_db_name
             /\ current_db_name # NoDb => F = Of(t, files[current_db_name])
  <2>1. Types /\ DirsOK /\ TablesOK
    <3>1. \A c \in Client : pc[c] \notin Moving
      BY <1>1, MovingExclusive DEF Settled, IInv
    <3>. QED  BY <1>1, <3>1 DEF IInv, PhaseOK
  <2>2. /\ FilesOf(tabs) \subseteq File /\ DOMAIN open_files \subseteq File
        /\ Handles \subseteq File
        /\ \A k \in Col : /\ <<t, k>> \in FilesOf(tabs) <=> Marked(t, k)
                          /\ <<t, k>> \in Handles <=> <<t, k>> \in ihs
        /\ RecordFileOf(t) \in FilesOf(tabs) <=> t \in DOMAIN tabs
        /\ RecordFileOf(t) \in Handles <=> t \in fhs
    BY <2>1, FilesOfCatalog, NamesAssumption DEF Types, Handles, RecordFileOf, File, Marked
  <2>3. CASE current_db_name = NoDb
    <3>1. FilesOf(tabs) = {} /\ DOMAIN open_files = {} /\ Handles = {}
      BY <2>1, <2>3, EmptyCatalog DEF TablesOK
    <3>. QED  BY <2>3, <3>1 DEF Of, Handles
  <2>4. CASE current_db_name # NoDb
    <3>1. TableAt(t, "idle", NoCall)
      BY <1>1, <2>1, <2>4 DEF TablesOK, Settled
    <3>2. /\ Record(t, t \in DOMAIN tabs, t \in DOMAIN tabs)
          /\ \A k \in Col : Index(t, k, Marked(t, k), Marked(t, k))
      BY <3>1, NamesAssumption DEF TableAt, Record, Index, NoRecord, NoCall, Making, Known
    <3>3. files[current_db_name] \subseteq File
      BY <2>1, <2>4 DEF Types, Dir
    <3>4. Of(t, FilesOf(tabs)) = Of(t, DOMAIN open_files)
      BY <2>2, <3>2, SameOf DEF Record, Index
    <3>5. Of(t, FilesOf(tabs)) = Of(t, Handles)
      BY <2>2, <3>2, SameOf DEF Record, Index
    <3>6. Of(t, FilesOf(tabs)) = Of(t, files[current_db_name])
      BY <2>2, <3>2, <3>3, SameOf DEF Record, Index
    <3>7. \A f \in Of(t, FilesOf(tabs)) : open_files[f] = current_db_name
      BY <2>1, <3>4 DEF DirsOK, Of
    <3>. QED  BY <3>4, <3>5, <3>6, <3>7 DEF Handles
  <2>. QED  BY <2>3, <2>4
<1>2. IInv => HandlesMatch
  BY <1>1 DEF HandlesMatch
<1>. QED  BY <1>2, Invariance, PTL

\* What create_index and drop_table go on using after they have given back the
\* semaphore they found it under is still there.
THEOREM ReferencesLive == AgreedSpec => []RefsLive
<1>1. ASSUME IInv, NEW c \in Client, NEW r, r = call[c],
             pc[c] \in {"destroy_table", "drop_indexes", "find_table", "fill_index", "store_index",
                        "mark_index", "destroy_index", "unmark_index"}
      PROVE  /\ r.tab \in DOMAIN tabs
             /\ At(c, "fill_index") => r.tab \in fhs /\ IndexFileOf(r.tab, r.col) \in DOMAIN open_files
  <2>1. r.op \in TableOps \cup IndexOps
    <3>1. CallAt(pc[c], r)
      BY <1>1 DEF IInv, CallsOK
    <3>. QED  BY <1>1, <3>1, TableLabels DEF CreateIndexAt, DropIndexAt, Making, TableOps, IndexOps
  <2>2. \A p : p = pc[c] => TableAt(r.tab, p, r) /\ CallAt(p, r)
    BY <1>1, <2>1, AtTable
  <2>3. r.tab \in DOMAIN tabs
    BY <1>1, <2>2 DEF TableAt, Known
  <2>4. ASSUME pc[c] = "fill_index"
        PROVE  r.tab \in fhs /\ IndexFileOf(r.tab, r.col) \in DOMAIN open_files
    <3>1. TableAt(r.tab, "fill_index", r) /\ CallAt("fill_index", r)
      BY <2>2, <2>4
    <3>2. r.op = "create_index" /\ r.col \in Col
      BY <3>1, TableLabels DEF CallAt, CreateIndexAt, DropIndexAt, DropTableAt, Making
    <3>3. Record(r.tab, TRUE, TRUE) /\ Index(r.tab, r.col, TRUE, FALSE)
      BY <3>1, <3>2 DEF TableAt, Record, Index, NoRecord, Making
    <3>. QED  BY <3>3 DEF Record, Index, IndexFileOf
  <2>. QED  BY <2>3, <2>4 DEF At
<1>2. IInv => RefsLive
  BY <1>1 DEF RefsLive, At
<1>. QED  BY <1>2, Invariance, PTL

\* The list of databases and the directories agree, except on those that
\* create_db or drop_db is at work on.
THEOREM ListMatchesDirectories == AgreedSpec => []Registered
<1>1. ASSUME IInv, NEW d \in Db, \A c \in Client : call[c].db # d
      PROVE  d \in dirs <=> d \in db_list
  BY <1>1 DEF IInv, DirsOK, DatabaseOK
<1>2. IInv => Registered
  BY <1>1 DEF Registered
<1>. QED  BY <1>2, Invariance, PTL

-----------------------------------------------------------------------------
(* The catalog implements the abstract one.                                *)

ClosingAt == {"close_files", "close_indexes", "leave"}

\* What a database holds.
LEMMA ContentIs ==
  ASSUME NEW d
  PROVE  /\ d \notin dirs => Content(d) = Absent
         /\ d \in dirs /\ d = current_db_name /\ ~Closing => Content(d) = tabs
         /\ d \in dirs /\ (d # current_db_name \/ Closing) => Content(d) = Stored(d)
         /\ d \notin dirs' => Content(d)' = Absent
         /\ d \in dirs' /\ d = current_db_name' /\ ~Closing' => Content(d)' = tabs'
         /\ d \in dirs' /\ (d # current_db_name' \/ Closing') => Content(d)' = Stored(d)'
BY DEF Content, Stored

LEMMA ClosingIs ==
  ASSUME IInv, NEW c \in Client, NEW p \in Labels, NEW r \in Calls, Moves(c, p, r),
         call[c].op # "none"
  PROVE  /\ Closing <=> pc[c] \in ClosingAt
         /\ Closing' <=> p \in ClosingAt
<1>1. pc'[c] = p /\ \A o \in Client \ {c} : pc'[o] = pc[o]
  BY Moved DEF IInv
<1>2. ASSUME NEW o \in Client \ {c} PROVE pc[o] \notin ClosingAt
  <2>1. pc[o] \in ClosingAt => Exclusive(call[o].op)
    BY MovingExclusive DEF IInv, ClosingAt, Moving
  <2>2. ~Exclusive(call[o].op)
    BY DEF IInv, CallsOK, Compatible
  <2>. QED  BY <2>1, <2>2
<1>. QED  BY <1>1, <1>2 DEF Closing, ClosingAt

\* A step of a database operation or on the files of a table, which changes no catalog.
LEMMA ContentKept ==
  ASSUME IInv, NEW c \in Client, NEW p \in Labels, NEW r \in Calls, Moves(c, p, r),
         call[c].op # "none",
         pc[c] \in ClosingAt <=> p \in ClosingAt,
         UNCHANGED <<dirs, meta, tabs, current_db_name>>
  PROVE  UNCHANGED Store!vars
<1>1. Closing' <=> Closing
  BY ClosingIs
<1>2. \A d \in Db : Content(d)' = Content(d)
  BY <1>1, ContentIs DEF Stored
<1>. QED  BY <1>2 DEF Store!vars

\* A step that changes at most the catalog of the open database.
LEMMA ContentOfTables ==
  ASSUME IInv, NEW c \in Client, NEW r, r = call[c], r.op \in TableOps \cup IndexOps,
         NEW p \in Labels \ ClosingAt, NEW s \in Calls, Moves(c, p, s),
         UNCHANGED <<dirs, meta, current_db_name>>
  PROVE  LET content == [d \in Db |-> Content(d)] IN
         /\ current_db_name \in Db /\ current_db_name # NoDb
         /\ content[current_db_name] = tabs
         /\ content' = [content EXCEPT ![current_db_name] = tabs']
<1>1. /\ current_db_name \in Db /\ current_db_name \in dirs /\ current_db_name # NoDb
      /\ pc[c] \notin ClosingAt
  <2>1. current_db_name \in Db /\ pc[c] \notin ClosingAt
    BY AtTable, Quiet DEF Moving, ClosingAt, TableOps, IndexOps
  <2>. QED  BY <2>1, NamesAssumption DEF IInv, DirsOK
<1>2. ~Closing /\ ~Closing'
  BY <1>1, ClosingIs DEF TableOps, IndexOps
<1>3. /\ Content(current_db_name) = tabs /\ Content(current_db_name)' = tabs'
      /\ \A d \in Db \ {current_db_name} : Content(d)' = Content(d)
  BY <1>1, <1>2, ContentIs DEF Stored
<1>. QED  BY <1>1, <1>3

LEMMA AtWork ==
  ASSUME IInv, NEW c \in Client, pc[c] # "idle"
  PROVE  call[c].op # "none"
<1>1. CallAt(pc[c], call[c])
  BY DEF IInv, CallsOK
<1>. QED  BY <1>1 DEF CallAt

LEMMA ReturnKeepsContent ==
  ASSUME IInv, NEW c \in Client, pc[c] \notin ClosingAt \cup {"idle"}, Return(c),
         UNCHANGED <<dirs, meta, tabs, current_db_name>>
  PROVE  UNCHANGED Store!vars
<1>1. "idle" \in Labels /\ "idle" \notin ClosingAt /\ Moves(c, "idle", NoCall)
  BY Idle DEF ClosingAt
<1>. QED  BY <1>1, AtWork, NoCallType, ContentKept

LEMMA GoKeepsContent ==
  ASSUME IInv, NEW c \in Client, pc[c] # "idle", NEW p \in Labels, Go(c, p),
         pc[c] \in ClosingAt <=> p \in ClosingAt,
         UNCHANGED <<dirs, meta, tabs, current_db_name>>
  PROVE  UNCHANGED Store!vars
<1>1. Moves(c, p, call[c]) /\ call[c] \in Calls
  BY GoMoves DEF IInv, Types
<1>. QED  BY <1>1, AtWork, ContentKept

\* The steps of operations on databases that change no catalog.
LEMMA DbStutters ==
  ASSUME IInv, NEW c \in Client,
         \/ RegisterDatabase(c) \/ DropDb(c) \/ UnregisterDatabase(c) \/ OpenDb(c)
         \/ LockFileHandles(c) \/ OpenAll(c)
  PROVE  UNCHANGED Store!vars
<1>1. /\ {"remove_dir", "switch", "open_all"} \cap ClosingAt = {}
      /\ {"remove_dir", "switch", "open_all"} \subseteq Labels
  BY DEF ClosingAt, Labels
<1>2. /\ pc[c] \in {"register_database", "drop_db", "unregister_database", "open_db",
                    "lock_file_handles", "open_all"}
      /\ UNCHANGED <<dirs, meta, tabs, current_db_name>>
      /\ Return(c) \/ \E p \in {"remove_dir", "switch", "open_all"} : Go(c, p)
  BY DEF RegisterDatabase, DropDb, UnregisterDatabase, OpenDb, LockFileHandles, OpenAll, At, Refused,
         Broken, memory, disk
<1>3. pc[c] \notin ClosingAt \cup {"idle"}
  BY <1>2 DEF ClosingAt
<1>. QED  BY <1>1, <1>2, <1>3, ReturnKeepsContent, GoKeepsContent

\* Those of operations on tables and indexes.
LEMMA TableStutters ==
  ASSUME IInv, NEW c \in Client,
         \/ OpenTable(c) \/ DropTable(c) \/ DestroyTable(c) \/ DropNextIndex(c) \/ CreateIndex(c)
         \/ FindTable(c) \/ FillIndex(c) \/ StoreIndex(c) \/ DropIndex(c) \/ DestroyIndex(c)
  PROVE  UNCHANGED Store!vars
<1>. DEFINE After == {"destroy_table", "find_table", "fill_index", "store_index", "mark_index",
                      "destroy_index", "unmark_index"}
<1>1. After \cap ClosingAt = {} /\ After \subseteq Labels
  BY DEF ClosingAt, Labels
<1>2. CASE \/ OpenTable(c) \/ DropTable(c) \/ CreateIndex(c) \/ FindTable(c) \/ FillIndex(c)
           \/ StoreIndex(c) \/ DestroyIndex(c)
  <2>1. /\ pc[c] \in After \cup {"open_table", "drop_table", "create_index"}
        /\ UNCHANGED <<dirs, meta, tabs, current_db_name>>
        /\ Return(c) \/ \E p \in After : Go(c, p)
    BY <1>2 DEF OpenTable, DropTable, CreateIndex, FindTable, FillIndex, StoreIndex, DestroyIndex,
                At, Refused, Broken, memory, disk
  <2>2. pc[c] \notin ClosingAt \cup {"idle"}
    BY <2>1 DEF ClosingAt
  <2>. QED  BY <1>1, <2>1, <2>2, ReturnKeepsContent, GoKeepsContent
<1>3. CASE DestroyTable(c)
  <2>1. /\ pc[c] = "destroy_table" /\ UNCHANGED <<dirs, meta, tabs, current_db_name>>
        /\ \/ Return(c)
           \/ pc' = [pc EXCEPT ![c] = "drop_indexes"] /\ call' = [call EXCEPT ![c].todo = Col]
    BY <1>3 DEF DestroyTable, At, Broken
  <2>. DEFINE s == [call[c] EXCEPT !.todo = Col]
  <2>2. s \in Calls
    BY DEF IInv, Types, Calls
  <2>3. "drop_indexes" \in Labels /\ {"destroy_table", "drop_indexes"} \cap (ClosingAt \cup {"idle"}) = {}
    BY DEF Labels, ClosingAt
  <2>4. call' = [call EXCEPT ![c].todo = Col] => call' = [call EXCEPT ![c] = s]
    BY DEF IInv, Types
  <2>. HIDE DEF s
  <2>. QED  BY <2>1, <2>2, <2>3, <2>4, AtWork, ReturnKeepsContent, ContentKept DEF Moves
<1>4. CASE DropNextIndex(c)
  <2>1. PICK k \in call[c].todo :
          /\ pc[c] = "drop_indexes" /\ UNCHANGED <<dirs, meta, tabs, current_db_name>>
          /\ call' = [call EXCEPT ![c].todo = @ \ {k}, ![c].col = k]
          /\ \E p \in {"drop_index", "drop_indexes"} : pc' = [pc EXCEPT ![c] = p]
    BY <1>4 DEF DropNextIndex, At, memory, disk
  <2>. DEFINE s == [call[c] EXCEPT !.todo = @ \ {k}, !.col = k]
  <2>2. s \in Calls /\ call' = [call EXCEPT ![c] = s]
    <3>1. call \in [Client -> Calls] /\ call[c] \in Calls
      BY DEF IInv, Types
    <3>2. k \in Col /\ s \in Calls
      BY <3>1 DEF Calls
    <3>. QED  BY <2>1, <3>1, <3>2 DEF Calls
  <2>3. /\ {"drop_index", "drop_indexes"} \subseteq Labels
        /\ {"drop_index", "drop_indexes"} \cap (ClosingAt \cup {"idle"}) = {}
    BY DEF Labels, IndexOps, ClosingAt
  <2>. HIDE DEF s
  <2>. QED  BY <2>1, <2>2, <2>3, AtWork, ContentKept DEF Moves
<1>5. CASE DropIndex(c)
  <2>1. pc[c] = "drop_index" /\ call[c].op \in {"drop_table", "drop_index"}
    BY <1>5, TableLabels DEF DropIndex, At, IInv, CallsOK, DropIndexAt
  <2>2. \A p, r : p = pc[c] /\ r = call[c] => TableAt(r.tab, p, r)
    BY <2>1, AtTable DEF TableOps, IndexOps
  <2>3. call[c].tab \in DOMAIN tabs
    BY <2>1, <2>2 DEF TableAt, Known
  <2>4. /\ UNCHANGED <<dirs, meta, tabs, current_db_name>>
        /\ Return(c) \/ Go(c, "destroy_index")
    BY <1>5, <2>3 DEF DropIndex, Refused, Broken, memory, disk
  <2>5. pc[c] \notin ClosingAt \cup {"idle"}
    BY <2>1 DEF ClosingAt
  <2>. QED  BY <1>1, <2>4, <2>5, ReturnKeepsContent, GoKeepsContent
<1>. QED  BY <1>2, <1>3, <1>4, <1>5

\* A step of create_db or drop_db on the database d: the others keep their content.
LEMMA ContentOfOthers ==
  ASSUME IInv, NEW c \in Client, NEW r, r = call[c], r.op \in {"create_db", "drop_db"},
         NEW p \in Labels \ ClosingAt, Go(c, p), UNCHANGED <<tabs, current_db_name>>,
         \A e \in Db \ {r.db} : (e \in dirs' <=> e \in dirs) /\ meta'[e] = meta[e]
  PROVE  /\ r.db \in Db
         /\ \A e \in Db \ {r.db} : Content(e)' = Content(e)
<1>1. r.db \in Db
  BY AtDatabase
<1>2. Closing' <=> Closing
  <2>1. pc[c] \notin ClosingAt
    BY Quiet DEF Moving, ClosingAt
  <2>2. Moves(c, p, r) /\ r \in Calls
    BY GoMoves DEF IInv, Types
  <2>. QED  BY <2>1, <2>2, ClosingIs
<1>. QED  BY <1>1, <1>2, ContentIs DEF Stored

LEMMA CreateDbRefines ==
  ASSUME IInv, NEW c \in Client, NEW r, r = call[c], CreateDb(c)
  PROVE  Store!Next \/ UNCHANGED Store!vars
<1>. DEFINE d == r.db
<1>1. pc[c] = "create_db" /\ r.op = "create_db" /\ pc[c] \notin ClosingAt \cup {"idle"}
  BY DbLabels DEF CreateDb, At, IInv, CallsOK, CreateDbAt, ClosingAt
<1>2. CASE d \in dirs
  BY <1>1, <1>2, ReturnKeepsContent DEF CreateDb, Refused, memory, disk
<1>3. CASE d \notin dirs
  <2>1. /\ dirs' = dirs \cup {d} /\ Go(c, "write_meta")
        /\ UNCHANGED <<posted, memory, cwd, open_files, files, meta, db_list>>
    BY <1>3 DEF CreateDb
  <2>2. "write_meta" \in Labels \ ClosingAt
    BY DEF Labels, ClosingAt
  <2>3. d \in Db /\ \A e \in Db \ {d} : Content(e)' = Content(e)
    BY <1>1, <2>1, <2>2, ContentOfOthers DEF memory
  <2>4. d # current_db_name /\ Stored(d) = << >>
    BY <1>1, <1>3, <2>3, AtDatabase, NamesAssumption DEF IInv, DirsOK, Stored
  <2>5. Content(d) = Absent /\ Content(d)' = << >>
    BY <1>3, <2>1, <2>4, ContentIs DEF Stored, memory
  <2>6. Store!CreateDb(d)
    BY <2>1, <2>3, <2>5 DEF Store!CreateDb, memory
  <2>. QED  BY <2>3, <2>6 DEF Store!Next
<1>. QED  BY <1>2, <1>3

LEMMA WriteMetaRefines ==
  ASSUME IInv, NEW c \in Client, NEW r, r = call[c], WriteMeta(c)
  PROVE  UNCHANGED Store!vars
<1>. DEFINE d == r.db
<1>1. pc[c] = "write_meta" /\ r.op = "create_db"
  BY DbLabels DEF WriteMeta, At, IInv, CallsOK, CreateDbAt
<1>2. /\ meta' = [meta EXCEPT ![d] = IF d \in dirs THEN << >> ELSE @]
      /\ Go(c, "register_database")
      /\ UNCHANGED <<posted, memory, cwd, open_files, dirs, files, db_list>>
  BY DEF WriteMeta
<1>3. "register_database" \in Labels \ ClosingAt
  BY DEF Labels, ClosingAt
<1>4. d \in Db /\ \A e \in Db \ {d} : Content(e)' = Content(e)
  <2>1. \A e \in Db \ {d} : meta'[e] = meta[e]
    BY <1>2 DEF IInv, Types, Dir
  <2>. QED  BY <1>1, <1>2, <1>3, <2>1, ContentOfOthers DEF memory
<1>5. meta[d] = NoMeta /\ d # current_db_name /\ d \in dirs
  BY <1>1 DEF IInv, DirsOK, At
<1>6. Stored(d) = << >> /\ Stored(d)' = << >>
  BY <1>2, <1>4, <1>5 DEF IInv, Types, Dir, Stored
<1>7. Content(d)' = Content(d)
  BY <1>2, <1>5, <1>6, ContentIs DEF memory
<1>. QED  BY <1>2, <1>4, <1>7 DEF Store!vars, memory

LEMMA RemoveDirRefines ==
  ASSUME IInv, NEW c \in Client, NEW r, r = call[c], RemoveDir(c)
  PROVE  Store!Next \/ UNCHANGED Store!vars
<1>. DEFINE d == r.db
<1>1. pc[c] = "remove_dir" /\ r.op = "drop_db"
  BY DbLabels DEF RemoveDir, At, IInv, CallsOK, DropDbAt
<1>2. /\ dirs' = dirs \ {d} /\ meta' = [meta EXCEPT ![d] = NoMeta]
      /\ Go(c, "unregister_database") /\ UNCHANGED <<posted, memory, cwd, open_files, db_list>>
  BY DEF RemoveDir
<1>3. "unregister_database" \in Labels \ ClosingAt
  BY DEF Labels, ClosingAt
<1>4. d \in Db /\ \A e \in Db \ {d} : Content(e)' = Content(e)
  <2>1. \A e \in Db \ {d} : meta'[e] = meta[e]
    BY <1>2 DEF IInv, Types, Dir
  <2>. QED  BY <1>1, <1>2, <1>3, <2>1, ContentOfOthers DEF memory
<1>5. d # current_db_name
  BY <1>1 DEF IInv, DirsOK
<1>6. Content(d)' = Absent
  BY <1>2, ContentIs
<1>7. CASE d \notin dirs
  BY <1>2, <1>4, <1>6, <1>7, ContentIs DEF Store!vars, memory
<1>8. CASE d \in dirs
  <2>1. Content(d) = Stored(d) /\ Stored(d) \in Catalogs
    BY <1>4, <1>5, <1>8, ContentIs, EmptyCatalog DEF Stored, IInv, Types, Dir
  <2>2. Content(d) # Absent
    BY <2>1, AbsentAssumption DEF Catalogs
  <2>3. Store!DropDb(d)
    BY <1>2, <1>4, <1>5, <1>6, <2>2 DEF Store!DropDb, memory
  <2>. QED  BY <1>4, <2>3 DEF Store!Next
<1>. QED  BY <1>7, <1>8

LEMMA LoadMetaRefines ==
  ASSUME IInv, NEW c \in Client, NEW r, r = call[c], r.op = "open_db", pc[c] \in {"switch", "load"},
         current_db_name = NoDb, LoadMeta(c)
  PROVE  Store!Next
<1>. DEFINE d == r.db
<1>1. /\ r \in Calls /\ d \in Db /\ d \in dirs /\ meta[d] \in Catalogs /\ meta[d] # NoMeta
      /\ tabs' = meta[d] /\ current_db_name' = d
      /\ Go(c, "lock_file_handles") /\ UNCHANGED <<posted, fhs, ihs, open_files, disk>>
  BY LoadMetaFacts
<1>2. ~Closing /\ ~Closing'
  <2>1. /\ "lock_file_handles" \in Labels /\ "lock_file_handles" \notin ClosingAt
        /\ pc[c] \notin ClosingAt
    BY DEF Labels, ClosingAt
  <2>. QED  BY <1>1, <2>1, GoMoves, ClosingIs DEF IInv
<1>3. \A e \in Db : Stored(e)' = Stored(e)
  BY <1>1 DEF Stored, disk
<1>4. Content(d) = meta[d] /\ Content(d)' = meta[d]
  BY <1>1, <1>2, ContentIs, NamesAssumption DEF Stored, disk
<1>5. \A e \in Db : Content(e)' = Content(e)
  BY <1>1, <1>2, <1>3, <1>4, ContentIs, NamesAssumption DEF disk
<1>6. Content(d) # Absent
  BY <1>1, <1>4, AbsentAssumption DEF Catalogs
<1>7. Store!Select(d)
  BY <1>1, <1>5, <1>6 DEF Store!Select
<1>. QED  BY <1>1, <1>7 DEF Store!Next

LEMMA SwitchRefines ==
  ASSUME IInv, NEW c \in Client, Switch(c) \/ Load(c)
  PROVE  Store!Next \/ UNCHANGED Store!vars
<1>1. pc[c] \in {"switch", "load"} /\ call[c].op = "open_db"
  BY DbLabels DEF Switch, Load, At, IInv, CallsOK, OpenDbAt, CloseDbAt
<1>2. CASE current_db_name = NoDb
  BY <1>1, <1>2, LoadMetaRefines DEF Switch, Load
<1>3. CASE current_db_name # NoDb
  <2>1. Switch(c)
    BY <1>3 DEF Load, IInv, DirsOK
  <2>2. Go(c, "close_db") /\ UNCHANGED <<posted, memory, cwd, open_files, disk>>
    BY <1>3, <2>1 DEF Switch
  <2>3. "close_db" \in Labels /\ {"close_db", "switch", "load"} \cap (ClosingAt \cup {"idle"}) = {}
    BY DEF Labels, ClosingAt
  <2>. QED  BY <1>1, <2>2, <2>3, GoKeepsContent DEF memory, disk
<1>. QED  BY <1>2, <1>3

\* close_db: the catalog moves to db.meta and is seen there until the database is left.
LEMMA CloseDbRefines ==
  ASSUME IInv, NEW c \in Client, CloseDb(c)
  PROVE  UNCHANGED Store!vars
<1>1. pc[c] = "close_db" /\ pc[c] \notin ClosingAt \cup {"idle"} /\ Exclusive(call[c].op)
  BY ClosingExclusive DEF CloseDb, At, ClosingAt, IInv, CloseDbAt
<1>2. CASE current_db_name = NoDb
  BY <1>1, <1>2, ReturnKeepsContent DEF CloseDb, Refused, memory, disk
<1>3. CASE current_db_name # NoDb
  <2>. DEFINE d == current_db_name
  <2>1. d \in dirs /\ InDirectory /\ cwd = d /\ Types
    BY <1>1, <1>3, AtExclusive DEF IInv
  <2>2. /\ meta' = [meta EXCEPT ![d] = tabs] /\ Go(c, "close_files")
        /\ UNCHANGED <<current_db_name, dirs>>
    BY <1>3, <2>1 DEF CloseDb
  <2>3. meta'[d] = tabs /\ tabs # NoMeta /\ \A e \in Db \ {d} : meta'[e] = meta[e]
    BY <2>1, <2>2, CatalogForm DEF Types, Dir
  <2>4. ~Closing /\ Closing'
    <3>1. "close_files" \in Labels \cap ClosingAt
      BY DEF Labels, ClosingAt
    <3>2. Moves(c, "close_files", call[c]) /\ call[c] \in Calls
      BY <2>1, <2>2, GoMoves DEF Types
    <3>. QED  BY <1>1, <3>1, <3>2, ClosingIs, AtWork
  <2>5. Content(d)' = Content(d)
    BY <2>1, <2>2, <2>3, <2>4, ContentIs DEF Stored
  <2>6. \A e \in Db \ {d} : Content(e)' = Content(e)
    BY <2>2, <2>3, <2>4, ContentIs DEF Stored
  <2>. QED  BY <2>2, <2>5, <2>6 DEF Store!vars
<1>. QED  BY <1>2, <1>3

LEMMA CloseHandlesRefines ==
  ASSUME IInv, NEW c \in Client, CloseFiles(c) \/ CloseIndexes(c)
  PROVE  UNCHANGED Store!vars
<1>1. /\ pc[c] \in {"close_files", "close_indexes"} /\ UNCHANGED <<tabs, current_db_name, disk>>
      /\ Go(c, "close_indexes") \/ Go(c, "leave")
  BY CloseFilesFacts, CloseIndexesFacts
<1>2. {"close_files", "close_indexes", "leave"} \subseteq Labels \cap ClosingAt /\ "idle" \notin ClosingAt
  BY DEF Labels, ClosingAt
<1>. QED  BY <1>1, <1>2, GoKeepsContent DEF disk

LEMMA LeaveRefines ==
  ASSUME IInv, NEW c \in Client, Leave(c)
  PROVE  Store!Next
<1>1. pc[c] = "leave" /\ pc[c] \in Moving \cap ClosingAt
  BY DEF Leave, At, Moving, ClosingAt
<1>2. InDirectory /\ current_db_name \in Db
  BY <1>1, AtMoving
<1>3. /\ current_db_name' = NoDb /\ UNCHANGED <<tabs, disk>>
      /\ Go(c, "load") \/ Return(c)
  BY <1>2 DEF Leave
<1>4. Closing /\ ~Closing'
  <2>1. \E p \in {"load", "idle"}, s \in Calls : Moves(c, p, s)
    BY <1>3, GoMoves, Idle, NoCallType DEF IInv, Types
  <2>2. {"load", "idle"} \subseteq Labels \ ClosingAt /\ pc[c] # "idle"
    BY <1>1 DEF Labels, ClosingAt
  <2>. QED  BY <1>1, <2>1, <2>2, ClosingIs, AtWork
<1>5. \A e \in Db : Content(e)' = Content(e)
  BY <1>3, <1>4, ContentIs, NamesAssumption DEF Stored, disk
<1>6. Store!Deselect
  BY <1>2, <1>3, <1>5, NamesAssumption DEF Store!Deselect
<1>. QED  BY <1>6 DEF Store!Next

LEMMA CreateTableRefines ==
  ASSUME IInv, NEW c \in Client, NEW r, r = call[c], CreateTable(c)
  PROVE  Store!Next \/ UNCHANGED Store!vars
<1>. DEFINE t == r.tab
            content == [d \in Db |-> Content(d)]
            v == [k \in Col |-> FALSE]
<1>1. /\ pc[c] = "create_table" /\ r.op = "create_table" /\ pc[c] \notin ClosingAt \cup {"idle"}
  BY TableLabels DEF CreateTable, At, IInv, CallsOK, CreateTableAt, ClosingAt
<1>2. CASE UNCHANGED <<dirs, meta, tabs, current_db_name>> /\ Return(c)
  BY <1>1, <1>2, ReturnKeepsContent
<1>3. CASE t \notin DOMAIN tabs /\ tabs' = With(tabs, t, v) /\ Go(c, "open_table")
           /\ UNCHANGED <<dirs, meta, current_db_name>>
  <2>1. /\ Moves(c, "open_table", r) /\ r \in Calls /\ t \in Tab
        /\ "open_table" \in Labels \ ClosingAt
    BY <1>1, <1>3, GoMoves, AtTable DEF IInv, Types, Labels, ClosingAt, TableOps
  <2>2. /\ current_db_name \in Db /\ current_db_name # NoDb /\ content[current_db_name] = tabs
        /\ content' = [content EXCEPT ![current_db_name] = tabs']
    BY <1>1, <1>3, <2>1, ContentOfTables DEF TableOps
  <2>3. tabs' = [u \in DOMAIN tabs \cup {t} |-> IF u = t THEN v ELSE tabs[u]]
    BY <1>3 DEF With
  <2>. HIDE DEF v
  <2>4. content' = [content EXCEPT ![current_db_name] =
                      [u \in DOMAIN tabs \cup {t} |-> IF u = t THEN v ELSE @[u]]]
    BY <2>2, <2>3
  <2>5. Store!Tables = DOMAIN tabs
    BY <2>2 DEF Store!Tables
  <2>6. Store!CreateTable(t)
    BY <1>3, <2>2, <2>4, <2>5 DEF Store!CreateTable, v
  <2>. QED  BY <2>1, <2>6 DEF Store!Next
<1>. QED  BY <1>2, <1>3 DEF CreateTable, Refused, Broken, memory, disk

LEMMA ForgetTableRefines ==
  ASSUME IInv, NEW c \in Client, NEW r, r = call[c], ForgetTable(c)
  PROVE  Store!Next
<1>. DEFINE t == r.tab
            content == [d \in Db |-> Content(d)]
<1>1. pc[c] = "drop_indexes" /\ r.op = "drop_table"
  BY TableLabels DEF ForgetTable, At, IInv, CallsOK
<1>2. /\ tabs' = Without(tabs, {t}) /\ Return(c) /\ UNCHANGED <<dirs, meta, current_db_name>>
  BY DEF ForgetTable, disk
<1>3. t \in Tab /\ t \in DOMAIN tabs
  BY <1>1, AtTable DEF TableOps, TableAt, Known
<1>4. /\ current_db_name \in Db /\ current_db_name # NoDb /\ content[current_db_name] = tabs
      /\ content' = [content EXCEPT ![current_db_name] = tabs']
  <2>1. Moves(c, "idle", NoCall) /\ "idle" \in Labels \ ClosingAt
    BY <1>2, Idle DEF ClosingAt
  <2>. QED  BY <1>1, <1>2, <2>1, NoCallType, ContentOfTables DEF TableOps
<1>5. tabs' = [u \in DOMAIN tabs \ {t} |-> tabs[u]]
  BY <1>2 DEF Without
<1>6. content' = [content EXCEPT ![current_db_name] = [u \in DOMAIN tabs \ {t} |-> @[u]]]
  BY <1>4, <1>5
<1>7. Store!Tables = DOMAIN tabs
  BY <1>4 DEF Store!Tables
<1>8. Store!DropTable(t)
  BY <1>2, <1>3, <1>4, <1>6, <1>7 DEF Store!DropTable
<1>. QED  BY <1>3, <1>8 DEF Store!Next

LEMMA MarkRefines ==
  ASSUME IInv, NEW c \in Client, NEW r, r = call[c], NEW b \in BOOLEAN,
         \/ MarkIndex(c) /\ b
         \/ UnmarkIndex(c) /\ ~b
  PROVE  Store!Next
<1>. DEFINE t == r.tab
            k == r.col
            content == [d \in Db |-> Content(d)]
<1>1. /\ pc[c] \in {"mark_index", "unmark_index"} /\ r.op \in TableOps \cup IndexOps
      /\ pc[c] = "mark_index" <=> b
  BY TableLabels
  DEF MarkIndex, UnmarkIndex, At, IInv, CallsOK, DropIndexAt, CreateIndexAt, Making, TableOps, IndexOps
<1>2. /\ Mark(c, b) /\ UNCHANGED <<dirs, meta, current_db_name>>
      /\ Return(c) \/ Go(c, "drop_indexes")
  BY DEF MarkIndex, UnmarkIndex, disk
<1>3. t \in Tab /\ t \in DOMAIN tabs /\ k \in Col /\ (tabs[t][k] <=> ~b)
  <2>1. t \in Tab /\ \A p : p = pc[c] => TableAt(t, p, r) /\ CallAt(p, r)
    BY <1>1, AtTable
  <2>2. CASE b
    <3>1. TableAt(t, "mark_index", r) /\ CallAt("mark_index", r)
      BY <1>1, <2>1, <2>2
    <3>2. k \in Col
      BY <3>1, TableLabels DEF CallAt, CreateIndexAt, DropIndexAt, DropTableAt, Making
    <3>. QED  BY <2>1, <2>2, <3>1, <3>2 DEF TableAt, Known, Marked, Making
  <2>3. CASE ~b
    <3>1. TableAt(t, "unmark_index", r)
      BY <1>1, <2>1, <2>3
    <3>. QED  BY <2>1, <2>3, <3>1 DEF TableAt, Known, Marked
  <2>. QED  BY <2>2, <2>3
<1>4. /\ current_db_name \in Db /\ current_db_name # NoDb /\ content[current_db_name] = tabs
      /\ content' = [content EXCEPT ![current_db_name] = tabs']
  <2>1. \E p \in {"idle", "drop_indexes"}, s \in Calls : Moves(c, p, s)
    BY <1>2, GoMoves, Idle, NoCallType DEF IInv, Types
  <2>2. {"idle", "drop_indexes"} \subseteq Labels \ ClosingAt
    BY DEF Labels, ClosingAt
  <2>. QED  BY <1>1, <1>2, <2>1, <2>2, ContentOfTables
<1>5. tabs \in [DOMAIN tabs -> [Col -> BOOLEAN]]
  BY CatalogForm DEF IInv, Types
<1>6. tabs' = [tabs EXCEPT ![t][k] = ~@]
  BY <1>2, <1>3, <1>5 DEF Mark
<1>7. content' = [content EXCEPT ![current_db_name][t][k] = ~@]
  BY <1>4, <1>6
<1>8. Store!Tables = DOMAIN tabs
  BY <1>4 DEF Store!Tables
<1>9. Store!ToggleIndex(t, k)
  BY <1>2, <1>3, <1>4, <1>7, <1>8 DEF Store!ToggleIndex
<1>. QED  BY <1>3, <1>9 DEF Store!Next

LEMMA BeginRefines ==
  ASSUME IInv, NEW c \in Client, NEW r \in Requests, Begin(c, r)
  PROVE  UNCHANGED Store!vars
<1>1. pc[c] = "idle" /\ Moves(c, r.op, r) /\ UNCHANGED <<dirs, meta, tabs, current_db_name>>
  BY DEF Begin, At, Moves, memory, disk
<1>2. r \in Calls /\ r.op \in Labels \ ClosingAt
  BY RequestFacts DEF Moving, ClosingAt
<1>3. pc'[c] = r.op /\ \A o \in Client \ {c} : pc'[o] = pc[o]
  BY <1>1, <1>2, Moved DEF IInv
<1>4. Closing' <=> Closing
  BY <1>1, <1>2, <1>3 DEF Closing, ClosingAt
<1>5. \A d \in Db : Content(d)' = Content(d)
  BY <1>1, <1>4, ContentIs DEF Stored
<1>. QED  BY <1>1, <1>5 DEF Store!vars

LEMMA NextRefines == IInv /\ [AgreedNext]_vars => [Store!Next]_(Store!vars)
<1>. SUFFICES ASSUME IInv, [AgreedNext]_vars PROVE Store!Next \/ UNCHANGED Store!vars
  OBVIOUS
<1>1. ASSUME NEW c \in Client, Step(c)
      PROVE  Store!Next \/ UNCHANGED Store!vars
  BY <1>1, CreateDbRefines, WriteMetaRefines, RemoveDirRefines, SwitchRefines, CloseDbRefines,
     CloseHandlesRefines, LeaveRefines, CreateTableRefines, ForgetTableRefines, MarkRefines,
     DbStutters, TableStutters
  DEF Step
<1>2. ASSUME NEW c \in Client, NEW r \in Requests, Begin(c, r)
      PROVE  UNCHANGED Store!vars
  BY <1>2, BeginRefines
<1>3. CASE UNCHANGED vars
  <2>1. Closing' <=> Closing
    BY <1>3 DEF Closing, vars
  <2>2. \A d \in Db : Content(d)' = Content(d)
    BY <1>3, <2>1, ContentIs DEF Stored, vars, memory, disk
  <2>. QED  BY <1>3, <2>2 DEF Store!vars, vars, memory
<1>. QED  BY <1>1, <1>2, <1>3 DEF AgreedNext

\* Every database keeps its tables and indexes, and only those of the open one
\* change: what open_db reads back is what close_db wrote, whatever the other
\* threads do in between.
THEOREM ImplementsStore == AgreedSpec => Implements
<1>1. Init => Store!Init
  BY DEF Init, Store!Init, Content
<1>. QED  BY <1>1, Invariance, NextRefines, PTL DEF AgreedSpec, Implements, Store!Spec

=============================================================================
