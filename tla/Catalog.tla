------------------------------ MODULE Catalog ------------------------------
(***************************************************************************)
(* Databases, tables, indexes and their handles (SM_Manager), over the     *)
(* table of open files (PF_Manager).  Every client of the server has a     *)
(* thread that runs one operation at a time; an operation is cut where it  *)
(* gives back a semaphore, so that what it does between a sem_wait and     *)
(* the matching sem_post is one step, and so is what it does in between    *)
(* without one.                                                            *)
(* Sections under different semaphores may overlap in time: they share the *)
(* open files, under a semaphore of their own inside each call of          *)
(* PF_Manager, and the working directory.                                  *)
(*                                                                         *)
(* An exception that is thrown with a semaphore taken leaves it taken:     *)
(* nothing posts it.  Such a step is marked Broken here, an exception the  *)
(* code is prepared for Refused.                                           *)
(*                                                                         *)
(* File names are relative to the working directory of the process, which  *)
(* all the threads share.  A file is named by its table and, if it is that *)
(* of an index, its column.                                                *)
(***************************************************************************)
CONSTANTS
  Client,             \* the threads of the server
  Db, Tab, Col,       \* names of databases, tables and columns
  TooLong,            \* the tables whose records are longer than a page file takes
  NoDb, NoTab, NoCol, \* no name; NoCol is also a name that no column has
  NoMeta,             \* there is no db.meta
  BaseDir, Outside    \* the directory of the server, and any above it

ASSUME TooLongAssumption == TooLong \subseteq Tab
ASSUME NamesAssumption == NoDb \notin Db /\ NoTab \notin Tab /\ NoCol \notin Col
ASSUME NoMetaAssumption == \A T \in SUBSET Tab : NoMeta \notin [T -> [Col -> BOOLEAN]]
ASSUME DirAssumption == {BaseDir, Outside} \cap Db = {}

Dir == Db \cup {BaseDir, Outside}
File == Tab \X (Col \cup {NoCol})
RecordFileOf(t) == <<t, NoCol>>
IndexFileOf(t, k) == <<t, k>>

metadata_sem == "metadata_sem"
file_handles_sem == "file_handles_sem"
index_handles_sem == "index_handles_sem"
Semaphores == {metadata_sem, file_handles_sem, index_handles_sem}

VARIABLES
  posted,             \* the semaphores that can be taken
  tabs,               \* db.tabs: table -> column -> "has an index"
  current_db_name,
  fhs,                \* the tables with a record file handle
  ihs,                \* the <<table, column>> pairs with an index handle
  cwd,                \* the working directory
  open_files,         \* _path2fd: the open files, and the directory of each
  dirs,               \* the databases that have a directory
  files,              \* the record and index files in every directory
  meta,               \* the db.meta in every directory
  db_list,            \* databases.list
  pc,                 \* where a thread is
  call                \* the operation it runs, with its arguments

memory == <<tabs, current_db_name, fhs, ihs>>
disk == <<dirs, files, meta, db_list>>
vars == <<posted, memory, cwd, open_files, disk, pc, call>>

NoCall == [op |-> "none", db |-> NoDb, tab |-> NoTab, col |-> NoCol, todo |-> {}]

Init ==
  /\ posted = Semaphores
  /\ tabs = << >>
  /\ current_db_name = NoDb
  /\ fhs = {} /\ ihs = {}
  /\ cwd = BaseDir
  /\ open_files = << >>
  /\ dirs = {}
  /\ files = [d \in Dir |-> {}]
  /\ meta = [d \in Dir |-> NoMeta]
  /\ db_list = {}
  /\ pc = [c \in Client |-> "idle"]
  /\ call = [c \in Client |-> NoCall]

-----------------------------------------------------------------------------
(* Steps of an operation.                                                  *)

At(c, label) == pc[c] = label

\* The thread goes on at label, in the same call.
Go(c, label) == pc' = [pc EXCEPT ![c] = label] /\ UNCHANGED call

Return(c) == pc' = [pc EXCEPT ![c] = "idle"] /\ call' = [call EXCEPT ![c] = NoCall]

\* An exception; what was taken has been given back.
Refused(c) == Return(c) /\ UNCHANGED <<posted, memory, cwd, open_files, disk>>

\* An exception; the semaphores in sems stay taken.
Broken(c, sems) == Return(c) /\ posted' = posted \ sems

\* Functions without some of their arguments, and with more; what is there stays.
Without(f, S) == [x \in DOMAIN f \ S |-> f[x]]
Over(f, g) == [x \in DOMAIN f \cup DOMAIN g |-> IF x \in DOMAIN f THEN f[x] ELSE g[x]]
With(f, x, v) == [y \in DOMAIN f \cup {x} |-> IF y \in DOMAIN f THEN f[y] ELSE v]

-----------------------------------------------------------------------------
(* PF_Manager, in the working directory.                                   *)

\* The directory may have been removed.
InDirectory == cwd \in Db => cwd \in dirs

\* create_file, open_file, close_file, destroy_file: nothing is thrown.
CanCreate(f) == InDirectory /\ f \notin files[cwd]
CanOpen(f) == f \in files[cwd] /\ f \notin DOMAIN open_files
CanClose(f) == f \in DOMAIN open_files

\* destroy_file comes right after close_file: the file is not open.
CanDestroy(f) == f \in files[cwd]

\* The directory after create_file and after destroy_file, if they can.
Created(f) == IF InDirectory THEN [files EXCEPT ![cwd] = @ \cup {f}] ELSE files
Destroyed(f) == [files EXCEPT ![cwd] = @ \ {f}]

-----------------------------------------------------------------------------
(* create_db and drop_db.                                                  *)

CreateDb(c) ==
  LET d == call[c].db IN
  /\ At(c, "create_db")
  /\ IF d \in dirs THEN Refused(c)
     ELSE /\ dirs' = dirs \cup {d}
          /\ Go(c, "write_meta")
          /\ UNCHANGED <<posted, memory, cwd, open_files, files, meta, db_list>>

WriteMeta(c) ==
  LET d == call[c].db IN
  /\ At(c, "write_meta")
  /\ meta' = [meta EXCEPT ![d] = IF d \in dirs THEN << >> ELSE @]
  /\ Go(c, "register_database")
  /\ UNCHANGED <<posted, memory, cwd, open_files, dirs, files, db_list>>

RegisterDatabase(c) ==
  /\ At(c, "register_database")
  /\ metadata_sem \in posted
  /\ db_list' = db_list \cup {call[c].db}
  /\ Return(c)
  /\ UNCHANGED <<posted, memory, cwd, open_files, dirs, files, meta>>

DropDb(c) ==
  /\ At(c, "drop_db")
  /\ IF call[c].db \notin dirs \/ call[c].db = current_db_name THEN Refused(c)
     ELSE Go(c, "remove_dir") /\ UNCHANGED <<posted, memory, cwd, open_files, disk>>

\* Slip: the database stays in the list.
RemoveDirOnly(c) ==
  LET d == call[c].db IN
  /\ At(c, "remove_dir")
  /\ dirs' = dirs \ {d}
  /\ files' = [files EXCEPT ![d] = {}]
  /\ meta' = [meta EXCEPT ![d] = NoMeta]
  /\ Return(c)
  /\ UNCHANGED <<posted, memory, cwd, open_files, db_list>>

RemoveDir(c) ==
  LET d == call[c].db IN
  /\ At(c, "remove_dir")
  /\ dirs' = dirs \ {d}
  /\ files' = [files EXCEPT ![d] = {}]
  /\ meta' = [meta EXCEPT ![d] = NoMeta]
  /\ Go(c, "unregister_database")
  /\ UNCHANGED <<posted, memory, cwd, open_files, db_list>>

UnregisterDatabase(c) ==
  /\ At(c, "unregister_database")
  /\ metadata_sem \in posted
  /\ db_list' = db_list \ {call[c].db}
  /\ Return(c)
  /\ UNCHANGED <<posted, memory, cwd, open_files, dirs, files, meta>>

-----------------------------------------------------------------------------
(* open_db and close_db.                                                   *)

OpenDb(c) ==
  /\ At(c, "open_db")
  /\ IF call[c].db \notin dirs THEN Refused(c)
     ELSE Go(c, "switch") /\ UNCHANGED <<posted, memory, cwd, open_files, disk>>

\* What operator>> may add to db.tabs.  If there is no db.meta the count of its
\* tables is not initialized: there may be a table that has no name.
Readable(m) == IF m = NoMeta THEN {<< >>, [t \in {NoTab} |-> << >>]} ELSE {m}

\* The middle of open_db: the directory is entered and db.meta read.  What was
\* in db.tabs stays there.
LoadMeta(c) ==
  LET d == call[c].db IN
  IF d \notin dirs THEN Refused(c)
  ELSE /\ cwd' = d
       /\ \E cat \in Readable(meta[d]) : tabs' = Over(cat, tabs)
       /\ current_db_name' = d
       /\ Go(c, "lock_file_handles")
       /\ UNCHANGED <<posted, fhs, ihs, open_files, disk>>

\* An open database is closed first, without the semaphore.
Switch(c) ==
  /\ At(c, "switch")
  /\ metadata_sem \in posted
  /\ IF current_db_name = NoDb THEN LoadMeta(c)
     ELSE Go(c, "close_db") /\ UNCHANGED <<posted, memory, cwd, open_files, disk>>

Load(c) ==
  /\ At(c, "load")
  /\ metadata_sem \in posted
  /\ LoadMeta(c)

LockFileHandles(c) ==
  /\ At(c, "lock_file_handles")
  /\ file_handles_sem \in posted
  /\ posted' = posted \ {file_handles_sem}
  /\ Go(c, "open_all")
  /\ UNCHANGED <<memory, cwd, open_files, disk>>

\* The indexes and the files of the tables in the catalog.
Indexed(cat) == {i \in (DOMAIN cat) \X Col : i[2] \in DOMAIN cat[i[1]] /\ cat[i[1]][i[2]]}
FilesOf(cat) == {RecordFileOf(t) : t \in DOMAIN cat} \cup Indexed(cat)

\* The end of open_db, with both semaphores.  If a file cannot be opened, those
\* before it have been.
OpenAll(c) ==
  /\ At(c, "open_all")
  /\ index_handles_sem \in posted
  /\ \E F \in SUBSET FilesOf(tabs) :
       /\ \A f \in F : CanOpen(f) /\ RecordFileOf(f[1]) \in F
       /\ fhs' = fhs \cup {t \in Tab : RecordFileOf(t) \in F}
       /\ ihs' = ihs \cup (F \cap (Tab \X Col))
       /\ open_files' = Over([f \in F |-> cwd], open_files)
       /\ IF F = FilesOf(tabs)
          THEN posted' = posted \cup {file_handles_sem} /\ Return(c)
          ELSE /\ \E f \in FilesOf(tabs) : ~CanOpen(f)
               /\ Broken(c, {index_handles_sem})
  /\ UNCHANGED <<tabs, current_db_name, cwd, disk>>

\* Slip: without an open database the exception is thrown before sem_post.
CloseDbKeepsSem(c) ==
  /\ At(c, "close_db")
  /\ metadata_sem \in posted
  /\ IF current_db_name = NoDb
     THEN Broken(c, {metadata_sem}) /\ UNCHANGED <<tabs, meta>>
     ELSE /\ meta' = [meta EXCEPT ![cwd] = IF InDirectory THEN tabs ELSE @]
          /\ tabs' = << >>
          /\ Go(c, "close_files")
          /\ UNCHANGED posted
  /\ UNCHANGED <<current_db_name, fhs, ihs, cwd, open_files, dirs, files, db_list>>

\* Slip: db.meta is not written.
CloseDbWithoutDump(c) ==
  /\ At(c, "close_db")
  /\ metadata_sem \in posted
  /\ IF current_db_name = NoDb THEN Refused(c)
     ELSE /\ tabs' = << >>
          /\ Go(c, "close_files")
          /\ UNCHANGED <<posted, current_db_name, fhs, ihs, cwd, open_files, disk>>

CloseDb(c) ==
  /\ At(c, "close_db")
  /\ metadata_sem \in posted
  /\ IF current_db_name = NoDb THEN Refused(c)
     ELSE /\ meta' = [meta EXCEPT ![cwd] = IF InDirectory THEN tabs ELSE @]
          /\ tabs' = << >>
          /\ Go(c, "close_files")
          /\ UNCHANGED <<posted, current_db_name, fhs, ihs, cwd, open_files, dirs, files, db_list>>

\* The handles of the files in F are closed, and emptied is the map they were
\* in; one that cannot be closed breaks the loop.
CloseHandles(c, F, sem, label) ==
  IF \A f \in F : CanClose(f)
  THEN open_files' = Without(open_files, F) /\ Go(c, label) /\ UNCHANGED posted
  ELSE /\ \E done \in SUBSET (F \cap DOMAIN open_files) : open_files' = Without(open_files, done)
       /\ Broken(c, {sem})

CloseFiles(c) ==
  LET F == {RecordFileOf(t) : t \in fhs} IN
  /\ At(c, "close_files")
  /\ file_handles_sem \in posted
  /\ CloseHandles(c, F, file_handles_sem, "close_indexes")
  /\ fhs' = IF \A f \in F : CanClose(f) THEN {} ELSE fhs
  /\ UNCHANGED <<tabs, current_db_name, ihs, cwd, disk>>

\* Slip: the index handles are not closed.
CloseIndexesForgets(c) ==
  /\ At(c, "close_indexes")
  /\ index_handles_sem \in posted
  /\ ihs' = {}
  /\ Go(c, "leave")
  /\ UNCHANGED <<posted, open_files, tabs, current_db_name, fhs, cwd, disk>>

CloseIndexes(c) ==
  /\ At(c, "close_indexes")
  /\ index_handles_sem \in posted
  /\ CloseHandles(c, ihs, index_handles_sem, "leave")
  /\ ihs' = IF \A f \in ihs : CanClose(f) THEN {} ELSE ihs
  /\ UNCHANGED <<tabs, current_db_name, fhs, cwd, disk>>

\* The end of close_db: chdir("../..").
Leave(c) ==
  /\ At(c, "leave")
  /\ metadata_sem \in posted
  /\ IF ~InDirectory THEN Refused(c)
     ELSE /\ cwd' = IF cwd \in Db THEN BaseDir ELSE Outside
          /\ current_db_name' = NoDb
          /\ IF call[c].op = "open_db" THEN Go(c, "load") ELSE Return(c)
          /\ UNCHANGED <<posted, tabs, fhs, ihs, open_files, disk>>

-----------------------------------------------------------------------------
(* create_table and drop_table.                                            *)

CreateTable(c) ==
  LET t == call[c].tab
      f == RecordFileOf(t)
  IN
  /\ At(c, "create_table")
  /\ metadata_sem \in posted
  /\ IF t \in DOMAIN tabs THEN Refused(c)
     ELSE /\ files' = IF t \in TooLong THEN files ELSE Created(f)
          /\ IF t \notin TooLong /\ CanCreate(f) /\ f \notin DOMAIN open_files
             THEN /\ tabs' = With(tabs, t, [k \in Col |-> FALSE])
                  /\ Go(c, "open_table")
                  /\ UNCHANGED posted
             ELSE Broken(c, {metadata_sem}) /\ UNCHANGED tabs
          /\ UNCHANGED <<current_db_name, fhs, ihs, cwd, open_files, dirs, meta, db_list>>

\* Slip: the last sem_post is missing.
OpenTableKeepsSem(c) ==
  LET t == call[c].tab
      f == RecordFileOf(t)
  IN
  /\ At(c, "open_table")
  /\ file_handles_sem \in posted
  /\ CanOpen(f)
  /\ fhs' = fhs \cup {t}
  /\ open_files' = With(open_files, f, cwd)
  /\ Broken(c, {file_handles_sem})
  /\ UNCHANGED <<tabs, current_db_name, ihs, cwd, disk>>

OpenTable(c) ==
  LET t == call[c].tab
      f == RecordFileOf(t)
  IN
  /\ At(c, "open_table")
  /\ file_handles_sem \in posted
  /\ IF CanOpen(f)
     THEN /\ fhs' = fhs \cup {t}
          /\ open_files' = With(open_files, f, cwd)
          /\ Return(c)
          /\ UNCHANGED posted
     ELSE Broken(c, {file_handles_sem}) /\ UNCHANGED <<fhs, open_files>>
  /\ UNCHANGED <<tabs, current_db_name, ihs, cwd, disk>>

\* Slip: the table leaves the catalog before its files go.
DropTableForgetsFirst(c) ==
  /\ At(c, "drop_table")
  /\ metadata_sem \in posted
  /\ tabs' = Without(tabs, {call[c].tab})
  /\ Go(c, "destroy_table")
  /\ UNCHANGED <<posted, current_db_name, fhs, ihs, cwd, open_files, disk>>

DropTable(c) ==
  /\ At(c, "drop_table")
  /\ metadata_sem \in posted
  /\ IF call[c].tab \in DOMAIN tabs
     THEN Go(c, "destroy_table") /\ UNCHANGED posted
     ELSE Broken(c, {metadata_sem})
  /\ UNCHANGED <<memory, cwd, open_files, disk>>

\* The record file goes; the loop over the columns begins.
DestroyTable(c) ==
  LET t == call[c].tab
      f == RecordFileOf(t)
  IN
  /\ At(c, "destroy_table")
  /\ file_handles_sem \in posted
  /\ IF t \in fhs /\ CanClose(f)
     THEN /\ open_files' = Without(open_files, {f})
          /\ files' = Destroyed(f)
          /\ IF CanDestroy(f)
             THEN /\ fhs' = fhs \ {t}
                  /\ pc' = [pc EXCEPT ![c] = "drop_indexes"]
                  /\ call' = [call EXCEPT ![c].todo = Col]
                  /\ UNCHANGED posted
             ELSE Broken(c, {file_handles_sem}) /\ UNCHANGED fhs
     ELSE Broken(c, {file_handles_sem}) /\ UNCHANGED <<fhs, open_files, files>>
  /\ UNCHANGED <<tabs, current_db_name, ihs, cwd, dirs, meta, db_list>>

\* One round of that loop: the index of column k, if there is one, is dropped.
DropNextIndex(c) ==
  LET t == call[c].tab IN
  /\ At(c, "drop_indexes")
  /\ \E k \in call[c].todo :
       /\ call' = [call EXCEPT ![c].todo = @ \ {k}, ![c].col = k]
       /\ pc' = [pc EXCEPT ![c] = IF <<t, k>> \in Indexed(tabs) THEN "drop_index" ELSE "drop_indexes"]
  /\ UNCHANGED <<posted, memory, cwd, open_files, disk>>

ForgetTable(c) ==
  /\ At(c, "drop_indexes")
  /\ call[c].todo = {}
  /\ metadata_sem \in posted
  /\ tabs' = Without(tabs, {call[c].tab})
  /\ Return(c)
  /\ UNCHANGED <<posted, current_db_name, fhs, ihs, cwd, open_files, disk>>

-----------------------------------------------------------------------------
(* create_index and drop_index.                                            *)

CreateIndex(c) ==
  LET t == call[c].tab
      k == call[c].col
      f == IndexFileOf(t, k)
      found == t \in DOMAIN tabs /\ k \in DOMAIN tabs[t]
  IN
  /\ At(c, "create_index")
  /\ metadata_sem \in posted
  /\ IF f \in Indexed(tabs) THEN Refused(c)
     ELSE /\ files' = IF found THEN Created(f) ELSE files
          /\ IF found /\ CanCreate(f) /\ f \notin DOMAIN open_files
             THEN /\ open_files' = With(open_files, f, cwd)
                  /\ Go(c, "find_table")
                  /\ UNCHANGED posted
             ELSE Broken(c, {metadata_sem}) /\ UNCHANGED open_files
          /\ UNCHANGED <<memory, cwd, dirs, meta, db_list>>

FindTable(c) ==
  /\ At(c, "find_table")
  /\ file_handles_sem \in posted
  /\ IF call[c].tab \in fhs
     THEN Go(c, "fill_index") /\ UNCHANGED posted
     ELSE Broken(c, {file_handles_sem})
  /\ UNCHANGED <<memory, cwd, open_files, disk>>

\* The records go into the index, through the handles and without a semaphore.
FillIndex(c) ==
  /\ At(c, "fill_index")
  /\ Go(c, "store_index")
  /\ UNCHANGED <<posted, memory, cwd, open_files, disk>>

StoreIndex(c) ==
  /\ At(c, "store_index")
  /\ index_handles_sem \in posted
  /\ ihs' = ihs \cup {IndexFileOf(call[c].tab, call[c].col)}
  /\ Go(c, "mark_index")
  /\ UNCHANGED <<posted, tabs, current_db_name, fhs, cwd, open_files, disk>>

\* col->index is set, if the table of the iterator is still there.
Mark(c, b) ==
  LET t == call[c].tab
      k == call[c].col
  IN tabs' = IF t \in DOMAIN tabs /\ k \in DOMAIN tabs[t]
             THEN [tabs EXCEPT ![t][k] = b] ELSE tabs

MarkIndex(c) ==
  /\ At(c, "mark_index")
  /\ metadata_sem \in posted
  /\ Mark(c, TRUE)
  /\ Return(c)
  /\ UNCHANGED <<posted, current_db_name, fhs, ihs, cwd, open_files, disk>>

\* db.tabs[] makes an empty table of a name that is not known; it has no column.
DropIndex(c) ==
  LET t == call[c].tab
      k == call[c].col
      known == t \in DOMAIN tabs
  IN
  /\ At(c, "drop_index")
  /\ metadata_sem \in posted
  /\ IF known /\ k \in DOMAIN tabs[t] /\ ~tabs[t][k] THEN Refused(c)
     ELSE /\ tabs' = IF known THEN tabs ELSE With(tabs, t, << >>)
          /\ IF <<t, k>> \in Indexed(tabs)
             THEN Go(c, "destroy_index") /\ UNCHANGED posted
             ELSE Broken(c, {metadata_sem})
          /\ UNCHANGED <<current_db_name, fhs, ihs, cwd, open_files, disk>>

DestroyIndex(c) ==
  LET f == IndexFileOf(call[c].tab, call[c].col) IN
  /\ At(c, "destroy_index")
  /\ index_handles_sem \in posted
  /\ IF f \in ihs /\ CanClose(f)
     THEN /\ open_files' = Without(open_files, {f})
          /\ files' = Destroyed(f)
          /\ IF CanDestroy(f)
             THEN ihs' = ihs \ {f} /\ Go(c, "unmark_index") /\ UNCHANGED posted
             ELSE Broken(c, {index_handles_sem}) /\ UNCHANGED ihs
     ELSE Broken(c, {index_handles_sem}) /\ UNCHANGED <<ihs, open_files, files>>
  /\ UNCHANGED <<tabs, current_db_name, fhs, cwd, dirs, meta, db_list>>

\* The end of drop_index, which drop_table calls too.
UnmarkIndex(c) ==
  /\ At(c, "unmark_index")
  /\ metadata_sem \in posted
  /\ Mark(c, FALSE)
  /\ IF call[c].op = "drop_table" THEN Go(c, "drop_indexes") ELSE Return(c)
  /\ UNCHANGED <<posted, current_db_name, fhs, ihs, cwd, open_files, disk>>

-----------------------------------------------------------------------------
(* What a client can ask for.                                              *)

DbOps == {"create_db", "drop_db", "open_db"}
TableOps == {"create_table", "drop_table"}
IndexOps == {"create_index", "drop_index"}

Request(op, d, t, k) == [op |-> op, db |-> d, tab |-> t, col |-> k, todo |-> {}]

Requests ==
  {Request(op, d, NoTab, NoCol) : op \in DbOps, d \in Db}
    \cup {Request("close_db", NoDb, NoTab, NoCol)}
    \cup {Request(op, NoDb, t, NoCol) : op \in TableOps, t \in Tab}
    \cup {Request(op, NoDb, t, k) : op \in IndexOps, t \in Tab, k \in Col \cup {NoCol}}

Begin(c, r) ==
  /\ At(c, "idle")
  /\ pc' = [pc EXCEPT ![c] = r.op]
  /\ call' = [call EXCEPT ![c] = r]
  /\ UNCHANGED <<posted, memory, cwd, open_files, disk>>

Step(c) ==
  \/ CreateDb(c) \/ WriteMeta(c) \/ RegisterDatabase(c)
  \/ DropDb(c) \/ RemoveDir(c) \/ UnregisterDatabase(c)
  \/ OpenDb(c) \/ Switch(c) \/ Load(c) \/ LockFileHandles(c) \/ OpenAll(c)
  \/ CloseDb(c) \/ CloseFiles(c) \/ CloseIndexes(c) \/ Leave(c)
  \/ CreateTable(c) \/ OpenTable(c)
  \/ DropTable(c) \/ DestroyTable(c) \/ DropNextIndex(c) \/ ForgetTable(c)
  \/ CreateIndex(c) \/ FindTable(c) \/ FillIndex(c) \/ StoreIndex(c) \/ MarkIndex(c)
  \/ DropIndex(c) \/ DestroyIndex(c) \/ UnmarkIndex(c)

Next == \E c \in Client : Step(c) \/ \E r \in Requests : Begin(c, r)

Spec == Init /\ [][Next]_vars

\* A thread that can run on does; nothing makes a client ask for anything.
FairSpec == Spec /\ \A c \in Client : WF_vars(Step(c))
=============================================================================
