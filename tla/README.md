# Verification of RedbaseDB

TLA+ modules of the RedbaseDB engine (the code under `src/src/database_engine/`),
TLC configurations that check them on small instances, and TLAPS proofs about them
for all instances. Paths below are relative to `src/src/database_engine/` unless
they say otherwise.

## 1. The system

RedbaseDB is a relational engine in C++17: a TCP server with a thread per client
over layers that call downwards only. Its default build is Release, so every
`assert` is compiled out.

    client threads (src/src/db_server.cpp)
      Parser  ->  Interpreter  ->  QL (statements, plan nodes)
                              \->  SM (catalog, handles)
                                     |           |
                                  RM (records)  NDX (B+ tree)
                                     \           /
                                  PF (page files, buffer pool)

Five named semaphores exist (`concurrency.cpp`): `metadata_sem`,
`file_handles_sem` and `index_handles_sem` in SM, `fd_map_sem` in PF_Manager,
`cache_sem` in PF_Pager. Wherever two are held at once they are taken in this
order. QL, RM and NDX take none.

| component | state | operations | what is hard | what makes it correct |
|---|---|---|---|---|
| PF_Pager | frames, busy and free lists, map, dirty bits | get_page, flush_page, flush_file, flush_all | pointers are never pinned; the pool at its limit; errors with the semaphore held | a page reads as last written, whatever is evicted |
| PF_Manager | path ↔ descriptor maps | create, destroy, open, close | the gap between flush and close; reused descriptors | no cached page outlives its descriptor |
| RM_FileHandle, RM_Manager | header in the handle, page headers, bitmaps, slots | insert, delete, update, get; open, close | the free list over long sequences; the header's life between open and close | no insert lands on a live record; no page with room is lost |
| RM_Iterator | a place | begin, next | everything changes between two rounds | misses no record that stays, returns none twice |
| IndexHandle, IndexIterator | header, nodes, leaf ring, free list | insert_entry, delete_entry, lower_bound, upper_bound, scan | rebalancing over several levels; entries with equal keys | the entries are those put in; tree, ring and searches agree |
| Page and node layout | — | create_file, create_index arithmetic | rounding at every size | everything fits in a page |
| Key comparison, DateTime | — | compare_keys | timestamps that collide or overflow | a total order that agrees with equality |
| SM_Manager | catalog, `fhs`, `ihs`, current database, db.meta | create/open/close/drop of databases, tables, indexes | locks given back in mid-operation; exceptions with one held | catalog, handles and files agree |
| QL_Manager | none of its own | insert, delete, update, select | no locks; several files per statement | record file and indexes agree |
| Plan nodes | a cursor per table | begin, next, feed | index ranges, join inner loops | exactly the rows that satisfy the conditions |
| Parser, Server | global parse tree, threads, signal handler | parse_sql, client thread, cleanup | one tree and one lexer for all threads; clients that vanish; stop, kill and restart | every request is answered, by its own answer; each client runs its own statement |
| Client | the request it waits for | one request, one answer in two parts | an answer that is cut off | it stays in step with its thread |

`PROJECT.json` lists every component with its files and its status, and under
`hazards` what is hard to test in this code, at its line, with the properties
that watch it.

## 2. The modules

### Buffer pool: `PageStore`, `Pager`, `MCPager`, `Pager_proofs`

`Pager` models `page_file_handler/pf_pager.cpp`.

| TLA+ | code |
|---|---|
| `busy_pages`, `free_pages`, `busy_map` | `_busy_pages`, `_free_pages`, `_busy_map` |
| `page_id`, `is_dirty`, `buf` | the fields of `Page`, by frame |
| `disk` | the pages in the files (read_page, write_page) |
| `flushing`, `it_page` | `cache_sem` held by flush_file, and for which file; its iterator, an element of the list or the end |
| `held`, `ptr`, `since` | a `Page*` in a caller: the page asked for, the frame given, the other pages asked for since (history) |
| `GetPage` = `Hit`, `MissFree`, `MissFull`; `FetchPage`, `CreatePage` | get_page<EXISTS> and its two callers |
| `Flush`, `FlushPage`, `FlushFileBegin/Step/End`, `FlushAll` | flush_page, flush_file, flush_all |
| `WritePage`, `Release` | a caller writes through its pointer and marks it dirty; lets it go |

What the code does under one hold of `cache_sem` is one step, but for the loop of
flush_file, of which every round is a step: the iterator goes on to the successor
(`After`), then the element it was at is flushed if it is of the file, and so
spliced out of the list. A pointer is *fresh* while fewer other pages
have been asked for than the pool has frames. Callers are assumed to use only
fresh pointers and not to close a file they hold pages of. The first is what
65536 frames buy: an operation of RM holds one pointer, one of NDX a few per
level of the tree. The second is one of the things clients have to see to
themselves (`CatalogUse` below). There are no I/O errors in `Pager`, and
header pages, which read_page and write_page move past the cache, are not in it.

`PageStore` is what the layers above want: a set of pages, each reading as last
written. `Pager!Implements` is the refinement: the content of a page is its
buffer when it is cached and its place on disk when not. `FlushEmpties` is about
flush_file, which takes elements out of the list it runs along: its iterator never
leaves that list, no page of another file is thrown out, and when the iterator
is at the end, which is all the loop asks for, no page of the file is left.

### Record files: `RecordStore`, `RecordFile`

`RecordFile` models `record_manager/rm_file_handle.cpp` and the opening and
closing in `rm_manager.cpp`, over the pages that `PageStore` promises.
`num_pages`, `first_free` are the header in the handle, `disk_hdr` the one in
the file; `next_free`, `num_records`, `bitmap`, `slots` are the pages. The
header in the handle reaches the file only in `CloseFile`, so a field updated
in one place only would show after re-opening. `InsertOnNewPage` and
`InsertOnFreePage` are the two ways create_page goes inside insert_record.

`RecordStore` is the promise: an insert takes a place no live record has, and a
record changes only by its own update or delete.

### Record scan: `RecordScan`, `MCRecordFile`, and the proofs of both, `RecordScan_proofs`

`RecordScan` extends `RecordFile` by `rm_iterator.cpp`. The iterator keeps a
place (`rid`) and reads a page in every round of the loop of next(), so a round
is a step, and any operation on the file may come between two of them.
`seen` and `stable` are history: what the scan returned, and which records have
been in the file ever since it began. The file is not closed under a scan.

### Layout: `PageLayout`, `PageLayout_proofs`

The arithmetic of `RM_Manager::create_file` (records per page, bitmap size) and
`IndexManager::create_index` (order, offset of the child pointers), with the
single variable `size` running over every accepted record size and key length.
`RecordPageFits` and `NodeFits` are what the comments there promise, together with
the room that `RecordFile` (one slot at least) and `BTree` (an order above two)
assume.

### Index: `IndexStore`, `BTree`, `MCBTree`, `BTreeRebalance_proofs`, `BTree_proofs`

`BTree` models `index_handler/ndx_handler.cpp`, `ndx_iterator.cpp` and the
initial file of `ndx_manager.cpp`.

| TLA+ | code |
|---|---|
| `hdr` | the changing fields of `IndexFileHeader` (first_leaf never changes) |
| `node` | each page: its `IndexPageHeader`, keys and rids |
| `work` | where the loop of insert_entry or delete_entry has come to |
| `Search`, `LowerBound`, `UpperBound`, `LeafEnd` | lower_bound, upper_bound, leaf_end |
| `NextID`, `Scan` | IndexIterator |
| `InsertEntry`, `GrowRoot`, `Split` | insert_entry: the leaf, then a round of the loop with or without a new root |
| `DeleteEntry`, `ShrinkRoot`, `BorrowLeft/Right`, `MergeLeft/Right` | delete_entry: the leaf, then the alternatives of a round |
| `MaintainParent`, `Adopted`, `WithoutLeaf`, `Released`, `HeaderAfterNew` | maintain_parent, maintain_child, erase_leaf, release_node, create_node |

The recursion of maintain_parent is written as the path it goes up (`PathUp`) and
the keys every page of the path has once the one below it is done (`told`). Keys
are integers, and there are finitely many entries: compare_keys is taken to be a
total order, which it is for INT, FLOAT without NaN and STRING columns, not for
every DATETIME value (section 6). Two records may have the same key; one record is
never given two entries, which the callers in QL and SM ensure. What a released
page holds besides its link is dropped, since its next use overwrites it.

`IndexStore` is the promise: the entries are those inserted and not yet deleted.
An operation takes effect in its first step, on the leaf; everything the loops
do after that must leave the set of entries as it is.

### Catalog: `CatalogStore`, `Catalog`, `CatalogUse`, `Catalog_proofs`

`Catalog` models `system_management/sm_manager.cpp` with the file table of
`page_file_handler/pf_manager.cpp` and the client threads of `db_server.cpp`.

| TLA+ | code |
|---|---|
| `posted` | the values of `metadata_sem`, `file_handles_sem`, `index_handles_sem` |
| `tabs`, `current_db_name`, `fhs`, `ihs` | the static members of SM_Manager |
| `cwd`, `open_files` | the working directory; `_path2fd` with the directory a file is in |
| `dirs`, `files`, `meta`, `db_list` | the directories, the files and the db.meta in them, databases.list |
| `pc`, `call` | where a client's thread is in the operation it runs |
| `CreateDb`, `WriteMeta`, `RegisterDatabase`; `DropDb`, `RemoveDir`, `UnregisterDatabase` | create_db, drop_db |
| `OpenDb`, `Switch`, `Load`, `LockFileHandles`, `OpenAll` | open_db, with close_db in the middle |
| `CloseDb`, `CloseFiles`, `CloseIndexes`, `Leave` | close_db |
| `CreateTable`, `OpenTable`; `DropTable`, `DestroyTable`, `DropNextIndex`, `ForgetTable` | create_table, drop_table |
| `CreateIndex`, `FindTable`, `FillIndex`, `StoreIndex`, `MarkIndex`; `DropIndex`, `DestroyIndex`, `UnmarkIndex` | create_index, drop_index |

An operation is cut where it gives back a semaphore. A step that throws with a
semaphore taken is `Broken`: the client gets its error, and `posted` has lost the
semaphore for good. One whose code posts before it throws is `Refused`. A table's
columns are `Col`, with the one bit the code changes; what goes into an index
when it is filled belongs to `RecordScan` and `BTree`. If db.meta is missing,
operator>> reads an uninitialized count; the model has both the empty result and
a nameless table.

`CatalogStore` is the promise: every database keeps its tables and indexes, and
only those of the selected one change. While close_db runs the catalog of the
open database is in db.meta (`Content`).

`CatalogUse` says what the code does not enforce and clients have to agree on
(`Agreed`): databases are opened and closed by one client with no other at work;
no two clients work on one table or one database at a time; a database is open
before tables are named; tables and columns that are named exist. Without the
last two a semaphore is lost (`catalog_refused`) or a table strays into another
database (`catalog_isolation`); without the others, references and handles
dangle, and a second close_db writes an empty catalog over the first one's.
Those interleavings are steps of `Catalog!Spec`, and no document of the
repository says what they should do.

### Statements: `TableStore`, `Statements`, `MCStatements`, `Statements_proofs`

`Statements` models `query_language/ql_manager.cpp` and `ql_node.cpp`, over record
files and indexes that keep what `RecordStore` and `IndexStore` promise.

| TLA+ | code |
|---|---|
| `recs`, `idx` | the files behind `SM_Manager::fhs` and `ihs`: rows by record id, entries of value and record id |
| `stmt`, `pc` | the call in progress and the loop it is in |
| `cursor` | the `_scan` of each `QlNodeTable` of the plan that has been begun: what it has still to come to |
| `out` | the combinations of rows the plan has come to (the result, or `rids`) |
| `todo`, `rid`, `left` | the rest of `rids`, the one being changed, the columns whose index it has still to leave or to enter |
| `CheckColumn`, `CheckWhereClause`, `Refused` | check_column, check_where_clause, and what the four calls throw for before they do anything: an unknown table, a number of values that is not that of the columns, columns and types |
| `PopConds`, `OnTable`, `Fed`, `FedConds` | pop_conds (by the places of the conditions in WHERE), the constructor of QlNodeTable, feed and feed_right |
| `Served`, `Between`, `ToVisit` | QlNodeTable::begin: the conditions an index can serve, of which the first decides, its range, and what the scan runs over |
| `Begun`, `Scans` | the rows that pass eval_conds, and the order the scan comes to them in: of the keys and, for equal ones, of the record ids |
| `BeginTable`, `TakeRow`, `BackUp`, `EndScan` | the nested loops of QlNodeJoin, and the loop over the plan |
| `Strays`, `ColumnMissing`, `ColumnNotFound` | conditions on a table that is not in FROM; get_col of QlNodeTable throws for the first one that a DELETE or an UPDATE looks at |
| `PutRecord`, `PutEntry`; `NextRecord`, `DropEntry`, `WriteRecord`, `EraseRecord` | the calls of insert_into, update_set and delete_from |

A plan of several tables is a chain of `QlNodeJoin`s; its begin and next are the
loops that a stack of cursors runs (`BackUp` when the innermost one is at its
end). Each table is begun anew for the rows the ones before it stand at, with
their values fed into its conditions, so each time another index may serve.
A scan does not change while a statement looks for rows, so the rows it will
come to are worked out when it begins.

A statement is what the parser can produce: FROM names no table twice, and its
literals are values of the column's type or `Misfit`, which stands for all that are
not. Table names are any, and an insert has any number of values.
`Indexed` are columns of the tables, `Room` the record ids a file may use.

`TableStore` is the promise: a statement takes effect as a whole, on exactly the
rows that satisfy its conditions, or it is refused and changes nothing. Its
meaning of names and conditions is written down without the steps of the code.
`Implements` is the refinement: a statement takes effect for the abstract table
when it has found all its rows (`Settled` is the table as it will be when the rest
of the changes are made), which is right only if what it changes has no
influence on what it has still to do. `EntriesExact` says which entries are
missing in the middle of a statement, and that none is at its end.

### Server and client: `Server`, `Server_proofs`

`Server` models `src/src/db_server.cpp`, `src/src/db_client.cpp`,
`parser/parser_defs.h` and the life of the semaphores of `concurrency.cpp`.

| TLA+ | code |
|---|---|
| `up`, `down` | the two directions of a connection; a message is one send_all |
| `at`, `asked` | where the client program is, and the text it waits for |
| `thread`, `request`, `tree`, `response` | the client thread and its variables |
| `parse_tree`, `raced` | `ast::parse_tree`; the threads that have met another one in the lexer |
| `server`, `sem` | the process; the named semaphores, which outlive it |
| `Connect`, `Ask`, `Exit`, `ReadHeader`, `ReadBody`, `Fail`; `Kill` | the client's main; somebody stops it |
| `Accept`, `Receive`, `EndThread` | the accept loop; the head of client_thread_handler |
| `BeginParse`, `Parse`, `ReturnTree` | parse_sql, cut where another thread may come in |
| `Interp`, `InterpThrows`, `SendHeader`, `SendBody` | interp_sql, the answer or the exception, the two writes |
| `Cleanup`, `Crash`, `Sigpipe`, `Start` | the signal handler; a crash in the parser; a write to a client that is gone; a new server |

Two threads in parse_sql at a time read and free one lexer buffer. What comes
out is undefined, so it is any tree, or the end of the process. What a statement
does to the database is left out, except that it may hold one of the named
semaphores: a server that is killed then leaves it taken, and a statement of the
next one waits for it. The first write to a client that has closed its end is
lost and the second raises SIGPIPE, for which there is no handler: the server
ends, for all its clients. The model has it that way.

`InStep` relates the four ends of a request: whenever a client waits, what it
will read next is the part it waits for of the answer to what it asked, or the
request is still on its way, or its thread is at work on that text.

## 3. The runs

| run | configuration | shows |
|---|---|---|
| `pager` | 3 frames, 2 files × 2 pages, 2 holders, 2 values | the lists partition the frames; the map is exact; clean pages are on disk; fresh pointers are good (`HandleStable`), and why (`RecencyBound`); the pool implements `PageStore`; flush_file leaves no page of its file (`FlushEmpties`) |
| `record_file` | 3 pages of 2 slots, 2 values, without scans; 2 pages, 1 value, with scans | counts, free list and bitmaps agree over every sequence of operations, with re-opening; the file implements `RecordStore`; a scan misses no record that stays and returns none twice, with any operation between two rounds |
| `page_layout` | PAGE_SIZE 4096, sizes 1–512 (the program's own) | records, bitmap and nodes fit; there is always room for a record and a split |
| `catalog` | 2 clients, 2 databases, 2 tables, 1 column | with the agreement: catalog, handles, open files and directories match for every table nobody is working on (`HandlesMatch`); references kept across a sem_post still lead somewhere (`RefsLive`); databases.list is exact; the catalog implements `CatalogStore`; every statement ends |
| `btree` | orders 3 and 4, 7 entries from the empty index, and 8–14 entries loaded in three orders, then any 3 operations | pages are neither lost nor given out twice; keys of inner nodes and parents are exact, the ring follows the tree, the tree is balanced, bounds and scans are exact; the tree implements `IndexStore`; every loop ends |
| `statements` | three tables of 2, 2 and 1 rows, two indexes, values 0 and 1, 104 statements | indexes and records agree (`EntriesExact`); a plan comes to exactly the rows it should (`ResultExact`); the statements implement `TableStore`, and end |
| `server` | 2 clients, 5 texts | client and thread stay in step (`InStep`); whoever waits is answered or finds the connection closed, and no thread outlives its client (`Answered`) |
| `catalog_refused` | 1 client, any statement, one table with records too long for a page file | **violated**: after a refused DDL statement the next one waits for ever |
| `catalog_isolation` | 1 client, any statement | **violated**: a table made with no database open gets into the one opened next |
| `query_from` | `statements` and one query more | **violated**: a condition on a table that is not in FROM is given to no node of the plan |
| `btree_children` | as `btree` | **violated**: an inner node has a key for every child, where the docs promise one child more than keys |
| `server_parse` | 1 client, 5 texts | **violated**: a text with a syntax error makes the statement before it run again |

Why the bounds are enough:

- *pager*: there are 4 pages for 3 frames, so every kind of miss occurs, clean
  and dirty victims too; with two holders one can take pages while the other
  keeps a pointer, up to and past its being fresh. A file has two pages, so
  flush_file passes over pages of the other one between them.
- *record_file*: a page with 2 slots is empty, partly used and full; with 3 pages
  the free list has a head, a middle and an end, in every order. `MaxPages` stops
  the file from growing; it is the only bound in a guard. `MCRecordFile` chooses
  in the initial state whether there are scans, which need two pages, for a scan
  to go from one to the next and for the second to come while it is on the first,
  and do not look at values.
- *catalog*: two clients meet in every pair of steps the agreement allows; of two
  tables one can be dropped or indexed while the other is; of two databases one
  can be created or dropped while the other is in use. No counter is bounded: the
  state space is finite. One client is enough for the two violated runs, so
  neither is a matter of concurrency.
- *btree*: odd and even orders differ in `(Order + 1) \div 2`. `MCBTree` therefore
  chooses the order in the initial state, together with a load: none, and then
  every sequence of operations on few entries follows, or a tree of three
  levels, so that splits, loans and merges of inner nodes occur within `Ops`
  operations (borrowing and merging to both sides, splits and the loss of the
  root were each seen to happen on an inner node). `MaxPage` is large enough
  that no operation stops for want of a page: deadlock is checked.
- *statements*: a table with two indexes, one with none, and one whose only use is
  to be the third of a join. Two rows and two values give equal and different keys
  and every outcome of a comparison; the conditions (in `MCStatements`) have every
  operator, both sides turned around, two conditions of which an index serves the
  first, the second or both, names with and without a table, every reason to
  refuse, and DELETE and UPDATE with a condition on a table they are not about,
  looked at first, after one that an index serves, or after one that no row
  passes. `Room` bounds the rows: an insert waits for room.
- *server*: two clients are enough for a race in the parser and for one of them to
  bring down the other's server. The texts are one of each kind: an answer with a
  text, an answer without, a DDL statement, one with a syntax error, and one for
  which there is no tree. Messages in a queue are at most two (`TypeOK`).

*Deadlock* is checked in every run except `page_layout`, which counts up to 512
and stops; the two violated runs of the catalog, where a client that waits for
ever is what `catalog_refused` shows; and the two of `Server`, where with all
clients gone nothing need happen any more.

*Findings*. `catalog_refused`: `create_table`, `drop_table`, `create_index` and
`drop_index` all have a path that throws with `metadata_sem` taken
(sm_manager.cpp:319, 332, 356, 357, 397), while `query_language/ql_test.cpp:52-53`
expects the statement after such a refusal to be answered. `catalog_isolation`:
`operator>>` adds to `db.tabs` what it reads, and `create_table` does not ask for
an open database, while `system_management/README.md:449` calls databases
completely isolated. `query_from`: check_column looks a qualified column up in the
whole catalog, so `SELECT * FROM b WHERE a.x = 0` passes the checks and then fails
`assert(conds.empty())` (ql_manager.cpp:256); where asserts are compiled out the
condition is ignored. (DELETE and UPDATE, which hand all conditions to one
QlNodeTable, throw ColumnNotFoundError in the scan instead, or nothing if no row
gets as far; either way nothing changes.) `btree_children`: insert_entry gives a
new root one key with its one child (ndx_handler.cpp:384-385), and a split leaves
as many keys as children (413-416, 429-431), while `index_handler/ndx_defs.h:25`
and `:32`, the comment at ndx_manager.cpp:25 and `index_handler/README.md:57-58`
and `:147-156` have inner nodes with one child more than keys; the other half of
the same README, that `key[i]` is the greatest key of `child[i]` (`:60`, `:168`),
is what the code does (`ParentsKnow`), for the last child too. `server_parse`: the
grammar sets the global tree only when it accepts a text and parse_sql does not
look at the result of yyparse, while `parser/PARSE_SQL_USAGE.md:129-130` promises
nullptr or an exception. Divergences without a run:
`system_management/README.md:423` says that db.meta is written on every schema
change, and only create_db and close_db write it; the DELETE of
`query_language/README.md` deletes record and entries row by row, the code all
entries first; the server announces at most `MAX_THREADS` clients
(db_server.cpp:439) and limits only a list of thread ids.

*Fairness* is used in five runs. `catalog`, `catalog_refused`: a thread that can
run on does (`WF` of its steps); every section under a semaphore is finite, and no
client is made to ask for anything. `btree`: the loop of an operation runs inside
one call, so `Rebalance` is weakly fair; nothing makes anybody call. `statements`:
likewise `Step`. `server`: each thread and each client program runs on
(`ThreadStep`, `ClientStep`), nobody has to ask, stop, kill or start anything, and
a statement that has its semaphores ends, which is what `catalog` and `statements`
show under their assumptions. `FairSpec` of `Server` excludes two cases by
`Agreed`, because nothing in the code would post a semaphore left taken: a
statement that throws between a sem_wait and its sem_post (`InterpThrows` has it,
as sm_manager.cpp:319, 332, 356, 357, 364 and 397 do; what comes of it is
`catalog_refused`), and a server that was killed with a semaphore taken and is
started with it. So `Answered` is for users who name what exists and an operator
who clears the semaphores after a kill; `TypeOK` and `InStep` are proved without
`Agreed`.

Every property has a *mutant* in `PROJECT.json`: a definition changed as a
plausible slip would change it (the operators marked `Slip:` in the modules),
under which TLC finds the property violated.

## 4. What is proved

The proofs hold for every value of the constants that satisfies the named
assumptions of the modules: any number of frames (finite, at least one), files,
pages, holders, values; any number of pages and slots per page.

- `Pager_proofs`. The inductive invariant `IInv` has two conjuncts. The first,
  `PoolSafe`, has four parts. `PoolOK`: types, the partition (with the lengths of
  the lists adding up to the number of frames), the exact map, clean pages on
  disk. `HandleTypes`: `since` is finite. `HandlesSafe`: a fresh pointer's frame
  still holds its page *and every frame ahead of it in the busy list holds a page
  asked for since*. `FlushedUnused`: nobody holds pages of the file being flushed.
  The third part is why `HandleStable` is not inductive alone: to see that the
  victim of a full pool is not a fresh pointer's frame (`LastIsStale`) one has to
  count: were it the last of the list, the frames ahead would inject into `since`,
  which has fewer members than that. From `IInv` follow `TypeCorrect`,
  `FramesKept`, `MapCorrect`, `CleanPagesSaved`, `PointersStable`, `RecencyKept`
  and the refinement `ImplementsStore`. The second conjunct, `WalkOK`, is for
  flush_file: its iterator is on the busy list or at its end, and what is behind
  it on that list is of other files. A splice keeps it because the successor has
  been taken before, is another element and so still on the list; at the end
  everything is behind the iterator, and as every cached page is on the list, none
  of the file is left (`FlushLeavesNothing`). That the loop gets to the end is
  liveness and not stated.
- `RecordScan_proofs`, the record file. `IInv` joins the types,
  `CountMatchesBitmap`, the free list (exactly the pages with room; successors are
  distinct and nothing points back to the head) and what the header on disk says
  while the file is closed. From it: `TypeCorrect`, `CountsCorrect`,
  `InsertFindsSlot`, `NoPageLost`, `ImplementsStore`. Reachability along the list
  is stated by closed sets (`OnFreeList`), without recursion.
- `RecordScan_proofs`, the scan. `ScanInv` adds to `IInv` that everything seen
  lies behind the iterator and that stable records are live: `ScanTypeCorrect`,
  `ScanMissesNothing`, `ScanReturnsOnce`.
- `PageLayout_proofs`. `RecordLayoutCorrect` and `NodeLayoutCorrect`: everything
  fits at every accepted size, from the bounds of integer division (`Quotient`).
- `BTreeRebalance_proofs` and `BTree_proofs`, for any orders above two, any number
  of pages and any finite set of entries. The invariants that the run checks are
  about the whole tree (what is under the root, the ring from end to end), by
  recursive functions that no step preserves in a visible way. `IInv` is local: it
  says there are a set `T` of pages, a level `lev` and a next node of the same
  level `nxt` for each, and an order `fl` of the free pages, and then relates a
  node to its parent, its children and the next node only (`Links`, `RingOK`,
  `KeysOK`, `Filled`, `Ascending`, `EntriesOK`). `Filled` says which node an
  operation may have left too full or too empty. `BTreeRebalance_proofs` shows
  that every round of the loops keeps it: what maintain_parent does follows from
  the path being a chain (`PathUpIs`, `MaintainParentIs`), and that a recursive
  function over the tree or the ring has the values its equation says, from
  `Recursion`, which needs a rank that falls with every call. `BTree_proofs` shows
  the same of `Init`, InsertEntry and DeleteEntry, for which the searches have to
  be right: a set of keys closed downwards cuts every level at one place, in the
  inner nodes too (`CutAt`, `SearchIs`), and a scan between two such places comes
  to every entry between them (`ScanIs`). From `Invariance` follow `TypeCorrect`,
  `AllPagesAccounted`, `ParentsAlwaysKnow`, `AlwaysBalanced`,
  `RingAlwaysFollowsTree` and `BoundsAlwaysExact`: the pages under the root are
  `T` (`TreeIs`), the free list is `fl` (`FreeIs`), the ring is the leaves along
  `nxt` from the leftmost (`LeafOrder`), the leaves under a node are a block of it
  (`LeafBlocks`), the lists of all keys and of all records are cut into those of
  the leaves (`StartsAre`, `Place`), and a scan is long enough because no entry is
  there twice (`EntriesFit`). `ImplementsStore` is the refinement of `IndexStore`.
  `HeldIs` makes of the entries, as the refinement mapping reads them off the ring
  (`HeldExact`), those that some leaf has (`Has`); a round of the loops moves
  entries between leaves and keeps that set, an insert gains its own entry and no
  other, and a delete loses the one the search came to, which is the one asked for
  also among entries of the same key.

- `Server_proofs`. `IInv` says for one connection at a time what its two ends may
  look like: `ServerEnd` (what is on its way to a thread at each place, and which
  responses it may hold) and `ClientEnd` (what a client at each place may have to
  read, given where its thread is). `InStep` alone is not inductive: that the
  second message of an answer meets a client that waits for a text needs to know
  the first one, and its length, while they are still on their way. A lemma for
  each operation says what it makes of the two ends, without the rest of the
  state; `OneConn` lifts it to all connections. `TypeCorrect` and `StaysInStep`
  follow, for any number of clients and any texts, with the server ended and
  started again at any step. They are about `Spec`, which allows more steps than
  `FairSpec`.
- `Catalog_proofs`, about `CatalogUse!Spec`, that is under the agreement of the
  clients. `HandlesMatch` speaks of tables nobody works on and says nothing of what
  an operation meets when it goes on after a sem_post; the invariant has to say
  it. Its parts: which calls there are, that they keep to the agreement, and that
  a semaphore is taken exactly while a thread is at one of the steps that hold it;
  what directories, files and db.meta hold; what a database that is being opened
  or closed looks like at each step (`MovingOK`); and what the table of a call
  looks like at each step of create and drop (`TableAt`). A step of one client
  has then to leave every other client's table and database alone, which is where
  the agreement is used. From it: `TypeCorrect`, `HandlesMatchCatalog`,
  `ReferencesLive`, `ListMatchesDirectories`, and `ImplementsStore`. The constants
  are unconstrained but for names that must differ (a catalog is not the absent
  db.meta, no database is called like the directories around it).
- `Statements_proofs`. `Files` says what files, indexes and the rest of the work
  are between any two calls of a statement, `EntriesExact` among it; it needs
  nothing else and holds of every step. `ScanOK` is about the scans: cursors and
  `out` have nothing twice; the rows a cursor stands at, and those it has still to
  come to, pass the conditions of their table; a combination of rows satisfies the
  whole WHERE if and only if it is in `out` or still ahead of the cursors, and
  never both. For this every condition must belong to exactly one table, the last
  it is about (`GivenToLast`, `AllGiven`), and mean there, turned around and fed,
  what it means in the WHERE (`FedMeans`), and the range of an index must hold
  every row that passes (`BegunIs`). `Updated` says that a row already changed is
  a fixed point of the SET clauses, whence an update that is half done is, as
  `Settled` has it, the update of the abstract table. Theorems: `FilesHold`,
  `TypeCorrect`, `EntriesMatchRecords`, and, under `[]CondsPopped`,
  `ResultIsAnswer` and `ImplementsStore`. The hypothesis is the assertion of
  ql_manager.cpp:256, which the code does not guarantee (run `query_from`);
  without it a condition without a table is simply not applied, and
  `ConditionsGiven` proves that it holds as soon as no query has a condition on a
  table that is not in its FROM, as none has in the run `statements`.
  `CondsPopped` is about queries only: a DELETE or an UPDATE with such a condition
  either throws (`ThrowRefines`) or finds no row (`StrayOK`, `StrayAnswers`),
  which is what the abstract table says it should find. Of the constants: `Value`
  are integers, so that they are ordered, `Room` is finite, and statements have
  the shape described in section 2.

None of this needs an induction theorem with an operator as a parameter. Folds
over a SET clause are used by a closed form (`FoldOfSets`), which the definition
of `FoldLeft` determines step by step; that a set of numbers has a least element
(`Least`) comes from `NatLessThanWellFounded` and `WFMin` of the library, and with
it what would be an induction is a choice of the least counterexample.

## 5. What is only model-checked

- Liveness (`RebalanceEnds`, `StatementsEnd`, `Answered`), and whatever needs
  ENABLED: out of TLAPS's reach. That is the only kind of property
  which a passing run checks and no theorem states.

## 6. Not modelled, and why

- The grammar, which a generator turns into code, printing, the client's prompt:
  data or wording. The client goes on to prompt for ever at the end of its input
  (db_client.cpp:140-145); nothing relates to it.
- Bytes: a record or a page is a value, a key a number. Where bytes decide
  (layout) the arithmetic is modelled as it is.
- The order of DATETIME values. getTimestamp computes in `int`, with months of 30
  days: 31-1 and 1-2 of a year are not equal and neither is less, and the years
  of today overflow. There is nothing to check beyond that arithmetic; `BTree` and
  `Statements` assume a total order.
- Strings of different lengths in one condition, the text of a result, and a table
  named twice in FROM.
- I/O errors: no part of the code handles one. A failed read or write leaves the
  semaphores taken that were.
- Crashes of the storage: the server keeps no log and promises nothing for files
  that were not closed. `RecordFile` and `Catalog` say what a regular close writes.
- Two users of one record file, index or table at a time inside an operation: the
  code has no lock there, and what they do to a page can be anything.
  `RecordFile`, `BTree` and `Statements` state what holds when there is one
  (`RecordScan`: one operation at a time under a running scan).
- Descriptors and the gap between flush_file and close (pf_manager.cpp:81-96): the
  agreement of `CatalogUse` keeps others away from a file that is being closed.
