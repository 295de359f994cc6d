------------------------------- MODULE Pager -------------------------------
(***************************************************************************)
(* The buffer pool of the page file layer (PF_Pager): a fixed array of     *)
(* frames, the list of busy frames in recency order, the list of free      *)
(* frames, and the map from page identities to busy frames.                *)
(*                                                                         *)
(* get_page hands out a raw Page* that is neither pinned nor released: the *)
(* pool may give the frame to another page at any later call.  A holder is *)
(* a place in the callers (a local variable of an operation) that keeps    *)
(* such a pointer.  The callers are assumed to stop using a pointer before *)
(* as many other pages have been asked for as there are frames, and not to *)
(* close a file they hold pages of; HandleStable and Implements say that   *)
(* this is enough.                                                         *)
(*                                                                         *)
(* Everything between sem_wait(cache_sem) and sem_post(cache_sem) is one   *)
(* step, except flush_file, which is one step per round of its loop.       *)
(***************************************************************************)
EXTENDS Integers, Sequences, FiniteSets, SequencesExt, Functions

CONSTANTS
  Frames,       \* _pages: the NUM_CACHE_PAGES frames of the pool
  Fds,          \* descriptors of the open files
  PageNos,      \* page numbers
  Value,        \* contents of a page
  Holder,       \* places that keep a Page*
  NoPage,       \* the PageID of a frame never used, and of a holder without a page
  NoFrame,      \* the Page* of a holder without a page, and the end() of a list
  NoFd          \* no flush_file is running

PageIds == Fds \X PageNos
FdOf(p) == p[1]

ASSUME FramesAssumption == IsFiniteSet(Frames) /\ Frames # {}
ASSUME SentinelAssumption ==
  NoPage \notin PageIds /\ NoFrame \notin Frames /\ NoFd \notin Fds

VARIABLES
  busy_pages,   \* frames in use, the most recently used first
  free_pages,   \* frames not in use
  busy_map,     \* page identity -> frame, for the cached pages
  page_id,      \* Page::id of every frame
  is_dirty,     \* Page::is_dirty of every frame
  buf,          \* Page::buf of every frame
  disk,         \* content of the pages in the files
  flushing,     \* the file flush_file is working on, holding cache_sem
  it_page,      \* its iterator: an element goes with its frame to whatever list
                \* that is spliced into
  held,         \* the page every holder asked for
  ptr,          \* the Page* it was given
  since         \* history: the other pages asked for since then, by any holder

pool == <<busy_pages, free_pages, busy_map, page_id, is_dirty, buf>>
handles == <<held, ptr, since>>
loop == <<flushing, it_page>>
vars == <<pool, disk, loop, handles>>

-----------------------------------------------------------------------------
(* The lists.                                                              *)

\* Slip: push_front in place of splice, which keeps the old element too.
MoveToFrontCopies(s, i) == <<s[i]>> \o s

\* std::list::splice of the i-th element to the front of the list.
MoveToFront(s, i) == <<s[i]>> \o RemoveAt(s, i)

PositionOf(f) == CHOOSE i \in DOMAIN busy_pages : busy_pages[i] = f

\* The element after frame f in list s, or the end.
After(s, f) ==
  LET next == {i \in 2 .. Len(s) : s[i - 1] = f}
  IN IF next = {} THEN NoFrame ELSE s[CHOOSE i \in next : TRUE]

InCache(p) == p \in DOMAIN busy_map

\* A pointer is fresh while fewer other pages have been asked for than there are frames.
Fresh(h) == Cardinality(since[h]) < Cardinality(Frames)

\* The semaphore is free: no flush_file is in the middle of its loop.
CacheSemFree == flushing = NoFd

-----------------------------------------------------------------------------
Init ==
  /\ busy_pages = << >>
  /\ free_pages \in [1..Cardinality(Frames) -> Frames]
  /\ \A i, j \in DOMAIN free_pages : free_pages[i] = free_pages[j] => i = j
  /\ busy_map = << >>
  /\ page_id = [f \in Frames |-> NoPage]
  /\ is_dirty = [f \in Frames |-> FALSE]
  /\ buf \in [Frames -> Value]
  /\ disk \in [PageIds -> Value]
  /\ flushing = NoFd /\ it_page = NoFrame
  /\ held = [h \in Holder |-> NoPage]
  /\ ptr = [h \in Holder |-> NoFrame]
  /\ since = [h \in Holder |-> {}]

\* force_page: the disk after writing frame f back if it is dirty.
Forced(f) == IF is_dirty[f] THEN [disk EXCEPT ![page_id[f]] = buf[f]] ELSE disk

\* Slip: a hit does not count as a use, so the order is first in, first out.
HitWithoutAccess(p, exists) ==
  /\ is_dirty' = [is_dirty EXCEPT ![busy_map[p]] = IF exists THEN @ ELSE TRUE]
  /\ UNCHANGED <<busy_pages, free_pages, busy_map, page_id, buf, disk>>

\* The page is in memory: only the recency order changes.
Hit(p, exists) ==
  LET f == busy_map[p] IN
  /\ busy_pages' = MoveToFront(busy_pages, PositionOf(f))
  /\ is_dirty' = [is_dirty EXCEPT ![f] = IF exists THEN @ ELSE TRUE]
  /\ UNCHANGED <<free_pages, busy_map, page_id, buf, disk>>

\* Frame f, already taken out of its old place, becomes the frame of page p;
\* kept is what remains of the map.  A created page is not read: the buffer
\* keeps what its last page left there.
Install(p, f, kept, exists) ==
  /\ busy_map' = [q \in (kept \cup {p}) |-> IF q = p THEN f ELSE busy_map[q]]
  /\ page_id' = [page_id EXCEPT ![f] = p]
  /\ is_dirty' = [is_dirty EXCEPT ![f] = ~exists]
  /\ buf' = [buf EXCEPT ![f] = IF exists THEN disk[p] ELSE @]

\* The page is not in memory and a frame is free.
MissFree(p, exists) ==
  /\ free_pages # << >>
  /\ busy_pages' = <<Head(free_pages)>> \o busy_pages
  /\ free_pages' = Tail(free_pages)
  /\ Install(p, Head(free_pages), DOMAIN busy_map, exists)
  /\ UNCHANGED disk

\* Slip: the victim is not written back.
MissFullDropsVictim(p, exists) ==
  LET victim == busy_pages[Len(busy_pages)] IN
  /\ free_pages = << >>
  /\ busy_pages' = MoveToFront(busy_pages, Len(busy_pages))
  /\ Install(p, victim, DOMAIN busy_map \ {page_id[victim]}, exists)
  /\ UNCHANGED <<free_pages, disk>>

\* Slip: the victim stays in the map.
MissFullKeepsVictim(p, exists) ==
  LET victim == busy_pages[Len(busy_pages)] IN
  /\ free_pages = << >>
  /\ disk' = Forced(victim)
  /\ busy_pages' = MoveToFront(busy_pages, Len(busy_pages))
  /\ Install(p, victim, DOMAIN busy_map, exists)
  /\ UNCHANGED free_pages

\* Slip: the reused frame stays at the back of the list.
MissFullAtBack(p, exists) ==
  LET victim == busy_pages[Len(busy_pages)] IN
  /\ free_pages = << >>
  /\ disk' = Forced(victim)
  /\ Install(p, victim, DOMAIN busy_map \ {page_id[victim]}, exists)
  /\ UNCHANGED <<free_pages, busy_pages>>

\* The page is not in memory and the pool is full: the least recently used
\* page is written back if dirty and gives up its frame.
MissFull(p, exists) ==
  LET victim == busy_pages[Len(busy_pages)] IN
  /\ free_pages = << >>
  /\ disk' = Forced(victim)
  /\ busy_pages' = MoveToFront(busy_pages, Len(busy_pages))
  /\ Install(p, victim, DOMAIN busy_map \ {page_id[victim]}, exists)
  /\ UNCHANGED free_pages

\* get_page<exists>: holder h is given the frame of page p.
GetPage(h, p, exists) ==
  /\ CacheSemFree
  /\ IF InCache(p) THEN Hit(p, exists)
     ELSE MissFree(p, exists) \/ MissFull(p, exists)
  /\ held' = [held EXCEPT ![h] = p]
  /\ ptr' = [ptr EXCEPT ![h] = busy_map'[p]]
  /\ since' = [g \in Holder |->
                 IF g = h THEN {}
                 ELSE IF held[g] \in {NoPage, p} THEN since[g]
                 ELSE since[g] \cup {p}]
  /\ UNCHANGED loop

FetchPage(h, p) == GetPage(h, p, TRUE)

CreatePage(h, p) == GetPage(h, p, FALSE)

\* Slip: the caller forgets mark_dirty.
WritePageClean(h, v) ==
  /\ held[h] # NoPage
  /\ Fresh(h)
  /\ buf' = [buf EXCEPT ![ptr[h]] = v]
  /\ UNCHANGED <<busy_pages, free_pages, busy_map, page_id, is_dirty, disk, loop, handles>>

\* A caller changes the page through its pointer and marks it dirty.
WritePage(h, v) ==
  /\ held[h] # NoPage
  /\ Fresh(h)
  /\ buf' = [buf EXCEPT ![ptr[h]] = v]
  /\ is_dirty' = [is_dirty EXCEPT ![ptr[h]] = TRUE]
  /\ UNCHANGED <<busy_pages, free_pages, busy_map, page_id, disk, loop, handles>>

\* A pointer goes out of scope; the pool does not notice.
Release(h) ==
  /\ held[h] # NoPage
  /\ held' = [held EXCEPT ![h] = NoPage]
  /\ ptr' = [ptr EXCEPT ![h] = NoFrame]
  /\ since' = [since EXCEPT ![h] = {}]
  /\ UNCHANGED <<pool, disk, loop>>

\* Slip: the frame does not come back to the free list.
FlushLeaks(i) ==
  LET f == busy_pages[i] IN
  /\ disk' = Forced(f)
  /\ is_dirty' = [is_dirty EXCEPT ![f] = FALSE]
  /\ busy_pages' = RemoveAt(busy_pages, i)
  /\ busy_map' = [q \in DOMAIN busy_map \ {page_id[f]} |-> busy_map[q]]
  /\ UNCHANGED <<page_id, buf, free_pages>>

\* flush_page on the i-th busy frame.
Flush(i) ==
  LET f == busy_pages[i] IN
  /\ disk' = Forced(f)
  /\ is_dirty' = [is_dirty EXCEPT ![f] = FALSE]
  /\ busy_pages' = RemoveAt(busy_pages, i)
  /\ free_pages' = <<f>> \o free_pages
  /\ busy_map' = [q \in DOMAIN busy_map \ {page_id[f]} |-> busy_map[q]]
  /\ UNCHANGED <<page_id, buf>>

FlushFileBegin(fd) ==
  /\ CacheSemFree
  /\ \A h \in Holder : held[h] # NoPage => FdOf(held[h]) # fd
  /\ flushing' = fd
  /\ it_page' = IF busy_pages = << >> THEN NoFrame ELSE Head(busy_pages)
  /\ UNCHANGED <<pool, disk, handles>>

\* The body of the loop, for the element the iterator is at.
FlushIfOfFile ==
  IF FdOf(page_id[it_page]) = flushing
  THEN Flush(PositionOf(it_page))
  ELSE UNCHANGED <<pool, disk>>

\* Slip: the successor is taken after the splice, in whatever list the element is in.
FlushFileStepLate ==
  /\ flushing # NoFd /\ it_page # NoFrame
  /\ FlushIfOfFile
  /\ it_page' = IF it_page \in ToSet(busy_pages') THEN After(busy_pages', it_page)
                ELSE After(free_pages', it_page)
  /\ UNCHANGED <<flushing, handles>>

\* One round of the loop: the iterator goes on, then the element it was at is looked at.
FlushFileStep ==
  /\ flushing # NoFd /\ it_page # NoFrame
  /\ it_page' = After(busy_pages, it_page)
  /\ FlushIfOfFile
  /\ UNCHANGED <<flushing, handles>>

\* The iterator is at the end of the list.
FlushFileEnd ==
  /\ flushing # NoFd /\ it_page = NoFrame
  /\ flushing' = NoFd
  /\ UNCHANGED <<pool, disk, it_page, handles>>

\* flush_page called by itself, on a page nobody else points to.
FlushPage(h) ==
  /\ CacheSemFree
  /\ held[h] # NoPage
  /\ Fresh(h)
  /\ \A g \in Holder \ {h} : held[g] # held[h]
  /\ Flush(PositionOf(ptr[h]))
  /\ held' = [held EXCEPT ![h] = NoPage]
  /\ ptr' = [ptr EXCEPT ![h] = NoFrame]
  /\ since' = [since EXCEPT ![h] = {}]
  /\ UNCHANGED loop

\* flush_all, which the destructor calls: every page is written back and every frame freed.
FlushAll ==
  /\ CacheSemFree
  /\ \A h \in Holder : held[h] = NoPage
  /\ disk' = [p \in PageIds |->
                IF InCache(p) /\ is_dirty[busy_map[p]] THEN buf[busy_map[p]] ELSE disk[p]]
  /\ is_dirty' = [f \in Frames |-> is_dirty[f] /\ f \notin ToSet(busy_pages)]
  /\ free_pages' = free_pages \o busy_pages
  /\ busy_pages' = << >>
  /\ busy_map' = << >>
  /\ UNCHANGED <<page_id, buf, loop, handles>>

Next ==
  \/ \E h \in Holder :
       \/ \E p \in PageIds : FetchPage(h, p) \/ CreatePage(h, p)
       \/ \E v \in Value : WritePage(h, v)
       \/ Release(h)
       \/ FlushPage(h)
  \/ \E fd \in Fds : FlushFileBegin(fd)
  \/ FlushFileStep
  \/ FlushFileEnd
  \/ FlushAll

Spec == Init /\ [][Next]_vars

-----------------------------------------------------------------------------
(* Properties.                                                             *)

\* The types; no list is longer than the pool.
TypeOK ==
  /\ busy_pages \in Seq(Frames)
  /\ free_pages \in Seq(Frames)
  /\ Len(busy_pages) + Len(free_pages) <= Cardinality(Frames)
  /\ DOMAIN busy_map \subseteq PageIds
  /\ busy_map \in [DOMAIN busy_map -> Frames]
  /\ page_id \in [Frames -> PageIds \cup {NoPage}]
  /\ is_dirty \in [Frames -> BOOLEAN]
  /\ buf \in [Frames -> Value]
  /\ disk \in [PageIds -> Value]
  /\ flushing \in Fds \cup {NoFd}
  /\ it_page \in Frames \cup {NoFrame}
  /\ held \in [Holder -> PageIds \cup {NoPage}]
  /\ ptr \in [Holder -> Frames \cup {NoFrame}]
  /\ since \in [Holder -> SUBSET PageIds]

\* Every frame is on exactly one of the two lists, once.  The destructor
\* asserts a consequence: after flush_all all the frames are free.
PoolPartition ==
  /\ ToSet(busy_pages) \cup ToSet(free_pages) = Frames
  /\ ToSet(busy_pages) \cap ToSet(free_pages) = {}
  /\ IsInjective(busy_pages)
  /\ IsInjective(free_pages)

\* The map knows exactly the busy frames, each under the page it holds, so no
\* page is in two frames and none is found in a frame that holds another.
MapCoherent ==
  /\ \A i \in DOMAIN busy_pages :
       /\ page_id[busy_pages[i]] \in DOMAIN busy_map
       /\ busy_map[page_id[busy_pages[i]]] = busy_pages[i]
  /\ \A p \in DOMAIN busy_map :
       /\ page_id[busy_map[p]] = p
       /\ busy_map[p] \in ToSet(busy_pages)

\* A cached page that is not dirty equals its copy in the file: giving its
\* frame away without writing it loses nothing.
CleanOnDisk ==
  \A p \in DOMAIN busy_map : ~is_dirty[busy_map[p]] => buf[busy_map[p]] = disk[p]

\* A pointer that is still fresh points to the page its holder asked for,
\* although nothing pins it: the least recently used order protects it.
HandleStable ==
  \A h \in Holder :
    held[h] # NoPage /\ Fresh(h) =>
      InCache(held[h]) /\ busy_map[held[h]] = ptr[h]

\* What that order guarantees: the frames ahead of a fresh pointer's frame
\* hold pages asked for after it.
RecencyBound ==
  \A h \in Holder :
    held[h] # NoPage /\ Fresh(h) =>
      \A i \in DOMAIN busy_pages :
        busy_pages[i] = ptr[h] =>
          \A k \in 1..(i - 1) : page_id[busy_pages[k]] \in since[h]

\* The content of a page as its users see it.
Content(p) == IF InCache(p) THEN buf[busy_map[p]] ELSE disk[p]

\* The pool implements the store of pages: whatever is evicted, written back
\* or flushed, every page reads as last written.
Store == INSTANCE PageStore WITH store <- [p \in PageIds |-> Content(p)]

Implements == Store!Spec

\* flush_file leaves no page of its file behind and throws out no page of another,
\* although it splices the elements out of the list it walks over: its iterator never
\* gets into the list of free frames, where the walk would stop early or go on for
\* ever with cache_sem taken.
FlushEmpties ==
  [][\A fd \in Fds : flushing = fd =>
       /\ it_page' \in ToSet(busy_pages') \cup {NoFrame}
       /\ \A p \in DOMAIN busy_map : FdOf(p) # fd => p \in DOMAIN busy_map'
       /\ flushing' # fd => \A p \in DOMAIN busy_map : FdOf(p) # fd]_vars
=============================================================================
