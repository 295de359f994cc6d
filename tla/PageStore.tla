----------------------------- MODULE PageStore -----------------------------
(***************************************************************************)
(* What the buffer pool promises its callers: a store of pages.  A caller  *)
(* that asked for a page sees and changes that page and no other, and      *)
(* nothing the pool does behind the callers' back (eviction, write-back,   *)
(* flushing) changes the content of any page.                              *)
(***************************************************************************)
CONSTANTS
  PageIds,      \* identities of pages
  Value,        \* contents a page can have
  Holder,       \* places in the callers that keep a pointer to a page
  NoPage        \* "points to no page"

VARIABLES
  store,        \* store[p]: the content of page p
  held          \* held[h]: the page the holder h asked for last

vars == <<store, held>>

Init ==
  /\ store \in [PageIds -> Value]
  /\ held = [h \in Holder |-> NoPage]

\* The holder asks for a page that exists.
Fetch(h, p) ==
  /\ held' = [held EXCEPT ![h] = p]
  /\ UNCHANGED store

\* The holder asks for a new page, whose content is unspecified.
Create(h, p) ==
  /\ held' = [held EXCEPT ![h] = p]
  /\ \E v \in Value : store' = [store EXCEPT ![p] = v]

\* The holder changes the page it points to.
Write(h, v) ==
  /\ held[h] # NoPage
  /\ store' = [store EXCEPT ![held[h]] = v]
  /\ UNCHANGED held

\* The holder forgets its page.
Release(h) ==
  /\ held' = [held EXCEPT ![h] = NoPage]
  /\ UNCHANGED store

Next ==
  \E h \in Holder :
    \/ \E p \in PageIds : Fetch(h, p) \/ Create(h, p)
    \/ \E v \in Value : Write(h, v)
    \/ Release(h)

Spec == Init /\ [][Next]_vars
=============================================================================
