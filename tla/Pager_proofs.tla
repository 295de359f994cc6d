---------------------------- MODULE Pager_proofs ----------------------------
(***************************************************************************)
(* What is proved of the buffer pool, for every number of frames, files,   *)
(* pages and holders.  First what the list operations do to the lists and  *)
(* to the order of their elements; then what every operation does to the   *)
(* pool (PoolOK is kept, the pages read the same); then why the recency    *)
(* order protects the pointers that nothing pins (HandlesSafe is kept);    *)
(* then the theorems.                                                      *)
(***************************************************************************)
EXTENDS Pager, SequenceTheorems, FiniteSetTheorems, TLAPS

-----------------------------------------------------------------------------
(* The lists.                                                              *)

\* The elements of a list are those at its positions.
LEMMA Elements ==
  ASSUME NEW S, NEW s \in Seq(S), NEW x
  PROVE  x \in ToSet(s) <=> \E k \in 1..Len(s) : s[k] = x
BY DEF ToSet

\* Erasing an element of a list of different elements.
LEMMA RemoveAtFacts ==
  ASSUME NEW S, NEW s \in Seq(S), NEW i \in 1..Len(s)
  PROVE  LET t == RemoveAt(s, i)
         IN  /\ t \in Seq(S)
             /\ Len(t) = Len(s) - 1
             /\ \A k \in 1..(Len(s) - 1) : t[k] = IF k < i THEN s[k] ELSE s[k + 1]
<1>. DEFINE a == SubSeq(s, 1, i - 1)
            b == SubSeq(s, i + 1, Len(s))
<1>1. Len(s) \in Nat /\ i \in Nat /\ 1 <= i /\ i <= Len(s)
  OBVIOUS
<1>2. a \in Seq(S) /\ Len(a) = i - 1 /\ \A k \in 1..(i - 1) : a[k] = s[k]
  BY <1>1, SubSeqProperties
<1>3. b \in Seq(S) /\ Len(b) = Len(s) - i /\ \A k \in 1..(Len(s) - i) : b[k] = s[k + i]
  BY <1>1, SubSeqProperties
<1>. HIDE DEF a, b
<1>4. /\ a \o b \in Seq(S) /\ Len(a \o b) = Len(s) - 1
      /\ \A k \in 1..(Len(s) - 1) : (a \o b)[k] = IF k < i THEN s[k] ELSE s[k + 1]
  <2>1. /\ a \o b \in Seq(S) /\ Len(a \o b) = Len(s) - 1
        /\ \A k \in 1..(Len(s) - 1) : (a \o b)[k] = IF k <= i - 1 THEN a[k] ELSE b[k - (i - 1)]
    <3>1. /\ a \o b \in Seq(S)
          /\ Len(a \o b) = Len(a) + Len(b)
          /\ \A k \in 1..(Len(a) + Len(b)) : (a \o b)[k] = IF k <= Len(a) THEN a[k] ELSE b[k - Len(a)]
      BY <1>2, <1>3, ConcatProperties
    <3>2. Len(a) + Len(b) = Len(s) - 1
      BY <1>1, <1>2, <1>3
    <3>. QED  BY <1>2, <3>1, <3>2
  <2>2. ASSUME NEW k \in 1..(Len(s) - 1), k < i
        PROVE  (a \o b)[k] = s[k]
    BY <1>1, <1>2, <2>1, <2>2
  <2>3. ASSUME NEW k \in 1..(Len(s) - 1), ~(k < i)
        PROVE  (a \o b)[k] = s[k + 1]
    <3>1. k - (i - 1) \in 1..(Len(s) - i) /\ (k - (i - 1)) + i = k + 1 /\ ~(k <= i - 1)
      BY <1>1, <2>3
    <3>. QED  BY <1>3, <2>1, <3>1
  <2>. QED  BY <2>1, <2>2, <2>3
<1>. QED  BY <1>4 DEF RemoveAt, a, b

LEMMA RemoveAtInjective ==
  ASSUME NEW S, NEW s \in Seq(S), IsInjective(s), NEW i \in 1..Len(s)
  PROVE  /\ IsInjective(RemoveAt(s, i))
         /\ ToSet(RemoveAt(s, i)) = ToSet(s) \ {s[i]}
<1>. DEFINE t == RemoveAt(s, i)
<1>1. /\ t \in Seq(S) /\ Len(t) = Len(s) - 1
      /\ \A k \in 1..(Len(s) - 1) : t[k] = IF k < i THEN s[k] ELSE s[k + 1]
  BY RemoveAtFacts
<1>2. \A a, b \in 1..Len(s) : s[a] = s[b] => a = b
  BY DEF IsInjective
<1>. HIDE DEF t
<1>3. IsInjective(t)
  BY <1>1, <1>2 DEF IsInjective
<1>4. \A k \in 1..Len(t) : t[k] \in ToSet(s) \ {s[i]}
  BY <1>1, <1>2 DEF ToSet
<1>5. ASSUME NEW k \in 1..Len(s), k # i
      PROVE  s[k] \in ToSet(t)
  <2>1. CASE k < i
    BY <1>1, <2>1 DEF ToSet
  <2>2. CASE k > i
    <3>1. t[k - 1] = s[k] /\ k - 1 \in 1..Len(t)
      BY <1>1, <2>2
    <3>. QED  BY <1>1, <3>1 DEF ToSet
  <2>. QED  BY <1>5, <2>1, <2>2
<1>6. ToSet(t) = ToSet(s) \ {s[i]}
  BY <1>1, <1>4, <1>5 DEF ToSet
<1>. QED  BY <1>3, <1>6 DEF t

\* Putting a new element in front of a list.
LEMMA PushFrontFacts ==
  ASSUME NEW S, NEW s \in Seq(S), NEW e \in S
  PROVE  LET t == <<e>> \o s
         IN  /\ t \in Seq(S)
             /\ Len(t) = Len(s) + 1
             /\ t[1] = e
             /\ \A k \in 2..(Len(s) + 1) : t[k] = s[k - 1]
             /\ ToSet(t) = {e} \cup ToSet(s)
             /\ IsInjective(s) /\ e \notin ToSet(s) => IsInjective(t)
<1>. DEFINE t == <<e>> \o s
<1>1. /\ t \in Seq(S) /\ Len(t) = Len(s) + 1 /\ t[1] = e
      /\ \A k \in 2..(Len(s) + 1) : t[k] = s[k - 1]
  OBVIOUS
<1>. HIDE DEF t
<1>2. \A k \in 1..Len(s) : t[k + 1] = s[k] /\ k + 1 \in 1..Len(t)
  BY <1>1
<1>3. ToSet(t) = {e} \cup ToSet(s)
  <2>1. \A k \in 1..Len(t) : t[k] \in {e} \cup ToSet(s)
    BY <1>1 DEF ToSet
  <2>2. \A k \in 1..Len(s) : s[k] \in ToSet(t)
    BY <1>2 DEF ToSet
  <2>3. e \in ToSet(t)
    BY <1>1 DEF ToSet
  <2>. QED  BY <2>1, <2>2, <2>3 DEF ToSet
<1>4. IsInjective(s) /\ e \notin ToSet(s) => IsInjective(t)
  BY <1>1 DEF IsInjective, ToSet
<1>. QED  BY <1>1, <1>3, <1>4 DEF t

\* What a use of a page does to the recency list.
LEMMA MoveToFrontFacts ==
  ASSUME NEW S, NEW s \in Seq(S), IsInjective(s), NEW i \in 1..Len(s)
  PROVE  LET t == MoveToFront(s, i)
         IN  /\ t \in Seq(S)
             /\ Len(t) = Len(s)
             /\ t[1] = s[i]
             /\ \A k \in 2..Len(s) : t[k] = IF k <= i THEN s[k - 1] ELSE s[k]
             /\ ToSet(t) = ToSet(s)
             /\ IsInjective(t)
<1>. DEFINE r == RemoveAt(s, i)
            t == <<s[i]>> \o r
<1>1. /\ r \in Seq(S) /\ Len(r) = Len(s) - 1
      /\ \A k \in 1..(Len(s) - 1) : r[k] = IF k < i THEN s[k] ELSE s[k + 1]
  BY RemoveAtFacts
<1>2. IsInjective(r) /\ ToSet(r) = ToSet(s) \ {s[i]}
  BY RemoveAtInjective
<1>3. s[i] \in S /\ s[i] \in ToSet(s)
  BY DEF ToSet
<1>. HIDE DEF r
<1>4. /\ t \in Seq(S) /\ Len(t) = Len(r) + 1 /\ t[1] = s[i]
      /\ \A k \in 2..(Len(r) + 1) : t[k] = r[k - 1]
      /\ ToSet(t) = {s[i]} \cup ToSet(r)
      /\ IsInjective(t)
  BY <1>1, <1>2, <1>3, PushFrontFacts
<1>. HIDE DEF t
<1>5. \A k \in 2..Len(s) : t[k] = IF k <= i THEN s[k - 1] ELSE s[k]
  BY <1>1, <1>4
<1>6. Len(t) = Len(s) /\ ToSet(t) = ToSet(s)
  BY <1>1, <1>2, <1>3, <1>4
<1>. QED  BY <1>4, <1>5, <1>6 DEF MoveToFront, r, t

\* Taking the first element off a list.
LEMMA TailFacts ==
  ASSUME NEW S, NEW s \in Seq(S), IsInjective(s), s # << >>
  PROVE  /\ Head(s) \in S
         /\ Head(s) \in ToSet(s)
         /\ Tail(s) \in Seq(S)
         /\ Len(Tail(s)) = Len(s) - 1
         /\ ToSet(Tail(s)) = ToSet(s) \ {Head(s)}
         /\ IsInjective(Tail(s))
<1>1. /\ Head(s) = s[1] /\ 1 \in 1..Len(s) /\ Tail(s) \in Seq(S)
      /\ Len(Tail(s)) = Len(s) - 1
      /\ \A k \in 1..(Len(s) - 1) : Tail(s)[k] = s[k + 1]
  BY HeadTailProperties
<1>2. \A a, b \in 1..Len(s) : s[a] = s[b] => a = b
  BY DEF IsInjective
<1>3. IsInjective(Tail(s))
  BY <1>1, <1>2 DEF IsInjective
<1>4. \A k \in 2..Len(s) : s[k] = Tail(s)[k - 1] /\ k - 1 \in 1..Len(Tail(s))
  BY <1>1
<1>5. ToSet(Tail(s)) = ToSet(s) \ {Head(s)}
  <2>1. ASSUME NEW k \in 1..Len(Tail(s))
        PROVE  Tail(s)[k] \in ToSet(s) \ {Head(s)}
    BY <1>1, <1>2 DEF ToSet
  <2>2. ASSUME NEW k \in 1..Len(s), s[k] # Head(s)
        PROVE  s[k] \in ToSet(Tail(s))
    <3>1. k \in 2..Len(s)
      BY <1>1, <2>2
    <3>2. \E j \in 1..Len(Tail(s)) : Tail(s)[j] = s[k]
      BY <1>4, <3>1
    <3>. QED  BY <1>1, <3>2, Elements
  <2>. QED  BY <1>1, <2>1, <2>2 DEF ToSet
<1>. QED  BY <1>1, <1>3, <1>5 DEF ToSet

\* Joining two lists that have nothing in common.
LEMMA ConcatFacts ==
  ASSUME NEW S, NEW s \in Seq(S), NEW t \in Seq(S), IsInjective(s), IsInjective(t),
         ToSet(s) \cap ToSet(t) = {}
  PROVE  /\ s \o t \in Seq(S)
         /\ Len(s \o t) = Len(s) + Len(t)
         /\ ToSet(s \o t) = ToSet(s) \cup ToSet(t)
         /\ IsInjective(s \o t)
<1>. DEFINE u == s \o t
<1>1. /\ u \in Seq(S) /\ Len(u) = Len(s) + Len(t)
      /\ \A k \in 1..Len(u) : u[k] = IF k <= Len(s) THEN s[k] ELSE t[k - Len(s)]
  BY ConcatProperties
<1>. HIDE DEF u
<1>. Len(s) \in Nat /\ Len(t) \in Nat
  OBVIOUS
<1>2. /\ \A k \in 1..Len(s) : u[k] = s[k] /\ k \in 1..Len(u)
      /\ \A k \in 1..Len(t) : u[k + Len(s)] = t[k] /\ k + Len(s) \in 1..Len(u)
  <2>1. ASSUME NEW k \in 1..Len(t)
        PROVE  u[k + Len(s)] = t[k] /\ k + Len(s) \in 1..Len(u)
    <3>1. k + Len(s) \in 1..Len(u) /\ ~(k + Len(s) <= Len(s)) /\ (k + Len(s)) - Len(s) = k
      BY <1>1
    <3>. QED  BY <1>1, <3>1
  <2>. QED  BY <1>1, <2>1
<1>3. ToSet(u) = ToSet(s) \cup ToSet(t)
  <2>1. ASSUME NEW k \in 1..Len(u)
        PROVE  u[k] \in ToSet(s) \cup ToSet(t)
    <3>1. k <= Len(s) => u[k] = s[k] /\ k \in 1..Len(s)
      BY <1>1
    <3>2. k > Len(s) => u[k] = t[k - Len(s)] /\ k - Len(s) \in 1..Len(t)
      BY <1>1
    <3>. QED  BY <1>1, <3>1, <3>2 DEF ToSet
  <2>2. \A k \in 1..Len(s) : s[k] \in ToSet(u)
    BY <1>2 DEF ToSet
  <2>3. \A k \in 1..Len(t) : t[k] \in ToSet(u)
    <3>1. \A k \in 1..Len(t) : \E j \in 1..Len(u) : u[j] = t[k]
      BY <1>2
    <3>. QED  BY <1>1, <3>1, Elements
  <2>4. \A x \in ToSet(u) : x \in ToSet(s) \cup ToSet(t)
    BY <1>1, <2>1 DEF ToSet
  <2>5. \A x \in ToSet(s) : x \in ToSet(u)
    BY <2>2 DEF ToSet
  <2>6. \A x \in ToSet(t) : x \in ToSet(u)
    BY <2>3 DEF ToSet
  <2>. QED  BY <2>4, <2>5, <2>6
<1>4. ASSUME NEW a \in 1..Len(u), NEW b \in 1..Len(u), u[a] = u[b]
      PROVE  a = b
  <2>1. CASE a <= Len(s) /\ b <= Len(s)
    BY <1>1, <1>4, <2>1 DEF IsInjective
  <2>2. CASE a > Len(s) /\ b > Len(s)
    BY <1>1, <1>4, <2>2 DEF IsInjective
  <2>3. CASE a <= Len(s) /\ b > Len(s)
    <3>1. a \in 1..Len(s) /\ u[a] = s[a]
      BY <1>1, <2>3
    <3>2. b - Len(s) \in 1..Len(t) /\ u[b] = t[b - Len(s)]
      BY <1>1, <2>3
    <3>3. u[a] \in ToSet(s)
      BY <3>1 DEF ToSet
    <3>4. u[b] \in ToSet(t)
      BY <3>2 DEF ToSet
    <3>. QED  BY <1>4, <3>3, <3>4
  <2>4. CASE a > Len(s) /\ b <= Len(s)
    <3>1. a - Len(s) \in 1..Len(t) /\ u[a] = t[a - Len(s)]
      BY <1>1, <2>4
    <3>2. b \in 1..Len(s) /\ u[b] = s[b]
      BY <1>1, <2>4
    <3>3. u[a] \in ToSet(t)
      BY <3>1 DEF ToSet
    <3>4. u[b] \in ToSet(s)
      BY <3>2 DEF ToSet
    <3>. QED  BY <1>4, <3>3, <3>4
  <2>. QED  BY <1>1, <2>1, <2>2, <2>3, <2>4
<1>. QED  BY <1>1, <1>3, <1>4 DEF IsInjective, u

\* In the list s the frame g comes before the frame f.
Before(s, g, f) == \E a \in 1..Len(s) : \E b \in 1..(a - 1) : s[a] = f /\ s[b] = g

LEMMA RemoveAtOrder ==
  ASSUME NEW S, NEW s \in Seq(S), NEW i \in 1..Len(s), NEW f, NEW g,
         Before(RemoveAt(s, i), g, f)
  PROVE  Before(s, g, f)
<1>. DEFINE t == RemoveAt(s, i)
<1>1. /\ t \in Seq(S) /\ Len(t) = Len(s) - 1
      /\ \A k \in 1..(Len(s) - 1) : t[k] = IF k < i THEN s[k] ELSE s[k + 1]
  BY RemoveAtFacts
<1>. HIDE DEF t
<1>2. PICK a \in 1..Len(t) : \E b \in 1..(a - 1) : t[a] = f /\ t[b] = g
  BY DEF Before, t
<1>3. PICK b \in 1..(a - 1) : t[a] = f /\ t[b] = g
  BY <1>2
<1>. DEFINE old(k) == IF k < i THEN k ELSE k + 1
<1>4. /\ old(a) \in 1..Len(s) /\ old(b) \in 1..(old(a) - 1)
      /\ s[old(a)] = f /\ s[old(b)] = g
  BY <1>1, <1>3
<1>. QED  BY <1>4 DEF Before

LEMMA PushFrontOrder ==
  ASSUME NEW S, NEW s \in Seq(S), NEW e \in S, e \notin ToSet(s), NEW f, NEW g,
         Before(<<e>> \o s, g, f)
  PROVE  f # e /\ (g = e \/ Before(s, g, f))
<1>. DEFINE t == <<e>> \o s
<1>1. /\ t \in Seq(S) /\ Len(t) = Len(s) + 1 /\ t[1] = e
      /\ \A k \in 2..(Len(s) + 1) : t[k] = s[k - 1]
  BY PushFrontFacts
<1>. HIDE DEF t
<1>2. PICK a \in 1..Len(t) : \E b \in 1..(a - 1) : t[a] = f /\ t[b] = g
  BY DEF Before, t
<1>3. PICK b \in 1..(a - 1) : t[a] = f /\ t[b] = g
  BY <1>2
<1>4. a \in 2..(Len(s) + 1) /\ f = s[a - 1] /\ a - 1 \in 1..Len(s)
  BY <1>1, <1>3
<1>5. f # e
  BY <1>4, Elements
<1>6. CASE b = 1
  BY <1>1, <1>3, <1>5, <1>6
<1>7. CASE b # 1
  <2>1. b - 1 \in 1..((a - 1) - 1) /\ s[b - 1] = g
    BY <1>1, <1>3, <1>4, <1>7
  <2>. QED  BY <1>4, <1>5, <2>1 DEF Before
<1>. QED  BY <1>6, <1>7

LEMMA MoveToFrontOrder ==
  ASSUME NEW S, NEW s \in Seq(S), IsInjective(s), NEW i \in 1..Len(s), NEW f, NEW g,
         Before(MoveToFront(s, i), g, f)
  PROVE  f # s[i] /\ (g = s[i] \/ Before(s, g, f))
<1>. DEFINE r == RemoveAt(s, i)
<1>1. r \in Seq(S) /\ s[i] \in S
  BY RemoveAtFacts
<1>2. s[i] \notin ToSet(r)
  BY RemoveAtInjective
<1>3. Before(<<s[i]>> \o r, g, f)
  BY DEF MoveToFront
<1>. HIDE DEF r
<1>4. f # s[i] /\ (g = s[i] \/ Before(r, g, f))
  BY <1>1, <1>2, <1>3, PushFrontOrder
<1>. QED  BY <1>4, RemoveAtOrder DEF r

\* The last of a list comes after all the others.
LEMMA LastOrder ==
  ASSUME NEW S, NEW s \in Seq(S), s # << >>, NEW g \in ToSet(s), g # s[Len(s)]
  PROVE  Before(s, g, s[Len(s)])
<1>1. PICK b \in 1..Len(s) : s[b] = g
  BY Elements
<1>2. b \in 1..(Len(s) - 1) /\ Len(s) \in 1..Len(s)
  BY <1>1
<1>. QED  BY <1>1, <1>2 DEF Before

LEMMA BeforeElements ==
  ASSUME NEW S, NEW s \in Seq(S), NEW f, NEW g, Before(s, g, f)
  PROVE  g \in ToSet(s) /\ f \in ToSet(s)
<1>1. PICK a \in 1..Len(s) : \E b \in 1..(a - 1) : s[a] = f /\ s[b] = g
  BY DEF Before
<1>2. PICK b \in 1..(a - 1) : s[a] = f /\ s[b] = g
  BY <1>1
<1>3. b \in 1..Len(s)
  BY <1>2
<1>. QED  BY <1>2, <1>3, Elements

-----------------------------------------------------------------------------
(* The pool.                                                               *)

\* The types of the pool; the two lists have as many elements as there are frames.
PoolTypes ==
  /\ busy_pages \in Seq(Frames)
  /\ free_pages \in Seq(Frames)
  /\ Len(busy_pages) + Len(free_pages) = Cardinality(Frames)
  /\ DOMAIN busy_map \subseteq PageIds
  /\ busy_map \in [DOMAIN busy_map -> Frames]
  /\ page_id \in [Frames -> PageIds \cup {NoPage}]
  /\ is_dirty \in [Frames -> BOOLEAN]
  /\ buf \in [Frames -> Value]
  /\ disk \in [PageIds -> Value]

\* MapCoherent, without the positions.
MapOK ==
  /\ \A f \in ToSet(busy_pages) : page_id[f] \in DOMAIN busy_map /\ busy_map[page_id[f]] = f
  /\ \A p \in DOMAIN busy_map : busy_map[p] \in ToSet(busy_pages) /\ page_id[busy_map[p]] = p

PoolOK == PoolTypes /\ PoolPartition /\ MapOK /\ CleanOnDisk

\* The invariant is stated for the lists as sets of frames; this is MapCoherent.
LEMMA MapCoherence == PoolOK => MapCoherent
<1>. SUFFICES ASSUME PoolOK PROVE MapCoherent
  OBVIOUS
<1>1. ASSUME NEW i \in DOMAIN busy_pages
      PROVE  busy_pages[i] \in ToSet(busy_pages)
  BY DEF ToSet
<1>. QED  BY <1>1 DEF PoolOK, MapOK, MapCoherent

\* A busy frame is found at its position.
LEMMA PositionFound ==
  ASSUME PoolOK, NEW f \in ToSet(busy_pages)
  PROVE  PositionOf(f) \in 1..Len(busy_pages) /\ busy_pages[PositionOf(f)] = f
<1>1. \E i \in DOMAIN busy_pages : busy_pages[i] = f
  BY DEF ToSet
<1>2. DOMAIN busy_pages = 1..Len(busy_pages)
  BY DEF PoolOK, PoolTypes
<1>. QED  BY <1>1, <1>2 DEF PositionOf

\* The number of frames is a positive number.
LEMMA FramesCounted == Cardinality(Frames) \in Nat \ {0}
BY FramesAssumption, FS_CardinalityType, FS_EmptySet

\* What a call of get_page for page p does to the pool, whichever way it goes:
\* p ends up at the front; every other page stays where it is, or was the last
\* of a full pool and is now in the file.
Shown(p) ==
  /\ p \in DOMAIN busy_map'
  /\ InCache(p) => busy_map'[p] = busy_map[p]
  /\ \A g \in Frames : ~Before(busy_pages', g, busy_map'[p])
  /\ page_id' = [page_id EXCEPT ![busy_map'[p]] = p]
  /\ \A q \in DOMAIN busy_map \ {p} :
       \/ /\ q \in DOMAIN busy_map'
          /\ busy_map'[q] = busy_map[q]
          /\ \A g \in Frames :
               Before(busy_pages', g, busy_map[q])
                 => g = busy_map'[p] \/ Before(busy_pages, g, busy_map[q])
       \/ /\ ~InCache(p)
          /\ \A g \in Frames \ {busy_map[q]} : Before(busy_pages, g, busy_map[q])
  /\ \A q \in PageIds \ {p} : Content(q)' = Content(q)

LEMMA HitShows ==
  ASSUME PoolOK, NEW p \in PageIds, NEW exists \in BOOLEAN, InCache(p), Hit(p, exists)
  PROVE  PoolOK' /\ Shown(p) /\ Content(p)' = Content(p)
<1>. DEFINE f == busy_map[p]
            i == PositionOf(f)
<1>1. f \in ToSet(busy_pages) /\ page_id[f] = p /\ f \in Frames
  BY DEF PoolOK, MapOK, PoolTypes, InCache
<1>2. i \in 1..Len(busy_pages) /\ busy_pages[i] = f
  BY <1>1, PositionFound
<1>3. busy_pages \in Seq(Frames) /\ IsInjective(busy_pages)
  BY DEF PoolOK, PoolTypes, PoolPartition
<1>4. /\ busy_pages' = MoveToFront(busy_pages, i)
      /\ is_dirty' = [is_dirty EXCEPT ![f] = IF exists THEN @ ELSE TRUE]
      /\ UNCHANGED <<free_pages, busy_map, page_id, buf, disk>>
  BY DEF Hit
<1>. HIDE DEF f, i
<1>5. /\ busy_pages' \in Seq(Frames) /\ Len(busy_pages') = Len(busy_pages)
      /\ ToSet(busy_pages') = ToSet(busy_pages) /\ IsInjective(busy_pages')
  BY <1>2, <1>3, <1>4, MoveToFrontFacts
<1>6. is_dirty' \in [Frames -> BOOLEAN] /\ \A g \in Frames : is_dirty[g] => is_dirty'[g]
  <2>1. is_dirty \in [Frames -> BOOLEAN]
    BY DEF PoolOK, PoolTypes
  <2>2. CASE exists = TRUE
    BY <1>4, <2>1, <2>2
  <2>3. CASE exists = FALSE
    BY <1>4, <2>1, <2>3
  <2>. QED  BY <2>2, <2>3
<1>7. PoolOK'
  <2>1. PoolTypes'
    BY <1>4, <1>5, <1>6 DEF PoolOK, PoolTypes
  <2>2. PoolPartition'
    BY <1>4, <1>5 DEF PoolOK, PoolPartition
  <2>3. MapOK'
    BY <1>4, <1>5 DEF PoolOK, MapOK
  <2>4. CleanOnDisk'
    BY <1>4, <1>6 DEF PoolOK, CleanOnDisk, PoolTypes
  <2>. QED  BY <2>1, <2>2, <2>3, <2>4 DEF PoolOK
<1>8. \A q : Content(q)' = Content(q)
  BY <1>4 DEF Content, InCache
<1>9. \A g \in Frames, h \in Frames :
        Before(busy_pages', g, h) => h # f /\ (g = f \/ Before(busy_pages, g, h))
  BY <1>2, <1>3, <1>4, MoveToFrontOrder
<1>10. page_id' = [page_id EXCEPT ![busy_map'[p]] = p]
  BY <1>1, <1>4 DEF PoolOK, PoolTypes, f
<1>11. Shown(p)
  BY <1>1, <1>4, <1>8, <1>9, <1>10 DEF Shown, InCache, PoolOK, PoolTypes, f
<1>. QED  BY <1>7, <1>8, <1>11

\* What Install writes.
Installed(p, f, kept, exists) ==
  /\ DOMAIN busy_map' = kept \cup {p}
  /\ busy_map' \in [DOMAIN busy_map' -> Frames]
  /\ busy_map'[p] = f
  /\ \A q \in kept \ {p} : busy_map'[q] = busy_map[q]
  /\ page_id' = [page_id EXCEPT ![f] = p]
  /\ page_id' \in [Frames -> PageIds \cup {NoPage}]
  /\ is_dirty' \in [Frames -> BOOLEAN]
  /\ is_dirty'[f] <=> ~exists
  /\ \A g \in Frames \ {f} : is_dirty'[g] = is_dirty[g] /\ buf'[g] = buf[g]
  /\ buf' \in [Frames -> Value]
  /\ buf'[f] = IF exists THEN disk[p] ELSE buf[f]

LEMMA InstallWrites ==
  ASSUME NEW p \in PageIds, NEW f \in Frames, NEW kept, NEW exists \in BOOLEAN,
         PoolTypes, kept \subseteq DOMAIN busy_map, Install(p, f, kept, exists)
  PROVE  Installed(p, f, kept, exists)
<1>1. /\ busy_map' = [q \in (kept \cup {p}) |-> IF q = p THEN f ELSE busy_map[q]]
      /\ page_id' = [page_id EXCEPT ![f] = p]
      /\ buf' = [buf EXCEPT ![f] = IF exists THEN disk[p] ELSE @]
  BY DEF Install
<1>2. is_dirty' = [is_dirty EXCEPT ![f] = ~exists] /\ is_dirty \in [Frames -> BOOLEAN]
  BY DEF Install, PoolTypes
<1>3. /\ is_dirty' \in [Frames -> BOOLEAN]
      /\ is_dirty'[f] <=> ~exists
      /\ \A g \in Frames \ {f} : is_dirty'[g] = is_dirty[g]
  <2>1. CASE exists = TRUE
    BY <1>2, <2>1
  <2>2. CASE exists = FALSE
    BY <1>2, <2>2
  <2>. QED  BY <2>1, <2>2
<1>4. /\ DOMAIN busy_map' = kept \cup {p}
      /\ busy_map' \in [DOMAIN busy_map' -> Frames]
      /\ busy_map'[p] = f
      /\ \A q \in kept \ {p} : busy_map'[q] = busy_map[q]
  BY <1>1 DEF PoolTypes
<1>5. /\ page_id' \in [Frames -> PageIds \cup {NoPage}]
      /\ buf' \in [Frames -> Value]
      /\ buf'[f] = IF exists THEN disk[p] ELSE buf[f]
      /\ \A g \in Frames \ {f} : buf'[g] = buf[g]
  BY <1>1 DEF PoolTypes
<1>. QED  BY <1>1, <1>3, <1>4, <1>5 DEF Installed

LEMMA MissFreeShows ==
  ASSUME PoolOK, NEW p \in PageIds, NEW exists \in BOOLEAN, ~InCache(p), MissFree(p, exists)
  PROVE  PoolOK' /\ Shown(p) /\ (exists => Content(p)' = Content(p))
<1>. DEFINE f == Head(free_pages)
<1>1. /\ free_pages # << >>
      /\ busy_pages' = <<f>> \o busy_pages
      /\ free_pages' = Tail(free_pages)
      /\ Install(p, f, DOMAIN busy_map, exists)
      /\ disk' = disk
  BY DEF MissFree
<1>2. /\ busy_pages \in Seq(Frames) /\ IsInjective(busy_pages)
      /\ free_pages \in Seq(Frames) /\ IsInjective(free_pages)
  BY DEF PoolOK, PoolTypes, PoolPartition
<1>3. /\ f \in Frames /\ f \in ToSet(free_pages)
      /\ free_pages' \in Seq(Frames) /\ Len(free_pages') = Len(free_pages) - 1
      /\ ToSet(free_pages') = ToSet(free_pages) \ {f} /\ IsInjective(free_pages')
  BY <1>1, <1>2, TailFacts
<1>4. f \notin ToSet(busy_pages)
  BY <1>3 DEF PoolOK, PoolPartition
<1>. HIDE DEF f
<1>5. /\ busy_pages' \in Seq(Frames) /\ Len(busy_pages') = Len(busy_pages) + 1
      /\ ToSet(busy_pages') = {f} \cup ToSet(busy_pages) /\ IsInjective(busy_pages')
  BY <1>1, <1>2, <1>3, <1>4, PushFrontFacts
<1>6. /\ DOMAIN busy_map' = DOMAIN busy_map \cup {p}
      /\ busy_map' \in [DOMAIN busy_map' -> Frames]
      /\ busy_map'[p] = f
      /\ \A q \in DOMAIN busy_map \ {p} : busy_map'[q] = busy_map[q]
      /\ page_id' = [page_id EXCEPT ![f] = p]
      /\ page_id' \in [Frames -> PageIds \cup {NoPage}]
      /\ is_dirty' \in [Frames -> BOOLEAN]
      /\ is_dirty'[f] <=> ~exists
      /\ \A g \in Frames \ {f} : is_dirty'[g] = is_dirty[g] /\ buf'[g] = buf[g]
      /\ buf' \in [Frames -> Value]
      /\ buf'[f] = IF exists THEN disk[p] ELSE buf[f]
  <2>1. Installed(p, f, DOMAIN busy_map, exists)
    BY <1>1, <1>3, InstallWrites DEF PoolOK
  <2>. QED  BY <2>1 DEF Installed
<1>7. /\ p \notin DOMAIN busy_map
      /\ \A q \in DOMAIN busy_map : busy_map[q] \in ToSet(busy_pages) /\ busy_map[q] \in Frames
      /\ \A q \in DOMAIN busy_map : busy_map[q] # f
  BY <1>4 DEF InCache, PoolOK, MapOK, PoolTypes
<1>8. PoolOK'
  <2>1. PoolTypes'
    <3>1. Len(busy_pages') + Len(free_pages') = Cardinality(Frames)
      BY <1>2, <1>3, <1>5 DEF PoolOK, PoolTypes
    <3>2. DOMAIN busy_map' \subseteq PageIds
      BY <1>6 DEF PoolOK, PoolTypes
    <3>. QED  BY <1>1, <1>3, <1>5, <1>6, <3>1, <3>2 DEF PoolOK, PoolTypes
  <2>2. PoolPartition'
    BY <1>3, <1>4, <1>5 DEF PoolOK, PoolPartition
  <2>3. MapOK'
    <3>1. ASSUME NEW g \in ToSet(busy_pages')
          PROVE  page_id'[g] \in DOMAIN busy_map' /\ busy_map'[page_id'[g]] = g
      <4>1. CASE g = f
        BY <1>3, <1>6, <4>1 DEF PoolOK, PoolTypes
      <4>2. CASE g # f
        <5>1. g \in ToSet(busy_pages) /\ g \in Frames
          BY <1>5, <3>1, <4>2 DEF PoolOK, PoolPartition
        <5>2. page_id'[g] = page_id[g] /\ page_id[g] \in DOMAIN busy_map /\ busy_map[page_id[g]] = g
          BY <1>6, <4>2, <5>1 DEF PoolOK, MapOK, PoolTypes
        <5>. QED  BY <1>6, <1>7, <5>2
      <4>. QED  BY <4>1, <4>2
    <3>2. ASSUME NEW q \in DOMAIN busy_map'
          PROVE  busy_map'[q] \in ToSet(busy_pages') /\ page_id'[busy_map'[q]] = q
      <4>1. CASE q = p
        BY <1>3, <1>5, <1>6, <4>1 DEF PoolOK, PoolTypes
      <4>2. CASE q # p
        BY <1>5, <1>6, <1>7, <4>2 DEF PoolOK, MapOK, PoolTypes
      <4>. QED  BY <4>1, <4>2
    <3>. QED  BY <3>1, <3>2 DEF MapOK
  <2>4. CleanOnDisk'
    <3>. SUFFICES ASSUME NEW q \in DOMAIN busy_map', ~is_dirty'[busy_map'[q]]
                  PROVE  buf'[busy_map'[q]] = disk'[q]
      BY DEF CleanOnDisk
    <3>1. CASE q = p
      BY <1>1, <1>6, <3>1
    <3>2. CASE q # p
      <4>1. /\ q \in DOMAIN busy_map /\ busy_map'[q] = busy_map[q] /\ busy_map[q] # f
            /\ busy_map[q] \in Frames
        BY <1>6, <1>7, <3>2
      <4>. QED  BY <1>1, <1>6, <4>1 DEF PoolOK, CleanOnDisk
    <3>. QED  BY <3>1, <3>2
  <2>. QED  BY <2>1, <2>2, <2>3, <2>4 DEF PoolOK
<1>9. \A q \in PageIds \ {p} : Content(q)' = Content(q)
  BY <1>1, <1>6, <1>7 DEF Content, InCache
<1>10. exists => Content(p)' = Content(p)
  BY <1>1, <1>6, <1>7 DEF Content, InCache
<1>11. \A g \in Frames, h \in Frames :
         Before(busy_pages', g, h) => h # f /\ (g = f \/ Before(busy_pages, g, h))
  BY <1>1, <1>2, <1>3, <1>4, PushFrontOrder
<1>12. Shown(p)
  BY <1>3, <1>6, <1>7, <1>9, <1>11 DEF Shown, InCache
<1>. QED  BY <1>8, <1>10, <1>12

\* Writing a frame back if it is dirty makes its page in the file what it is in
\* memory, and changes no other.
LEMMA ForcedWrites ==
  ASSUME PoolOK, NEW f \in ToSet(busy_pages)
  PROVE  /\ f \in Frames /\ page_id[f] \in PageIds /\ page_id[f] \in DOMAIN busy_map
         /\ busy_map[page_id[f]] = f
         /\ Forced(f) \in [PageIds -> Value]
         /\ Forced(f)[page_id[f]] = buf[f]
         /\ \A q \in PageIds \ {page_id[f]} : Forced(f)[q] = disk[q]
<1>1. /\ f \in Frames /\ page_id[f] \in PageIds /\ page_id[f] \in DOMAIN busy_map
      /\ busy_map[page_id[f]] = f
  BY DEF PoolOK, PoolPartition, MapOK, PoolTypes
<1>2. disk \in [PageIds -> Value] /\ buf \in [Frames -> Value]
  BY DEF PoolOK, PoolTypes
<1>3. CASE is_dirty[f]
  BY <1>1, <1>2, <1>3 DEF Forced
<1>4. CASE ~is_dirty[f]
  BY <1>1, <1>2, <1>4 DEF Forced, PoolOK, CleanOnDisk
<1>. QED  BY <1>3, <1>4

LEMMA MissFullShows ==
  ASSUME PoolOK, NEW p \in PageIds, NEW exists \in BOOLEAN, ~InCache(p), MissFull(p, exists)
  PROVE  PoolOK' /\ Shown(p) /\ (exists => Content(p)' = Content(p))
<1>. DEFINE n == Len(busy_pages)
            f == busy_pages[n]
            vp == page_id[f]
<1>1. /\ free_pages = << >>
      /\ disk' = Forced(f)
      /\ busy_pages' = MoveToFront(busy_pages, n)
      /\ Install(p, f, DOMAIN busy_map \ {vp}, exists)
      /\ free_pages' = free_pages
  BY DEF MissFull
<1>2. busy_pages \in Seq(Frames) /\ IsInjective(busy_pages)
  BY DEF PoolOK, PoolTypes, PoolPartition
<1>3. n \in 1..n /\ busy_pages # << >> /\ f \in ToSet(busy_pages)
  <2>1. n = Cardinality(Frames)
    BY <1>1, <1>2 DEF PoolOK, PoolTypes
  <2>2. n \in 1..n /\ busy_pages # << >>
    BY <1>2, <2>1, FramesCounted
  <2>. QED  BY <1>2, <2>2, Elements
<1>4. /\ f \in Frames /\ vp \in PageIds /\ vp \in DOMAIN busy_map
      /\ busy_map[vp] = f
      /\ disk' \in [PageIds -> Value]
      /\ disk'[vp] = buf[f]
      /\ \A q \in PageIds \ {vp} : disk'[q] = disk[q]
  BY <1>1, <1>3, ForcedWrites
<1>5. /\ busy_pages' \in Seq(Frames) /\ Len(busy_pages') = n
      /\ ToSet(busy_pages') = ToSet(busy_pages) /\ IsInjective(busy_pages')
  BY <1>1, <1>2, <1>3, MoveToFrontFacts
<1>6. \A g \in Frames, h \in Frames :
        Before(busy_pages', g, h) => h # f /\ (g = f \/ Before(busy_pages, g, h))
  BY <1>1, <1>2, <1>3, MoveToFrontOrder
<1>7. ToSet(busy_pages) = Frames
  BY <1>1 DEF PoolOK, PoolPartition, ToSet
<1>8. \A g \in Frames \ {f} : Before(busy_pages, g, f)
  BY <1>2, <1>3, <1>7, LastOrder
<1>. HIDE DEF f, n, vp
<1>9. Installed(p, f, DOMAIN busy_map \ {vp}, exists)
  <2>1. PoolTypes /\ DOMAIN busy_map \ {vp} \subseteq DOMAIN busy_map
    BY DEF PoolOK
  <2>. QED  BY <1>1, <1>4, <2>1, InstallWrites
<1>10. /\ p \notin DOMAIN busy_map /\ p # vp
       /\ \A q \in DOMAIN busy_map : busy_map[q] \in Frames /\ page_id[busy_map[q]] = q
       /\ \A q \in DOMAIN busy_map \ {vp} : busy_map[q] # f
  BY <1>4 DEF InCache, PoolOK, MapOK, PoolTypes, vp
<1>11. /\ DOMAIN busy_map' = (DOMAIN busy_map \ {vp}) \cup {p}
       /\ busy_map'[p] = f
       /\ \A q \in DOMAIN busy_map \ {vp} : busy_map'[q] = busy_map[q]
  BY <1>9, <1>10 DEF Installed
<1>12. PoolOK'
  <2>1. PoolTypes'
    <3>1. Len(busy_pages') + Len(free_pages') = Cardinality(Frames)
      BY <1>1, <1>5 DEF PoolOK, PoolTypes, n
    <3>2. DOMAIN busy_map' \subseteq PageIds
      BY <1>11 DEF PoolOK, PoolTypes
    <3>. QED  BY <1>1, <1>4, <1>5, <1>9, <3>1, <3>2 DEF PoolOK, PoolTypes, Installed
  <2>2. PoolPartition'
    BY <1>1, <1>5 DEF PoolOK, PoolPartition
  <2>3. MapOK'
    <3>1. ASSUME NEW g \in Frames
          PROVE  page_id'[g] \in DOMAIN busy_map' /\ busy_map'[page_id'[g]] = g
      <4>1. CASE g = f
        BY <1>4, <1>9, <1>11, <4>1 DEF Installed, PoolOK, PoolTypes
      <4>2. CASE g # f
        <5>1. page_id'[g] = page_id[g]
          BY <1>9, <4>2 DEF Installed, PoolOK, PoolTypes
        <5>2. page_id[g] \in DOMAIN busy_map /\ busy_map[page_id[g]] = g
          BY <1>7 DEF PoolOK, MapOK
        <5>. QED  BY <1>4, <1>11, <4>2, <5>1, <5>2
      <4>. QED  BY <4>1, <4>2
    <3>2. ASSUME NEW q \in DOMAIN busy_map'
          PROVE  busy_map'[q] \in Frames /\ page_id'[busy_map'[q]] = q
      <4>1. CASE q = p
        BY <1>4, <1>9, <1>11, <4>1 DEF Installed, PoolOK, PoolTypes
      <4>2. CASE q # p
        BY <1>9, <1>10, <1>11, <4>2 DEF Installed, PoolOK, PoolTypes
      <4>. QED  BY <4>1, <4>2
    <3>. QED  BY <1>5, <1>7, <3>1, <3>2 DEF MapOK
  <2>4. CleanOnDisk'
    <3>. SUFFICES ASSUME NEW q \in DOMAIN busy_map', ~is_dirty'[busy_map'[q]]
                  PROVE  buf'[busy_map'[q]] = disk'[q]
      BY DEF CleanOnDisk
    <3>1. CASE q = p
      BY <1>4, <1>9, <1>10, <1>11, <3>1 DEF Installed
    <3>2. CASE q # p
      <4>1. /\ q \in DOMAIN busy_map /\ q # vp /\ busy_map'[q] = busy_map[q]
            /\ busy_map[q] # f /\ busy_map[q] \in Frames /\ q \in PageIds
        BY <1>10, <1>11, <3>2 DEF PoolOK, PoolTypes
      <4>2. ~is_dirty[busy_map[q]] /\ buf'[busy_map[q]] = buf[busy_map[q]]
        BY <1>9, <4>1 DEF Installed
      <4>. QED  BY <1>4, <4>1, <4>2 DEF PoolOK, CleanOnDisk
    <3>. QED  BY <3>1, <3>2
  <2>. QED  BY <2>1, <2>2, <2>3, <2>4 DEF PoolOK
<1>13. ASSUME NEW q \in PageIds \ {p}
       PROVE  Content(q)' = Content(q)
  <2>1. CASE q = vp
    BY <1>4, <1>11, <2>1 DEF Content, InCache
  <2>2. CASE q # vp
    <3>1. q \in DOMAIN busy_map' <=> q \in DOMAIN busy_map
      BY <1>11, <2>2
    <3>2. CASE q \in DOMAIN busy_map
      <4>1. busy_map'[q] = busy_map[q] /\ buf'[busy_map[q]] = buf[busy_map[q]]
        BY <1>9, <1>10, <1>11, <2>2, <3>2 DEF Installed
      <4>. QED  BY <3>1, <3>2, <4>1 DEF Content, InCache
    <3>3. CASE q \notin DOMAIN busy_map
      BY <1>4, <2>2, <3>1, <3>3 DEF Content, InCache
    <3>. QED  BY <3>2, <3>3
  <2>. QED  BY <2>1, <2>2
<1>14. exists => Content(p)' = Content(p)
  BY <1>9, <1>10, <1>11 DEF Content, InCache, Installed
<1>15. Shown(p)
  <2>1. p \in DOMAIN busy_map' /\ ~InCache(p) /\ \A g \in Frames : ~Before(busy_pages', g, f)
    BY <1>4, <1>6, <1>10, <1>11 DEF InCache
  <2>2. page_id' = [page_id EXCEPT ![f] = p]
    BY <1>9 DEF Installed
  <2>3. ASSUME NEW q \in DOMAIN busy_map \ {p}
        PROVE  \/ /\ q \in DOMAIN busy_map'
                  /\ busy_map'[q] = busy_map[q]
                  /\ \A g \in Frames :
                       Before(busy_pages', g, busy_map[q])
                         => g = f \/ Before(busy_pages, g, busy_map[q])
               \/ \A g \in Frames \ {busy_map[q]} : Before(busy_pages, g, busy_map[q])
    BY <1>4, <1>6, <1>8, <1>10, <1>11
  <2>. QED  BY <1>11, <1>13, <2>1, <2>2, <2>3 DEF Shown
<1>. QED  BY <1>12, <1>14, <1>15

-----------------------------------------------------------------------------
\* Flushing a page changes no page as it is seen, and no other page's frame.
Flushed(f) ==
  /\ DOMAIN busy_map' = DOMAIN busy_map \ {page_id[f]}
  /\ \A q \in DOMAIN busy_map' : busy_map'[q] = busy_map[q]
  /\ page_id' = page_id
  /\ \A g \in Frames, h \in Frames : Before(busy_pages', g, h) => Before(busy_pages, g, h)
  /\ \A q \in PageIds : Content(q)' = Content(q)

LEMMA FlushKeeps ==
  ASSUME PoolOK, NEW i \in 1..Len(busy_pages), Flush(i)
  PROVE  PoolOK' /\ Flushed(busy_pages[i])
<1>. DEFINE f == busy_pages[i]
            fp == page_id[f]
<1>1. /\ disk' = Forced(f)
      /\ is_dirty' = [is_dirty EXCEPT ![f] = FALSE]
      /\ busy_pages' = RemoveAt(busy_pages, i)
      /\ free_pages' = <<f>> \o free_pages
      /\ busy_map' = [q \in DOMAIN busy_map \ {fp} |-> busy_map[q]]
      /\ page_id' = page_id /\ buf' = buf
  BY DEF Flush
<1>2. /\ busy_pages \in Seq(Frames) /\ IsInjective(busy_pages)
      /\ free_pages \in Seq(Frames) /\ IsInjective(free_pages)
      /\ ToSet(busy_pages) \cap ToSet(free_pages) = {}
      /\ ToSet(busy_pages) \cup ToSet(free_pages) = Frames
  BY DEF PoolOK, PoolTypes, PoolPartition
<1>3. f \in ToSet(busy_pages) /\ f \in Frames /\ f \notin ToSet(free_pages)
  BY <1>2, Elements
<1>4. /\ fp \in PageIds /\ fp \in DOMAIN busy_map
      /\ busy_map[fp] = f
      /\ disk' \in [PageIds -> Value]
      /\ disk'[fp] = buf[f]
      /\ \A q \in PageIds \ {fp} : disk'[q] = disk[q]
  BY <1>1, <1>3, ForcedWrites
<1>5. /\ busy_pages' \in Seq(Frames) /\ Len(busy_pages') = Len(busy_pages) - 1
      /\ ToSet(busy_pages') = ToSet(busy_pages) \ {f} /\ IsInjective(busy_pages')
  BY <1>1, <1>2, RemoveAtFacts, RemoveAtInjective
<1>6. \A g \in Frames, h \in Frames : Before(busy_pages', g, h) => Before(busy_pages, g, h)
  BY <1>1, <1>2, RemoveAtOrder
<1>. HIDE DEF f, fp
<1>7. /\ free_pages' \in Seq(Frames) /\ Len(free_pages') = Len(free_pages) + 1
      /\ ToSet(free_pages') = {f} \cup ToSet(free_pages) /\ IsInjective(free_pages')
  BY <1>1, <1>2, <1>3, PushFrontFacts
<1>8. \A q \in DOMAIN busy_map \ {fp} :
        busy_map'[q] = busy_map[q] /\ busy_map[q] # f /\ busy_map[q] \in Frames
        /\ busy_map[q] \in ToSet(busy_pages) /\ page_id[busy_map[q]] = q
  BY <1>1 DEF PoolOK, MapOK, PoolTypes, fp
<1>9. is_dirty' \in [Frames -> BOOLEAN] /\ \A g \in Frames \ {f} : is_dirty'[g] = is_dirty[g]
  BY <1>1 DEF PoolOK, PoolTypes
<1>10. PoolOK'
  <2>1. PoolTypes'
    <3>1. Len(busy_pages') + Len(free_pages') = Cardinality(Frames)
      BY <1>2, <1>5, <1>7 DEF PoolOK, PoolTypes
    <3>2. DOMAIN busy_map' \subseteq PageIds /\ busy_map' \in [DOMAIN busy_map' -> Frames]
      BY <1>1, <1>8 DEF PoolOK, PoolTypes
    <3>. QED  BY <1>1, <1>4, <1>5, <1>7, <1>9, <3>1, <3>2 DEF PoolOK, PoolTypes
  <2>2. PoolPartition'
    BY <1>2, <1>3, <1>5, <1>7 DEF PoolPartition
  <2>3. MapOK'
    <3>1. ASSUME NEW g \in ToSet(busy_pages) \ {f}
          PROVE  page_id[g] \in DOMAIN busy_map' /\ busy_map'[page_id[g]] = g
      <4>1. page_id[g] \in DOMAIN busy_map /\ busy_map[page_id[g]] = g
        BY DEF PoolOK, MapOK
      <4>. QED  BY <1>1, <1>4, <4>1
    <3>. QED  BY <1>1, <1>5, <1>8, <3>1 DEF MapOK
  <2>4. CleanOnDisk'
    <3>. SUFFICES ASSUME NEW q \in DOMAIN busy_map \ {fp}, ~is_dirty'[busy_map'[q]]
                  PROVE  buf'[busy_map'[q]] = disk'[q]
      BY <1>1 DEF CleanOnDisk
    <3>1. q \in PageIds /\ ~is_dirty[busy_map[q]]
      BY <1>8, <1>9 DEF PoolOK, PoolTypes
    <3>. QED  BY <1>1, <1>4, <1>8, <3>1 DEF PoolOK, CleanOnDisk
  <2>. QED  BY <2>1, <2>2, <2>3, <2>4 DEF PoolOK
<1>11. ASSUME NEW q \in PageIds PROVE Content(q)' = Content(q)
  <2>1. CASE q = fp
    BY <1>1, <1>4, <2>1 DEF Content, InCache
  <2>2. CASE q # fp
    BY <1>1, <1>4, <1>8, <2>2 DEF Content, InCache
  <2>. QED  BY <2>1, <2>2
<1>. QED  BY <1>1, <1>6, <1>8, <1>10, <1>11 DEF Flushed, f, fp

LEMMA FlushAllKeeps ==
  ASSUME PoolOK, FlushAll
  PROVE  PoolOK' /\ \A q \in PageIds : Content(q)' = Content(q)
<1>1. /\ disk' = [p \in PageIds |->
                    IF InCache(p) /\ is_dirty[busy_map[p]] THEN buf[busy_map[p]] ELSE disk[p]]
      /\ is_dirty' = [f \in Frames |-> is_dirty[f] /\ f \notin ToSet(busy_pages)]
      /\ free_pages' = free_pages \o busy_pages
      /\ busy_pages' = << >> /\ busy_map' = << >>
      /\ page_id' = page_id /\ buf' = buf
  BY DEF FlushAll
<1>2. /\ busy_pages \in Seq(Frames) /\ IsInjective(busy_pages)
      /\ free_pages \in Seq(Frames) /\ IsInjective(free_pages)
      /\ ToSet(busy_pages) \cap ToSet(free_pages) = {}
      /\ ToSet(busy_pages) \cup ToSet(free_pages) = Frames
  BY DEF PoolOK, PoolTypes, PoolPartition
<1>3. /\ free_pages' \in Seq(Frames) /\ Len(free_pages') = Len(free_pages) + Len(busy_pages)
      /\ ToSet(free_pages') = ToSet(free_pages) \cup ToSet(busy_pages) /\ IsInjective(free_pages')
  BY <1>1, <1>2, ConcatFacts
<1>4. ASSUME NEW q \in PageIds
      PROVE  disk'[q] = Content(q) /\ Content(q) \in Value
  <2>1. CASE InCache(q) /\ ~is_dirty[busy_map[q]]
    BY <1>1, <2>1 DEF Content, PoolOK, CleanOnDisk, InCache, PoolTypes
  <2>2. CASE InCache(q) /\ is_dirty[busy_map[q]]
    BY <1>1, <2>2 DEF Content, InCache, PoolOK, PoolTypes
  <2>3. CASE ~InCache(q)
    BY <1>1, <2>3 DEF Content, PoolOK, PoolTypes
  <2>. QED  BY <2>1, <2>2, <2>3
<1>5. DOMAIN busy_map' = {} /\ ToSet(busy_pages') = {} /\ Len(busy_pages') = 0
  BY <1>1 DEF ToSet
<1>6. PoolOK'
  <2>1. PoolTypes'
    <3>1. disk' \in [PageIds -> Value]
      BY <1>1, <1>4
    <3>2. is_dirty' \in [Frames -> BOOLEAN]
      BY <1>1
    <3>3. Len(busy_pages') + Len(free_pages') = Cardinality(Frames)
      BY <1>2, <1>3, <1>5 DEF PoolOK, PoolTypes
    <3>4. busy_map' \in [DOMAIN busy_map' -> Frames] /\ busy_pages' \in Seq(Frames)
      BY <1>1
    <3>. QED  BY <1>1, <1>3, <1>5, <3>1, <3>2, <3>3, <3>4 DEF PoolOK, PoolTypes
  <2>2. PoolPartition'
    BY <1>1, <1>2, <1>3, <1>5 DEF PoolPartition, IsInjective
  <2>3. MapOK' /\ CleanOnDisk'
    BY <1>5 DEF MapOK, CleanOnDisk
  <2>. QED  BY <2>1, <2>2, <2>3 DEF PoolOK
<1>7. \A q \in PageIds : Content(q)' = Content(q)
  BY <1>4, <1>5 DEF Content, InCache
<1>. QED  BY <1>6, <1>7

-----------------------------------------------------------------------------
(* The pointers.                                                           *)

HandleTypes ==
  /\ flushing \in Fds \cup {NoFd}
  /\ held \in [Holder -> PageIds \cup {NoPage}]
  /\ ptr \in [Holder -> Frames \cup {NoFrame}]
  /\ since \in [Holder -> SUBSET PageIds]
  /\ \A h \in Holder : IsFiniteSet(since[h])

\* The frame f holds page p, behind frames of pages in A only.
Safe(p, f, A) ==
  /\ InCache(p)
  /\ busy_map[p] = f
  /\ \A g \in Frames : Before(busy_pages, g, f) => page_id[g] \in A

\* HandleStable and RecencyBound together, which keep each other.
HandlesSafe ==
  \A h \in Holder : held[h] # NoPage /\ Fresh(h) => Safe(held[h], ptr[h], since[h])

\* Nobody points into the file that is being flushed.
FlushedUnused ==
  \A h \in Holder : flushing # NoFd /\ held[h] # NoPage => FdOf(held[h]) # flushing

\* What holds between any two calls, and between two rounds of flush_file.
PoolSafe == PoolOK /\ HandleTypes /\ HandlesSafe /\ FlushedUnused

\* Why the least recently used order protects a pointer: if everything else is
\* ahead of it, and everything ahead was asked for after it, then it is not
\* fresh once one more page is asked for.
LEMMA LastIsStale ==
  ASSUME PoolOK, NEW p \in PageIds, ~InCache(p),
         NEW f \in Frames, NEW A \in SUBSET PageIds, IsFiniteSet(A),
         \A g \in Frames \ {f} : Before(busy_pages, g, f),
         \A g \in Frames : Before(busy_pages, g, f) => page_id[g] \in A
  PROVE  ~(Cardinality(A \cup {p}) < Cardinality(Frames))
<1>. DEFINE B == A \cup {p}
            m == [g \in Frames |-> IF g = f THEN p ELSE page_id[g]]
<1>1. ASSUME NEW g \in Frames \ {f}
      PROVE  page_id[g] \in A /\ page_id[g] \in DOMAIN busy_map /\ busy_map[page_id[g]] = g
  <2>1. g \in ToSet(busy_pages)
    BY BeforeElements DEF PoolOK, PoolTypes
  <2>. QED  BY <2>1 DEF PoolOK, MapOK
<1>2. m \in [Frames -> B]
  BY <1>1
<1>3. ASSUME NEW g \in Frames, NEW h \in Frames, m[g] = m[h]
      PROVE  g = h
  BY <1>1, <1>3 DEF InCache
<1>4. m \in Injection(Frames, B)
  BY <1>2, <1>3 DEF Injection, IsInjective
<1>5. IsFiniteSet(B) /\ Cardinality(B) \in Nat
  BY FS_AddElement, FS_CardinalityType
<1>6. Cardinality(Frames) <= Cardinality(B)
  <2>. HIDE DEF m, B
  <2>. QED  BY <1>4, <1>5, FS_Injection
<1>. QED  BY <1>5, <1>6, FramesCounted

LEMMA InitSafe == Init => PoolSafe
<1>. SUFFICES ASSUME Init PROVE PoolSafe
  OBVIOUS
<1>. USE DEF Init
<1>. DEFINE n == Cardinality(Frames)
<1>1. /\ n \in Nat /\ free_pages \in [1..n -> Frames]
      /\ \A i, j \in 1..n : free_pages[i] = free_pages[j] => i = j
  BY FramesCounted
<1>2. free_pages \in Seq(Frames) /\ Len(free_pages) = n
  BY <1>1
<1>3. ToSet(free_pages) = Frames
  <2>1. free_pages \in Injection(1..n, Frames)
    BY <1>1 DEF Injection, IsInjective
  <2>2. Cardinality(1..n) = n
    BY <1>1, FS_Interval
  <2>3. free_pages \in Surjection(1..n, Frames)
    BY <2>1, <2>2, FramesAssumption, FS_Injection
  <2>. QED  BY <2>3 DEF Surjection, ToSet
<1>4. PoolTypes
  BY <1>1, <1>2 DEF PoolTypes
<1>5. PoolPartition
  BY <1>1, <1>2, <1>3 DEF PoolPartition, ToSet, IsInjective
<1>6. MapOK /\ CleanOnDisk
  BY DEF MapOK, CleanOnDisk, ToSet
<1>7. HandleTypes
  BY FS_EmptySet DEF HandleTypes
<1>. QED
  BY <1>4, <1>5, <1>6, <1>7 DEF PoolSafe, PoolOK, HandlesSafe, FlushedUnused

LEMMA GetPageShows ==
  ASSUME PoolOK, NEW h \in Holder, NEW p \in PageIds, NEW exists \in BOOLEAN,
         GetPage(h, p, exists)
  PROVE  PoolOK' /\ Shown(p) /\ (exists => Content(p)' = Content(p))
BY HitShows, MissFreeShows, MissFullShows DEF GetPage

LEMMA GetPageSafe ==
  ASSUME PoolSafe, NEW h \in Holder, NEW p \in PageIds, NEW exists \in BOOLEAN,
         GetPage(h, p, exists)
  PROVE  PoolSafe'
<1>1. PoolOK /\ PoolOK' /\ Shown(p)
  BY GetPageShows DEF PoolSafe
<1>. DEFINE f == busy_map'[p]
<1>2. /\ flushing = NoFd /\ flushing' = flushing
      /\ held' = [held EXCEPT ![h] = p]
      /\ ptr' = [ptr EXCEPT ![h] = f]
      /\ since' = [g \in Holder |->
                     IF g = h THEN {}
                     ELSE IF held[g] \in {NoPage, p} THEN since[g]
                     ELSE since[g] \cup {p}]
  BY DEF GetPage, CacheSemFree, loop
<1>3. /\ p \in DOMAIN busy_map' /\ f \in Frames
      /\ page_id' = [page_id EXCEPT ![f] = p]
      /\ \A g \in Frames : ~Before(busy_pages', g, f)
  BY <1>1 DEF Shown, PoolOK, PoolTypes
<1>. HIDE DEF f
<1>4. HandleTypes'
  <2>1. ASSUME NEW g \in Holder
        PROVE  since'[g] \in SUBSET PageIds /\ IsFiniteSet(since'[g])
    <3>1. since[g] \in SUBSET PageIds /\ IsFiniteSet(since[g])
      BY DEF PoolSafe, HandleTypes
    <3>2. IsFiniteSet({}) /\ IsFiniteSet(since[g] \cup {p})
      BY <3>1, FS_EmptySet, FS_AddElement
    <3>. QED  BY <1>2, <3>1, <3>2
  <2>2. since' \in [Holder -> SUBSET PageIds]
    BY <1>2, <2>1
  <2>. QED  BY <1>2, <1>3, <2>1, <2>2 DEF PoolSafe, HandleTypes
<1>5. FlushedUnused'
  BY <1>2 DEF FlushedUnused
<1>6. ASSUME NEW g \in Holder, held'[g] # NoPage, Fresh(g)'
      PROVE  Safe(held[g], ptr[g], since[g])' 
  <2>1. CASE g = h
    <3>1. held'[g] = p /\ ptr'[g] = f
      BY <1>2, <2>1 DEF PoolSafe, HandleTypes
    <3>. QED  BY <1>3, <3>1 DEF Safe, InCache, f
  <2>2. CASE g # h /\ held[g] = p
    <3>1. held'[g] = p /\ ptr'[g] = ptr[g] /\ since'[g] = since[g]
      BY <1>2, <2>2 DEF PoolSafe, HandleTypes
    <3>2. InCache(p) /\ busy_map[p] = ptr[g]
      BY <1>6, <2>2, <3>1 DEF PoolSafe, HandlesSafe, Fresh, Safe
    <3>3. f = ptr[g]
      BY <1>1, <3>2 DEF Shown, f
    <3>. QED  BY <1>3, <3>1, <3>3 DEF Safe, InCache, f
  <2>3. CASE g # h /\ held[g] # p
    <3>. DEFINE q == held[g]
    <3>1. /\ held'[g] = q /\ ptr'[g] = ptr[g] /\ since'[g] = since[g] \cup {p}
          /\ q # NoPage /\ q \in PageIds
          /\ since[g] \in SUBSET PageIds /\ IsFiniteSet(since[g])
      BY <1>2, <1>6, <2>3 DEF PoolSafe, HandleTypes
    <3>2. Fresh(g)
      <4>1. /\ Cardinality(since[g]) \in Nat
            /\ Cardinality(since[g] \cup {p}) \in {Cardinality(since[g]), Cardinality(since[g]) + 1}
        BY <3>1, FS_AddElement, FS_CardinalityType
      <4>. QED  BY <1>6, <3>1, <4>1, FramesCounted DEF Fresh
    <3>3. Safe(q, ptr[g], since[g])
      BY <3>1, <3>2 DEF PoolSafe, HandlesSafe
    <3>4. q \in DOMAIN busy_map \ {p} /\ busy_map[q] = ptr[g] /\ ptr[g] \in Frames
      BY <1>1, <2>3, <3>3 DEF Safe, InCache, PoolOK, PoolTypes
    <3>5. ~(~InCache(p) /\ \A x \in Frames \ {ptr[g]} : Before(busy_pages, x, ptr[g]))
      <4>. SUFFICES ASSUME ~InCache(p), \A x \in Frames \ {ptr[g]} : Before(busy_pages, x, ptr[g])
                    PROVE  FALSE
        OBVIOUS
      <4>1. ~(Cardinality(since[g] \cup {p}) < Cardinality(Frames))
        BY <1>1, <3>1, <3>3, <3>4, LastIsStale DEF Safe
      <4>. QED  BY <1>6, <3>1, <4>1 DEF Fresh
    <3>6. /\ q \in DOMAIN busy_map'
          /\ busy_map'[q] = ptr[g]
          /\ \A x \in Frames :
               Before(busy_pages', x, ptr[g]) => x = f \/ Before(busy_pages, x, ptr[g])
      BY <1>1, <3>4, <3>5 DEF Shown, f
    <3>7. ASSUME NEW x \in Frames, Before(busy_pages', x, ptr[g])
          PROVE  page_id'[x] \in since'[g]
      <4>1. page_id \in [Frames -> PageIds \cup {NoPage}]
        BY <1>1 DEF PoolOK, PoolTypes
      <4>2. CASE x = f
        BY <1>3, <3>1, <4>1, <4>2
      <4>3. CASE x # f
        BY <1>3, <3>1, <3>3, <3>6, <3>7, <4>1, <4>3 DEF Safe
      <4>. QED  BY <4>2, <4>3
    <3>. QED  BY <3>1, <3>6, <3>7 DEF Safe, InCache
  <2>. QED  BY <2>1, <2>2, <2>3
<1>. QED
  BY <1>1, <1>4, <1>5, <1>6 DEF PoolSafe, HandlesSafe

\* Writing through a fresh pointer writes the page it stands for.
LEMMA WriteShows ==
  ASSUME PoolSafe, NEW h \in Holder, NEW v \in Value, WritePage(h, v),
         NEW p, held[h] = p
  PROVE  /\ PoolOK'
         /\ UNCHANGED <<busy_pages, busy_map, page_id>>
         /\ Content(p)' = v
         /\ \A q \in PageIds \ {p} : Content(q)' = Content(q)
<1>. DEFINE f == ptr[h]
<1>1. InCache(p) /\ busy_map[p] = f /\ p \in PageIds /\ f \in Frames
  BY DEF PoolSafe, HandlesSafe, Safe, WritePage, InCache, PoolOK, PoolTypes
<1>2. /\ buf' = [buf EXCEPT ![f] = v]
      /\ is_dirty' = [is_dirty EXCEPT ![f] = TRUE]
      /\ UNCHANGED <<busy_pages, free_pages, busy_map, page_id, disk>>
  BY DEF WritePage
<1>. HIDE DEF f
<1>3. /\ buf' \in [Frames -> Value] /\ is_dirty' \in [Frames -> BOOLEAN] /\ is_dirty'[f]
      /\ buf'[f] = v
      /\ \A g \in Frames \ {f} : buf'[g] = buf[g] /\ is_dirty'[g] = is_dirty[g]
  BY <1>1, <1>2 DEF PoolSafe, PoolOK, PoolTypes
<1>4. \A q \in DOMAIN busy_map \ {p} : busy_map[q] \in Frames \ {f}
  <2>1. \A q \in DOMAIN busy_map : busy_map[q] \in Frames /\ page_id[busy_map[q]] = q
    BY DEF PoolSafe, PoolOK, MapOK, PoolTypes
  <2>. QED  BY <1>1, <2>1 DEF InCache
<1>5. PoolOK'
  <2>1. PoolTypes' /\ PoolPartition' /\ MapOK'
    BY <1>2, <1>3 DEF PoolSafe, PoolOK, PoolTypes, PoolPartition, MapOK
  <2>2. CleanOnDisk'
    BY <1>1, <1>2, <1>3, <1>4 DEF PoolSafe, PoolOK, CleanOnDisk
  <2>. QED  BY <2>1, <2>2 DEF PoolOK
<1>6. Content(p)' = v
  BY <1>1, <1>2, <1>3 DEF Content, InCache
<1>7. \A q \in PageIds \ {p} : Content(q)' = Content(q)
  BY <1>2, <1>3, <1>4 DEF Content, InCache
<1>. QED  BY <1>2, <1>5, <1>6, <1>7

LEMMA WritePageSafe ==
  ASSUME PoolSafe, NEW h \in Holder, NEW v \in Value, WritePage(h, v)
  PROVE  PoolSafe'
<1>1. PoolOK' /\ UNCHANGED <<busy_pages, busy_map, page_id, flushing, handles>>
  BY WriteShows DEF WritePage, loop
<1>. QED
  BY <1>1 DEF PoolSafe, HandleTypes, HandlesSafe, FlushedUnused, Fresh, Safe, InCache, handles

\* A pool that is left alone stays what it is.
LEMMA PoolUntouched ==
  ASSUME PoolOK, UNCHANGED <<pool, disk>>
  PROVE  /\ PoolOK'
         /\ UNCHANGED <<busy_pages, busy_map, page_id>>
         /\ \A q : Content(q)' = Content(q)
BY DEF pool, PoolOK, PoolTypes, PoolPartition, MapOK, CleanOnDisk, Content, InCache

LEMMA ReleaseSafe ==
  ASSUME PoolSafe, NEW h \in Holder, Release(h)
  PROVE  PoolSafe'
<1>1. PoolOK' /\ UNCHANGED <<busy_pages, busy_map, page_id>>
  BY PoolUntouched DEF PoolSafe, Release
<1>2. /\ held' = [held EXCEPT ![h] = NoPage]
      /\ ptr' = [ptr EXCEPT ![h] = NoFrame]
      /\ since' = [since EXCEPT ![h] = {}]
      /\ flushing' = flushing
  BY DEF Release, loop
<1>3. HandleTypes'
  BY <1>2, FS_EmptySet DEF PoolSafe, HandleTypes
<1>4. HandlesSafe' /\ FlushedUnused'
  BY <1>1, <1>2
     DEF PoolSafe, HandleTypes, HandlesSafe, FlushedUnused, Fresh, Safe, InCache
<1>. QED  BY <1>1, <1>3, <1>4 DEF PoolSafe

\* Flushing the frame of one page leaves the pointers to the others safe.
LEMMA FlushSafe ==
  ASSUME PoolOK, NEW f, Flushed(f),
         NEW p, p # page_id[f], NEW g \in Frames, NEW A, Safe(p, g, A)
  PROVE  Safe(p, g, A)'
BY DEF Flushed, Safe, InCache

LEMMA FlushFileBeginSafe ==
  ASSUME PoolSafe, NEW fd \in Fds, FlushFileBegin(fd)
  PROVE  PoolSafe'
<1>1. PoolOK' /\ UNCHANGED <<busy_pages, busy_map, page_id, handles>>
  BY PoolUntouched DEF PoolSafe, FlushFileBegin
<1>. QED
  BY <1>1 DEF FlushFileBegin, PoolSafe, HandleTypes, HandlesSafe, FlushedUnused, Fresh, Safe,
              InCache, handles

\* The iterator of flush_file is at a busy frame or at the end of the list, and the
\* frames that hold a page of the file are where it is or behind it.
Ahead(f) == it_page # NoFrame /\ (f = it_page \/ Before(busy_pages, it_page, f))

WalkOK ==
  /\ it_page \in ToSet(busy_pages) \cup {NoFrame}
  /\ flushing = NoFd => it_page = NoFrame
  /\ flushing # NoFd =>
       \A f \in ToSet(busy_pages) : FdOf(page_id[f]) = flushing => Ahead(f)

\* What one round of flush_file does to the pool.
LEMMA FlushFileStepShows ==
  ASSUME PoolOK, WalkOK, FlushFileStep
  PROVE  /\ it_page \in ToSet(busy_pages) /\ it_page \in Frames
         /\ IF FdOf(page_id[it_page]) = flushing
            THEN Flushed(it_page) /\ busy_pages' = RemoveAt(busy_pages, PositionOf(it_page))
            ELSE UNCHANGED <<pool, disk>>
         /\ PoolOK'
         /\ \A q \in PageIds : Content(q)' = Content(q)
<1>1. it_page \in ToSet(busy_pages) /\ it_page \in Frames
  BY DEF FlushFileStep, WalkOK, PoolOK, PoolPartition
<1>2. PositionOf(it_page) \in 1..Len(busy_pages) /\ busy_pages[PositionOf(it_page)] = it_page
  BY <1>1, PositionFound
<1>3. CASE FdOf(page_id[it_page]) = flushing
  <2>1. Flush(PositionOf(it_page))
    BY <1>3 DEF FlushFileStep, FlushIfOfFile
  <2>2. PoolOK' /\ Flushed(it_page)
    BY <1>2, <2>1, FlushKeeps
  <2>3. busy_pages' = RemoveAt(busy_pages, PositionOf(it_page))
    BY <2>1 DEF Flush
  <2>. QED  BY <1>1, <1>3, <2>2, <2>3 DEF Flushed
<1>4. CASE FdOf(page_id[it_page]) # flushing
  <2>1. UNCHANGED <<pool, disk>>
    BY <1>4 DEF FlushFileStep, FlushIfOfFile
  <2>. QED  BY <1>1, <1>4, <2>1, PoolUntouched
<1>. QED  BY <1>3, <1>4

LEMMA FlushFileStepSafe ==
  ASSUME PoolSafe, WalkOK, FlushFileStep
  PROVE  PoolSafe'
<1>1. PoolOK' /\ flushing # NoFd /\ UNCHANGED <<flushing, handles>>
  BY FlushFileStepShows DEF PoolSafe, FlushFileStep
<1>2. ASSUME NEW h \in Holder, held[h] # NoPage, Fresh(h)
      PROVE  Safe(held[h], ptr[h], since[h])'
  <2>1. Safe(held[h], ptr[h], since[h]) /\ ptr[h] \in Frames
    BY <1>2 DEF PoolSafe, HandlesSafe, Safe, InCache, PoolOK, PoolTypes
  <2>2. CASE FdOf(page_id[it_page]) = flushing
    <3>1. Flushed(it_page) /\ it_page \in Frames
      BY <2>2, FlushFileStepShows DEF PoolSafe
    <3>2. held[h] # page_id[it_page]
      BY <1>1, <1>2, <2>2 DEF PoolSafe, FlushedUnused
    <3>3. /\ held[h] \in DOMAIN busy_map' /\ busy_map'[held[h]] = ptr[h]
          /\ \A g \in Frames : Before(busy_pages', g, ptr[h]) => page_id'[g] \in since[h]
      BY <2>1, <3>1, <3>2 DEF Flushed, Safe, InCache
    <3>. QED  BY <1>1, <3>3 DEF Safe, InCache, handles
  <2>3. CASE FdOf(page_id[it_page]) # flushing
    <3>1. UNCHANGED <<busy_pages, busy_map, page_id>>
      BY <2>3, FlushFileStepShows DEF PoolSafe, pool
    <3>. QED  BY <1>1, <2>1, <3>1 DEF Safe, InCache, handles
  <2>. QED  BY <2>2, <2>3
<1>. QED
  BY <1>1, <1>2 DEF PoolSafe, HandleTypes, HandlesSafe, FlushedUnused, Fresh, handles

LEMMA FlushFileEndSafe ==
  ASSUME PoolSafe, FlushFileEnd
  PROVE  PoolSafe'
<1>1. PoolOK' /\ UNCHANGED <<busy_pages, busy_map, page_id, handles>>
  BY PoolUntouched DEF PoolSafe, FlushFileEnd
<1>. QED
  BY <1>1 DEF FlushFileEnd, PoolSafe, HandleTypes, HandlesSafe, FlushedUnused, Fresh, Safe,
              InCache, handles

LEMMA FlushPageShows ==
  ASSUME PoolSafe, NEW h \in Holder, FlushPage(h)
  PROVE  PoolOK' /\ Flushed(ptr[h]) /\ page_id[ptr[h]] = held[h]
<1>1. InCache(held[h]) /\ busy_map[held[h]] = ptr[h]
  BY DEF FlushPage, PoolSafe, HandlesSafe, Safe
<1>2. ptr[h] \in ToSet(busy_pages) /\ page_id[ptr[h]] = held[h]
  BY <1>1 DEF InCache, PoolSafe, PoolOK, MapOK
<1>3. PositionOf(ptr[h]) \in 1..Len(busy_pages) /\ busy_pages[PositionOf(ptr[h])] = ptr[h]
  BY <1>2, PositionFound DEF PoolSafe
<1>4. PoolOK' /\ Flushed(busy_pages[PositionOf(ptr[h])])
  BY <1>3, FlushKeeps DEF FlushPage, PoolSafe
<1>. QED  BY <1>2, <1>3, <1>4

LEMMA FlushPageSafe ==
  ASSUME PoolSafe, NEW h \in Holder, FlushPage(h)
  PROVE  PoolSafe'
<1>1. PoolOK' /\ Flushed(ptr[h]) /\ page_id[ptr[h]] = held[h]
  BY FlushPageShows
<1>2. /\ held' = [held EXCEPT ![h] = NoPage]
      /\ ptr' = [ptr EXCEPT ![h] = NoFrame]
      /\ since' = [since EXCEPT ![h] = {}]
      /\ flushing' = flushing
      /\ \A g \in Holder \ {h} : held[g] # held[h]
  BY DEF FlushPage, loop
<1>3. HandleTypes'
  BY <1>2, FS_EmptySet DEF PoolSafe, HandleTypes
<1>4. FlushedUnused'
  BY <1>2 DEF PoolSafe, HandleTypes, FlushedUnused
<1>5. ASSUME NEW g \in Holder, held'[g] # NoPage, Fresh(g)'
      PROVE  Safe(held[g], ptr[g], since[g])'
  <2>1. /\ g # h /\ held'[g] = held[g] /\ ptr'[g] = ptr[g] /\ since'[g] = since[g]
    BY <1>2, <1>5 DEF PoolSafe, HandleTypes
  <2>2. Safe(held[g], ptr[g], since[g])
    BY <1>5, <2>1 DEF Fresh, PoolSafe, HandlesSafe
  <2>3. ptr[g] \in Frames
    BY <2>2 DEF Safe, InCache, PoolSafe, PoolOK, PoolTypes
  <2>4. /\ held[g] \in DOMAIN busy_map' /\ busy_map'[held[g]] = ptr[g]
        /\ \A x \in Frames : Before(busy_pages', x, ptr[g]) => page_id'[x] \in since[g]
    BY <1>1, <1>2, <2>1, <2>2, <2>3 DEF Flushed, Safe, InCache
  <2>. QED  BY <2>1, <2>4 DEF Safe, InCache
<1>. QED  BY <1>1, <1>3, <1>4, <1>5 DEF PoolSafe, HandlesSafe

LEMMA FlushAllSafe ==
  ASSUME PoolSafe, FlushAll
  PROVE  PoolSafe'
<1>1. PoolOK'
  BY FlushAllKeeps DEF PoolSafe
<1>2. UNCHANGED <<flushing, handles>> /\ \A h \in Holder : held[h] = NoPage
  BY DEF FlushAll, loop
<1>. QED
  BY <1>1, <1>2 DEF PoolSafe, HandleTypes, HandlesSafe, FlushedUnused, handles

LEMMA NextSafe ==
  ASSUME PoolSafe, WalkOK, [Next]_vars
  PROVE  PoolSafe'
<1>1. ASSUME NEW h \in Holder, NEW p \in PageIds, FetchPage(h, p) \/ CreatePage(h, p)
      PROVE  PoolSafe'
  BY <1>1, GetPageSafe DEF FetchPage, CreatePage
<1>2. ASSUME NEW h \in Holder, NEW v \in Value, WritePage(h, v)
      PROVE  PoolSafe'
  BY <1>2, WritePageSafe
<1>3. ASSUME NEW h \in Holder, Release(h) \/ FlushPage(h)
      PROVE  PoolSafe'
  BY <1>3, ReleaseSafe, FlushPageSafe
<1>4. ASSUME NEW fd \in Fds, FlushFileBegin(fd)
      PROVE  PoolSafe'
  BY <1>4, FlushFileBeginSafe
<1>5. CASE FlushFileStep \/ FlushFileEnd \/ FlushAll
  BY <1>5, FlushFileStepSafe, FlushFileEndSafe, FlushAllSafe
<1>6. CASE UNCHANGED vars
  <2>1. PoolOK' /\ UNCHANGED <<busy_pages, busy_map, page_id, flushing, handles>>
    BY <1>6, PoolUntouched DEF PoolSafe, vars, loop
  <2>. QED
    BY <2>1 DEF PoolSafe, HandleTypes, HandlesSafe, FlushedUnused, Fresh, Safe, InCache, handles
<1>. QED  BY <1>1, <1>2, <1>3, <1>4, <1>5, <1>6 DEF Next

-----------------------------------------------------------------------------
(* The walk of flush_file.                                                 *)

\* The first element of a list comes before all the others.
LEMMA HeadOrder ==
  ASSUME NEW S, NEW s \in Seq(S), NEW f \in ToSet(s)
  PROVE  s # << >> /\ Head(s) \in ToSet(s) /\ (f = Head(s) \/ Before(s, Head(s), f))
<1>1. PICK a \in 1..Len(s) : s[a] = f
  BY Elements
<1>2. s # << >> /\ Head(s) = s[1] /\ 1 \in 1..Len(s)
  BY <1>1
<1>3. CASE a = 1
  BY <1>1, <1>2, <1>3, Elements
<1>4. CASE a # 1
  <2>1. 1 \in 1..(a - 1)
    BY <1>4
  <2>. QED  BY <1>1, <1>2, <2>1, Elements DEF Before
<1>. QED  BY <1>3, <1>4

\* The element after the i-th.
LEMMA AfterFacts ==
  ASSUME NEW S, NEW s \in Seq(S), IsInjective(s), NEW i \in 1..Len(s)
  PROVE  After(s, s[i]) = IF i = Len(s) THEN NoFrame ELSE s[i + 1]
<1>. DEFINE next == {k \in 2 .. Len(s) : s[k - 1] = s[i]}
<1>1. \A k \in 2 .. Len(s) : s[k - 1] = s[i] <=> k = i + 1
  BY DEF IsInjective
<1>2. CASE i = Len(s)
  <2>1. next = {}
    BY <1>1, <1>2
  <2>. QED  BY <1>2, <2>1 DEF After
<1>3. CASE i # Len(s)
  <2>1. next = {i + 1}
    BY <1>1, <1>3
  <2>2. (CHOOSE k \in next : TRUE) = i + 1 /\ next # {}
    BY <2>1
  <2>. QED  BY <1>3, <2>2 DEF After
<1>. QED  BY <1>2, <1>3

\* What comes after an element is it or behind it; when there is none the element was the last.
LEMMA AfterOrder ==
  ASSUME NEW S, NEW s \in Seq(S), IsInjective(s), NoFrame \notin S,
         NEW e \in ToSet(s), NEW f \in ToSet(s)
  PROVE  /\ After(s, e) \in (ToSet(s) \ {e}) \cup {NoFrame}
         /\ Before(s, e, f) =>
              After(s, e) # NoFrame /\ (f = After(s, e) \/ Before(s, After(s, e), f))
<1>1. PICK i \in 1..Len(s) : s[i] = e
  BY Elements
<1>2. After(s, e) = IF i = Len(s) THEN NoFrame ELSE s[i + 1]
  BY <1>1, AfterFacts
<1>3. \A a, b \in 1..Len(s) : s[a] = s[b] => a = b
  BY DEF IsInjective
<1>4. After(s, e) \in (ToSet(s) \ {e}) \cup {NoFrame}
  <2>1. CASE i # Len(s)
    <3>1. i + 1 \in 1..Len(s) /\ i + 1 # i
      BY <2>1
    <3>2. s[i + 1] \in ToSet(s) /\ s[i + 1] # e
      BY <1>1, <1>3, <3>1, Elements
    <3>. QED  BY <1>2, <2>1, <3>2
  <2>. QED  BY <1>2, <2>1
<1>5. ASSUME Before(s, e, f)
      PROVE  After(s, e) # NoFrame /\ (f = After(s, e) \/ Before(s, After(s, e), f))
  <2>1. PICK a \in 1..Len(s) : \E b \in 1..(a - 1) : s[a] = f /\ s[b] = e
    BY <1>5 DEF Before
  <2>2. PICK b \in 1..(a - 1) : s[a] = f /\ s[b] = e
    BY <2>1
  <2>3. b = i
    BY <1>1, <1>3, <2>2
  <2>4. i # Len(s) /\ i + 1 \in 1..Len(s) /\ i + 1 <= a
    BY <2>2, <2>3
  <2>5. After(s, e) = s[i + 1] /\ s[i + 1] \in S
    BY <1>2, <2>4
  <2>6. CASE a = i + 1
    BY <2>2, <2>5, <2>6
  <2>7. CASE a # i + 1
    <3>1. i + 1 \in 1..(a - 1)
      BY <2>4, <2>7
    <3>. QED  BY <2>2, <2>5, <3>1 DEF Before
  <2>. QED  BY <2>5, <2>6, <2>7
<1>. QED  BY <1>4, <1>5

\* Taking an element out of a list leaves the others in their order.
LEMMA RemoveAtKeepsOrder ==
  ASSUME NEW S, NEW s \in Seq(S), IsInjective(s), NEW i \in 1..Len(s),
         NEW f, NEW g, f # s[i], g # s[i], Before(s, g, f)
  PROVE  Before(RemoveAt(s, i), g, f)
<1>. DEFINE t == RemoveAt(s, i)
<1>1. /\ t \in Seq(S) /\ Len(t) = Len(s) - 1
      /\ \A k \in 1..(Len(s) - 1) : t[k] = IF k < i THEN s[k] ELSE s[k + 1]
  BY RemoveAtFacts
<1>. HIDE DEF t
<1>2. PICK a \in 1..Len(s) : \E b \in 1..(a - 1) : s[a] = f /\ s[b] = g
  BY DEF Before
<1>3. PICK b \in 1..(a - 1) : s[a] = f /\ s[b] = g
  BY <1>2
<1>4. a # i /\ b # i
  BY <1>3
<1>. DEFINE new(k) == IF k < i THEN k ELSE k - 1
<1>5. new(a) \in 1..Len(t) /\ new(b) \in 1..(new(a) - 1)
  BY <1>1, <1>3, <1>4
<1>6. t[new(a)] = f
  BY <1>1, <1>3, <1>4, <1>5
<1>7. t[new(b)] = g
  BY <1>1, <1>3, <1>4, <1>5
<1>. QED  BY <1>5, <1>6, <1>7 DEF Before, t

LEMMA FlushFileBeginWalks ==
  ASSUME PoolOK, NEW fd \in Fds, FlushFileBegin(fd)
  PROVE  WalkOK'
<1>1. /\ busy_pages' = busy_pages /\ page_id' = page_id /\ busy_pages \in Seq(Frames)
      /\ it_page' = IF busy_pages = << >> THEN NoFrame ELSE Head(busy_pages)
      /\ flushing' # NoFd
  BY SentinelAssumption DEF FlushFileBegin, pool, PoolOK, PoolTypes
<1>2. ASSUME NEW f \in ToSet(busy_pages)
      PROVE  Ahead(f)'
  <2>1. busy_pages # << >> /\ Head(busy_pages) \in ToSet(busy_pages)
        /\ (f = Head(busy_pages) \/ Before(busy_pages, Head(busy_pages), f))
    BY <1>1, HeadOrder
  <2>2. Head(busy_pages) \in Frames
    BY <2>1 DEF PoolOK, PoolPartition
  <2>. QED  BY <1>1, <2>1, <2>2, SentinelAssumption DEF Ahead
<1>3. it_page' \in ToSet(busy_pages) \cup {NoFrame}
  <2>1. CASE busy_pages # << >>
    <3>1. 1 \in 1..Len(busy_pages) /\ Head(busy_pages) = busy_pages[1]
      BY <1>1, <2>1
    <3>. QED  BY <1>1, <3>1, Elements
  <2>. QED  BY <1>1, <2>1
<1>. QED  BY <1>1, <1>2, <1>3 DEF WalkOK

LEMMA FlushFileStepWalks ==
  ASSUME PoolOK, WalkOK, FlushFileStep
  PROVE  WalkOK'
<1>. DEFINE e == it_page
            i == PositionOf(e)
<1>1. /\ flushing # NoFd /\ flushing' = flushing
      /\ it_page' = After(busy_pages, e)
  BY DEF FlushFileStep
<1>2. busy_pages \in Seq(Frames) /\ IsInjective(busy_pages) /\ NoFrame \notin Frames
  BY SentinelAssumption DEF PoolOK, PoolTypes, PoolPartition
<1>3. /\ e \in ToSet(busy_pages) /\ e \in Frames
      /\ IF FdOf(page_id[e]) = flushing
         THEN Flushed(e) /\ busy_pages' = RemoveAt(busy_pages, i)
         ELSE UNCHANGED <<pool, disk>>
  BY FlushFileStepShows
<1>4. i \in 1..Len(busy_pages) /\ busy_pages[i] = e
  BY <1>3, PositionFound
<1>5. /\ it_page' \in (ToSet(busy_pages) \ {e}) \cup {NoFrame}
      /\ \A f \in ToSet(busy_pages) :
           Before(busy_pages, e, f) =>
             it_page' # NoFrame /\ (f = it_page' \/ Before(busy_pages, it_page', f))
  BY <1>1, <1>2, <1>3, AfterOrder
<1>6. ASSUME NEW f \in ToSet(busy_pages), FdOf(page_id[f]) = flushing
      PROVE  f = e \/ Before(busy_pages, e, f)
  BY <1>1, <1>6 DEF WalkOK, Ahead
<1>. HIDE DEF e, i
<1>7. CASE FdOf(page_id[e]) = flushing
  <2>1. /\ page_id' = page_id /\ busy_pages' = RemoveAt(busy_pages, i)
        /\ ToSet(busy_pages') = ToSet(busy_pages) \ {e}
    BY <1>2, <1>3, <1>4, <1>7, RemoveAtInjective DEF Flushed
  <2>2. ASSUME NEW f \in ToSet(busy_pages'), FdOf(page_id'[f]) = flushing'
        PROVE  it_page' # NoFrame /\ (f = it_page' \/ Before(busy_pages', it_page', f))
    <3>1. f \in ToSet(busy_pages) /\ f # e /\ Before(busy_pages, e, f)
      BY <1>1, <1>6, <2>1, <2>2
    <3>2. it_page' # NoFrame /\ it_page' # e /\ (f = it_page' \/ Before(busy_pages, it_page', f))
      BY <1>5, <3>1
    <3>3. Before(busy_pages, it_page', f) => Before(busy_pages', it_page', f)
      BY <1>2, <1>4, <2>1, <3>1, <3>2, RemoveAtKeepsOrder
    <3>. QED  BY <3>2, <3>3
  <2>. QED  BY <1>1, <1>5, <2>1, <2>2 DEF WalkOK, Ahead
<1>8. CASE FdOf(page_id[e]) # flushing
  <2>1. page_id' = page_id /\ busy_pages' = busy_pages
    BY <1>3, <1>8 DEF pool
  <2>2. ASSUME NEW f \in ToSet(busy_pages'), FdOf(page_id'[f]) = flushing'
        PROVE  it_page' # NoFrame /\ (f = it_page' \/ Before(busy_pages', it_page', f))
    <3>1. f \in ToSet(busy_pages) /\ Before(busy_pages, e, f)
      BY <1>1, <1>6, <1>8, <2>1, <2>2
    <3>. QED  BY <1>5, <2>1, <3>1
  <2>. QED  BY <1>1, <1>5, <2>1, <2>2 DEF WalkOK, Ahead
<1>. QED  BY <1>7, <1>8

\* Outside flush_file there is no walk.
LEMMA NoWalk ==
  ASSUME it_page = NoFrame, flushing = NoFd, UNCHANGED loop
  PROVE  WalkOK'
BY DEF WalkOK, loop

LEMMA NextWalks ==
  ASSUME PoolOK, WalkOK, [Next]_vars
  PROVE  WalkOK'
<1>1. CASE CacheSemFree /\ UNCHANGED loop
  BY <1>1, NoWalk DEF WalkOK, CacheSemFree
<1>2. CASE UNCHANGED <<busy_pages, page_id, loop>>
  BY <1>2 DEF WalkOK, Ahead, loop
<1>3. ASSUME NEW h \in Holder, (\E p \in PageIds : FetchPage(h, p) \/ CreatePage(h, p)) \/ FlushPage(h)
      PROVE  WalkOK'
  BY <1>1, <1>3 DEF FetchPage, CreatePage, GetPage, FlushPage
<1>4. ASSUME NEW h \in Holder, (\E v \in Value : WritePage(h, v)) \/ Release(h)
      PROVE  WalkOK'
  BY <1>2, <1>4 DEF WritePage, Release, pool
<1>5. ASSUME NEW fd \in Fds, FlushFileBegin(fd)
      PROVE  WalkOK'
  BY <1>5, FlushFileBeginWalks
<1>6. CASE FlushFileStep
  BY <1>6, FlushFileStepWalks
<1>7. CASE FlushFileEnd
  BY <1>7 DEF FlushFileEnd, WalkOK
<1>8. CASE FlushAll
  BY <1>1, <1>8 DEF FlushAll
<1>9. CASE UNCHANGED vars
  BY <1>2, <1>9 DEF vars, pool
<1>. QED  BY <1>3, <1>4, <1>5, <1>6, <1>7, <1>8, <1>9 DEF Next

IInv == PoolSafe /\ WalkOK

LEMMA InitIInv == Init => IInv
<1>1. Init => WalkOK
  BY DEF Init, WalkOK
<1>. QED  BY <1>1, InitSafe DEF IInv

LEMMA NextIInv == IInv /\ [Next]_vars => IInv'
BY NextSafe, NextWalks DEF IInv, PoolSafe

\* The inductive invariant.
LEMMA Invariance == Spec => []IInv
BY InitIInv, NextIInv, PTL DEF Spec

-----------------------------------------------------------------------------
\* The types.
THEOREM TypeCorrect == Spec => []TypeOK
<1>1. IInv => TypeOK
  <2>. SUFFICES ASSUME IInv PROVE TypeOK
    OBVIOUS
  <2>1. Len(busy_pages) + Len(free_pages) <= Cardinality(Frames)
    BY FramesCounted DEF IInv, PoolSafe, PoolOK, PoolTypes
  <2>2. it_page \in Frames \cup {NoFrame}
    BY DEF IInv, WalkOK, PoolSafe, PoolOK, PoolPartition
  <2>. QED  BY <2>1, <2>2 DEF IInv, PoolSafe, PoolOK, PoolTypes, HandleTypes, TypeOK
<1>. QED  BY <1>1, Invariance, PTL

\* No frame of the pool is lost or on a list twice, however get_page, flush_page,
\* flush_file and flush_all take turns.
THEOREM FramesKept == Spec => []PoolPartition
<1>1. IInv => PoolPartition
  BY DEF IInv, PoolSafe, PoolOK
<1>. QED  BY <1>1, Invariance, PTL

\* A page is in one frame at most, and the map finds it there.
THEOREM MapCorrect == Spec => []MapCoherent
<1>1. IInv => MapCoherent
  BY MapCoherence DEF IInv, PoolSafe
<1>. QED  BY <1>1, Invariance, PTL

\* A page that is not dirty can be dropped: the file has it.
THEOREM CleanPagesSaved == Spec => []CleanOnDisk
<1>1. IInv => CleanOnDisk
  BY DEF IInv, PoolSafe, PoolOK
<1>. QED  BY <1>1, Invariance, PTL

\* A pointer that get_page gave out, and that nothing pins, is good until as many
\* other pages have been asked for as the pool has frames.
THEOREM PointersStable == Spec => []HandleStable
<1>1. IInv => HandleStable
  BY DEF IInv, PoolSafe, HandlesSafe, Safe, HandleStable
<1>. QED  BY <1>1, Invariance, PTL

\* The reason: ahead of the frame of such a pointer on the list there are only pages
\* that were asked for since.
THEOREM RecencyKept == Spec => []RecencyBound
<1>1. IInv => RecencyBound
  <2>. SUFFICES ASSUME IInv, NEW h \in Holder, held[h] # NoPage, Fresh(h),
                       NEW i \in DOMAIN busy_pages, busy_pages[i] = ptr[h],
                       NEW k \in 1..(i - 1)
                PROVE  page_id[busy_pages[k]] \in since[h]
    BY DEF RecencyBound
  <2>1. busy_pages \in Seq(Frames) /\ i \in 1..Len(busy_pages) /\ k \in 1..Len(busy_pages)
    BY DEF IInv, PoolSafe, PoolOK, PoolTypes
  <2>2. Before(busy_pages, busy_pages[k], ptr[h]) /\ busy_pages[k] \in Frames
    BY <2>1 DEF Before
  <2>. QED  BY <2>2 DEF IInv, PoolSafe, HandlesSafe, Safe
<1>. QED  BY <1>1, Invariance, PTL

-----------------------------------------------------------------------------
(* flush_file empties the pool of its file.                                *)

\* At the end of the list no page of the file is left: it would be behind the end.
LEMMA EndLeavesNone ==
  ASSUME IInv, FlushFileEnd, NEW p \in DOMAIN busy_map
  PROVE  FdOf(p) # flushing
<1>1. busy_map[p] \in ToSet(busy_pages) /\ page_id[busy_map[p]] = p
  BY DEF IInv, PoolSafe, PoolOK, MapOK
<1>. QED  BY <1>1 DEF IInv, WalkOK, Ahead, FlushFileEnd

\* A round of the loop takes no page of another file.
LEMMA RoundKeepsOthers ==
  ASSUME IInv, FlushFileStep, NEW p \in DOMAIN busy_map, FdOf(p) # flushing
  PROVE  p \in DOMAIN busy_map'
<1>1. IF FdOf(page_id[it_page]) = flushing THEN Flushed(it_page) ELSE UNCHANGED <<pool, disk>>
  BY FlushFileStepShows DEF IInv, PoolSafe
<1>. QED  BY <1>1 DEF Flushed, pool

LEMMA NextEmpties ==
  ASSUME IInv, [Next]_vars, NEW fd \in Fds, flushing = fd
  PROVE  /\ it_page' \in ToSet(busy_pages') \cup {NoFrame}
         /\ \A p \in DOMAIN busy_map : FdOf(p) # fd => p \in DOMAIN busy_map'
         /\ flushing' # fd => \A p \in DOMAIN busy_map : FdOf(p) # fd
<1>1. it_page' \in ToSet(busy_pages') \cup {NoFrame}
  BY NextIInv DEF IInv, WalkOK
<1>2. ~CacheSemFree
  BY SentinelAssumption DEF CacheSemFree
<1>3. CASE FlushFileStep
  BY <1>1, <1>3, RoundKeepsOthers DEF FlushFileStep
<1>4. CASE FlushFileEnd
  BY <1>1, <1>4, EndLeavesNone DEF FlushFileEnd, pool
<1>5. ASSUME NEW h \in Holder, (\E v \in Value : WritePage(h, v)) \/ Release(h)
      PROVE  UNCHANGED <<busy_map, loop>>
  BY <1>5 DEF WritePage, Release, pool
<1>6. CASE UNCHANGED vars
  BY <1>1, <1>6 DEF vars, pool, loop
<1>7. CASE UNCHANGED <<busy_map, loop>>
  BY <1>1, <1>7 DEF loop
<1>. QED
  BY <1>2, <1>3, <1>4, <1>5, <1>6, <1>7
     DEF Next, FetchPage, CreatePage, GetPage, FlushPage, FlushFileBegin, FlushAll

\* When flush_file gives the semaphore back none of its pages is in the pool, and none
\* of another file has been thrown out: its iterator never leaves the busy list, as
\* every frame that is still to be flushed is where it is or behind it.
THEOREM FlushLeavesNothing == Spec => FlushEmpties
<1>1. IInv /\ [Next]_vars =>
        [\A fd \in Fds : flushing = fd =>
           /\ it_page' \in ToSet(busy_pages') \cup {NoFrame}
           /\ \A p \in DOMAIN busy_map : FdOf(p) # fd => p \in DOMAIN busy_map'
           /\ flushing' # fd => \A p \in DOMAIN busy_map : FdOf(p) # fd]_vars
  BY NextEmpties
<1>. QED
  BY <1>1, Invariance, PTL DEF Spec, FlushEmpties

-----------------------------------------------------------------------------
(* The pool implements the store of pages.                                 *)

\* A page has a content, wherever it is.
LEMMA ContentTyped == ASSUME PoolOK, NEW q \in PageIds PROVE Content(q) \in Value
BY DEF PoolOK, PoolTypes, Content, InCache

LEMMA GetPageRefines ==
  ASSUME IInv, NEW h \in Holder, NEW p \in PageIds, NEW exists \in BOOLEAN,
         GetPage(h, p, exists)
  PROVE  IF exists THEN Store!Fetch(h, p) ELSE Store!Create(h, p)
<1>1. /\ PoolOK /\ PoolOK' /\ (exists => Content(p)' = Content(p))
      /\ \A q \in PageIds \ {p} : Content(q)' = Content(q)
  BY GetPageShows DEF IInv, PoolSafe, Shown
<1>2. held' = [held EXCEPT ![h] = p]
  BY DEF GetPage
<1>3. CASE exists = TRUE
  <2>1. \A q \in PageIds : Content(q)' = Content(q)
    BY <1>1, <1>3
  <2>2. [q \in PageIds |-> Content(q)]' = [q \in PageIds |-> Content(q)]
    BY <2>1
  <2>. QED  BY <1>2, <1>3, <2>2 DEF Store!Fetch
<1>4. CASE exists = FALSE
  <2>1. Content(p)' \in Value
    BY <1>1 DEF PoolOK, PoolTypes, Content, InCache
  <2>2. [q \in PageIds |-> Content(q)]'
          = [[q \in PageIds |-> Content(q)] EXCEPT ![p] = Content(p)']
    BY <1>1
  <2>. QED  BY <1>2, <1>4, <2>1, <2>2 DEF Store!Create
<1>. QED  BY <1>3, <1>4

LEMMA WriteRefines ==
  ASSUME IInv, NEW h \in Holder, NEW v \in Value, WritePage(h, v)
  PROVE  Store!Write(h, v)
<1>1. PICK p \in PageIds : held[h] = p
  BY DEF WritePage, IInv, PoolSafe, HandleTypes
<1>2. Content(p)' = v /\ \A q \in PageIds \ {p} : Content(q)' = Content(q)
  BY <1>1, WriteShows DEF IInv
<1>3. held[h] # NoPage /\ held' = held
  BY DEF WritePage, handles
<1>4. [q \in PageIds |-> Content(q)]' = [[q \in PageIds |-> Content(q)] EXCEPT ![p] = v]
  BY <1>2
<1>. QED  BY <1>1, <1>3, <1>4 DEF Store!Write

\* What the callers see of a step that shows no page.
LEMMA ContentKept ==
  ASSUME \A q \in PageIds : Content(q)' = Content(q)
  PROVE  [q \in PageIds |-> Content(q)]' = [q \in PageIds |-> Content(q)]
OBVIOUS

LEMMA NextRefines == IInv /\ [Next]_vars => [Store!Next]_(Store!vars)
<1>. SUFFICES ASSUME IInv, [Next]_vars PROVE Store!Next \/ UNCHANGED Store!vars
  OBVIOUS
<1>1. ASSUME NEW h \in Holder, NEW p \in PageIds, FetchPage(h, p) \/ CreatePage(h, p)
      PROVE  Store!Next
  BY <1>1, GetPageRefines DEF FetchPage, CreatePage, Store!Next
<1>2. ASSUME NEW h \in Holder, NEW v \in Value, WritePage(h, v)
      PROVE  Store!Next
  BY <1>2, WriteRefines DEF Store!Next
<1>3. ASSUME NEW h \in Holder, Release(h) \/ FlushPage(h)
      PROVE  Store!Next
  <2>1. \A q \in PageIds : Content(q)' = Content(q)
    BY <1>3, PoolUntouched, FlushPageShows DEF Release, IInv, PoolSafe, Flushed
  <2>2. held' = [held EXCEPT ![h] = NoPage]
    BY <1>3 DEF Release, FlushPage
  <2>. QED  BY <2>1, <2>2, ContentKept DEF Store!Release, Store!Next
<1>4. CASE \/ \E fd \in Fds : FlushFileBegin(fd)
           \/ FlushFileEnd \/ UNCHANGED vars
  <2>1. \A q \in PageIds : Content(q)' = Content(q)
    BY <1>4, PoolUntouched DEF FlushFileBegin, FlushFileEnd, vars, IInv, PoolSafe
  <2>2. held' = held
    BY <1>4 DEF FlushFileBegin, FlushFileEnd, vars, handles
  <2>. QED  BY <2>1, <2>2, ContentKept DEF Store!vars
<1>5. CASE FlushFileStep \/ FlushAll
  <2>1. \A q \in PageIds : Content(q)' = Content(q)
    BY <1>5, FlushFileStepShows, FlushAllKeeps DEF IInv, PoolSafe, Flushed
  <2>2. held' = held
    BY <1>5 DEF FlushFileStep, FlushAll, handles
  <2>. QED  BY <2>1, <2>2, ContentKept DEF Store!vars
<1>. QED  BY <1>1, <1>2, <1>3, <1>4, <1>5 DEF Next

\* The buffer pool implements the store of pages: whatever is evicted, written
\* back or flushed, in any order, every page reads as it was last written.
THEOREM ImplementsStore == Spec => Implements
<1>1. Init => Store!Init
  <2>. SUFFICES ASSUME Init PROVE Store!Init
    OBVIOUS
  <2>1. IInv
    BY InitIInv
  <2>2. \A q \in PageIds : Content(q) \in Value
    BY <2>1, ContentTyped DEF IInv, PoolSafe
  <2>. QED  BY <2>2 DEF Store!Init, Init
<1>. QED
  BY <1>1, Invariance, NextRefines, PTL DEF Spec, Implements, Store!Spec
=============================================================================
