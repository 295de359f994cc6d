-------------------------- MODULE PageLayout_proofs --------------------------
(***************************************************************************)
(* Every accepted size is laid out inside the page.  The quotients that    *)
(* create_file and create_index compute are used through one fact about    *)
(* integer division; the rest is linear in the product of the quotient and *)
(* the size.                                                               *)
(***************************************************************************)
EXTENDS PageLayout, TLAPS

\* The sizes RM_Manager::create_file and IndexManager::create_index accept.
Accepted == size \in 1..MaxSize

\* Integer division rounds down, by less than one divisor.
LEMMA Quotient ==
  ASSUME NEW a \in Nat, NEW b \in Nat \ {0}
  PROVE  /\ a \div b \in Nat
         /\ (a \div b) * b <= a
         /\ a < (a \div b + 1) * b
  BY Z3

\* What the number of records of a page is chosen by: a slot and its bit for
\* every record, and at most seven bits that are lost.
LEMMA RecordQuotient ==
  ASSUME NEW n \in 1..MaxSize
  PROVE  /\ NumRecordsPerPage(n) \in Nat
         /\ NumRecordsPerPage(n) * n \in Nat
         /\ NumRecordsPerPage(n) + WIDTH * (NumRecordsPerPage(n) * n) <= 32697
         /\ 32697 < (NumRecordsPerPage(n) + 1) * (1 + n * WIDTH)
PROOF
<1> DEFINE q == NumRecordsPerPage(n)
<1>1. n \in Nat /\ n >= 1 /\ n <= 512 /\ 1 + n * WIDTH \in Nat \ {0}
  BY LayoutAssumption DEF WIDTH
<1>2. q = 32697 \div (1 + n * WIDTH)
  BY LayoutAssumption DEF NumRecordsPerPage, WIDTH, PageHeaderSize
<1>3. q \in Nat /\ q * (1 + n * WIDTH) <= 32697 /\ 32697 < (q + 1) * (1 + n * WIDTH)
  BY <1>1, <1>2, Quotient
<1>4. q * n \in Nat
  BY <1>1, <1>3
<1>5. q * (1 + n * WIDTH) = q + WIDTH * (q * n)
  BY <1>1, <1>3 DEF WIDTH
<1> QED
  BY <1>3, <1>4, <1>5

\* The last slot of a page, and with it every slot, ends inside the page.
LEMMA RecordsFit ==
  ASSUME Accepted
  PROVE  SlotStart(size, NumRecordsPerPage(size)) <= PAGE_SIZE
PROOF
<1> DEFINE q == NumRecordsPerPage(size)
           m == q * size
           b == BitmapSize(size)
<1>1. q \in Nat /\ m \in Nat /\ q + 8 * m <= 32697
  BY RecordQuotient DEF Accepted, WIDTH
<1>2. b = (q + 7) \div 8
  BY <1>1 DEF BitmapSize, WIDTH
<1> HIDE DEF q, m, b
<1>3. b \in Nat /\ 8 * b <= q + 7
  BY <1>1, <1>2
<1>4. 8 + b + m <= 4096
  BY <1>1, <1>3
<1> QED
  BY <1>4, LayoutAssumption DEF SlotStart, PageHeaderSize, q, m, b

\* A record of the largest size still finds a slot.
LEMMA OneRecordFits ==
  ASSUME Accepted
  PROVE  NumRecordsPerPage(size) >= 1
PROOF
<1> DEFINE q == NumRecordsPerPage(size)
<1>1. size \in Nat /\ size <= 512
  BY LayoutAssumption DEF Accepted
<1>2. q \in Nat /\ 32697 < (q + 1) * (1 + size * 8)
  BY RecordQuotient DEF Accepted, WIDTH
<1> HIDE DEF q
<1>3. q # 0
  BY <1>1, <1>2
<1> QED
  BY <1>2, <1>3 DEF q

\* What the order of a node is chosen by.
LEMMA NodeQuotient ==
  ASSUME NEW n \in 1..MaxSize
  PROVE  /\ Order(n) + 1 \in Nat
         /\ Order(n) \in Int
         /\ (Order(n) + 1) * (n + RecordIDSize) <= 4068
         /\ 4068 < (Order(n) + 2) * (n + RecordIDSize)
PROOF
<1> DEFINE q == 4068 \div (n + RecordIDSize)
<1>1. n \in Nat /\ n + RecordIDSize \in Nat \ {0}
  BY LayoutAssumption DEF RecordIDSize
<1>2. q \in Nat /\ q * (n + RecordIDSize) <= 4068 /\ 4068 < (q + 1) * (n + RecordIDSize)
  BY <1>1, Quotient
<1>3. Order(n) = q - 1
  BY LayoutAssumption DEF Order, NodeHeaderSize
<1> HIDE DEF q
<1> QED
  BY <1>2, <1>3

\* The keys and the child pointers of an overfull node end inside the page.
LEMMA NodesFit ==
  ASSUME Accepted
  PROVE  NodeEnd(size) <= PAGE_SIZE
PROOF
<1> DEFINE q == Order(size) + 1
<1>1. size \in Nat
  BY LayoutAssumption DEF Accepted
<1>2. q \in Nat /\ q * (size + 8) <= 4068
  BY NodeQuotient DEF Accepted, RecordIDSize
<1>3. NodeEnd(size) = 28 + q * size + q * 8
  BY DEF NodeEnd, RidOffset, NodeHeaderSize, RecordIDSize
<1> HIDE DEF q
<1> DEFINE m == q * size
<1>4. m \in Nat /\ q * (size + 8) = m + q * 8
  BY <1>1, <1>2
<1>5. m \in Nat /\ m + q * 8 <= 4068 /\ NodeEnd(size) = 28 + m + q * 8
  BY <1>2, <1>3, <1>4
<1> HIDE DEF m
<1>6. NodeEnd(size) <= 4096
  BY <1>2, <1>5
<1> QED
  BY <1>6, LayoutAssumption

\* Even the longest keys leave a node order enough to be split.
LEMMA NodesSplit ==
  ASSUME Accepted
  PROVE  Order(size) > 2
PROOF
<1> DEFINE q == Order(size) + 1
<1>1. size \in Nat /\ size <= 512
  BY LayoutAssumption DEF Accepted
<1>2. q \in Nat /\ 4068 < (q + 1) * (size + 8) /\ Order(size) = q - 1
  BY NodeQuotient DEF Accepted, RecordIDSize
<1> HIDE DEF q
<1>3. ASSUME q <= 3 PROVE FALSE
  <2>1. (q + 1) * (size + 8) <= 4 * (size + 8)
    BY <1>1, <1>2, <1>3
  <2> QED
    BY <1>1, <1>2, <2>1
<1> QED
  BY <1>2, <1>3

LEMMA SizesAccepted == Spec => []Accepted
PROOF
<1>1. Init => Accepted
  BY LayoutAssumption DEF Init, Accepted
<1>2. Accepted /\ [Next]_size => Accepted'
  BY LayoutAssumption DEF Accepted, Next
<1> QED
  BY <1>1, <1>2, PTL DEF Spec

\* Every record size create_file accepts is laid out inside its page, with room for
\* a record.
THEOREM RecordLayoutCorrect == Spec => []RecordPageFits
PROOF
<1>1. Accepted => RecordPageFits
  BY RecordsFit, OneRecordFits DEF RecordPageFits
<1> QED
  BY <1>1, SizesAccepted, PTL

\* Every key length create_index accepts is laid out inside its node, with room for
\* a split.
THEOREM NodeLayoutCorrect == Spec => []NodeFits
PROOF
<1>1. Accepted => NodeFits
  BY NodesFit, NodesSplit DEF NodeFits
<1> QED
  BY <1>1, SizesAccepted, PTL
=============================================================================
