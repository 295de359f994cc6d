------------------------- MODULE Statements_proofs -------------------------
(***************************************************************************)
(* Proofs about Statements, for any number of tables, columns, indexes,    *)
(* rows and conditions.                                                    *)
(***************************************************************************)
EXTENDS Statements, FiniteSetTheorems, SequenceTheorems, WellFoundedInduction, TLAPS

-----------------------------------------------------------------------------
(* Numbers.                                                                *)

\* A set of naturals that is not empty has a least element.
LEMMA Least ==
  ASSUME NEW T, T \subseteq Nat, T # {}
  PROVE  \E m \in T : \A n \in T : m <= n
<1> DEFINE R == {ss \in Nat \X Nat : ss[1] < ss[2]}
<1>1. IsWellFoundedOn(R, Nat)
  BY NatLessThanWellFounded DEF OpToRel
<1>2. \E x \in T : \A y \in T : ~ (<<y, x>> \in R)
  <2> HIDE DEF R
  <2> QED BY <1>1, WFMin
<1>3. PICK x \in T : \A y \in T : ~ (<<y, x>> \in R)
  BY <1>2
<1>4. ASSUME NEW y \in T PROVE x <= y
  <2>1. x \in Nat /\ y \in Nat
    OBVIOUS
  <2>2. <<y, x>> \in Nat \X Nat
    BY <2>1
  <2>3. ~ (<<y, x>> \in R)
    BY <1>3
  <2>4. ~(y < x)
    BY <2>2, <2>3
  <2> QED BY <2>1, <2>4
<1> QED
  BY <1>4

LEMMA MinIn ==
  ASSUME NEW T, T \subseteq Nat, T # {}
  PROVE  Min(T) \in T
BY Least DEF Min

LEMMA MaxIn ==
  ASSUME NEW n \in Nat, NEW T, T \subseteq 1 .. n, T # {}
  PROVE  Max(T) \in T /\ \A m \in T : m <= Max(T)
<1> DEFINE U == {k \in Nat : n - k \in T}
<1>1. PICK m \in T : TRUE
  OBVIOUS
<1>2. n - m \in U
  BY <1>1
<1>3. PICK k \in U : \A l \in U : k <= l
  BY <1>2, Least
<1>4. ASSUME NEW l \in T PROVE l <= n - k
  <2>1. n - l \in U
    OBVIOUS
  <2> QED BY <2>1, <1>3
<1>5. n - k \in T /\ \A l \in T : l <= n - k
  BY <1>3, <1>4
<1> QED
  BY <1>5 DEF Max

-----------------------------------------------------------------------------
(* Sequences.                                                              *)

LEMMA SeqIn ==
  ASSUME NEW S, NEW T, NEW s \in Seq(S), ToSet(s) \subseteq T
  PROVE  s \in Seq(T)
<1>1. Len(s) \in Nat /\ s \in [1 .. Len(s) -> S] /\ DOMAIN s = 1 .. Len(s)
  BY LenProperties
<1>2. \A j \in 1 .. Len(s) : s[j] \in T
  BY <1>1 DEF ToSet
<1>3. s \in [1 .. Len(s) -> T]
  BY <1>1, <1>2
<1> QED
  BY <1>1, <1>3, SeqDef

LEMMA TailSet ==
  ASSUME NEW S, NEW s \in Seq(S), s # << >>
  PROVE  /\ ToSet(s) = {s[1]} \cup ToSet(Tail(s))
         /\ IsInjective(s) => IsInjective(Tail(s)) /\ s[1] \notin ToSet(Tail(s))
<1>1. Len(s) \in Nat \ {0} /\ DOMAIN s = 1 .. Len(s)
  BY EmptySeq, LenProperties
<1>2. /\ Tail(s) \in Seq(S) /\ Len(Tail(s)) = Len(s) - 1
      /\ \A i \in 1 .. Len(Tail(s)) : Tail(s)[i] = s[i + 1]
  BY HeadTailProperties
<1>3. DOMAIN Tail(s) = 1 .. (Len(s) - 1)
  BY <1>2, LenProperties
<1>4. ASSUME NEW i \in 1 .. Len(s), i # 1 PROVE i - 1 \in DOMAIN Tail(s) /\ s[i] = Tail(s)[i - 1]
  BY <1>1, <1>2, <1>3, <1>4
<1>5. ASSUME NEW i \in DOMAIN Tail(s) PROVE i + 1 \in DOMAIN s /\ i + 1 # 1 /\ Tail(s)[i] = s[i + 1]
  BY <1>1, <1>2, <1>3
<1>6. 1 \in DOMAIN s
  BY <1>1
<1>7. ToSet(s) = {s[1]} \cup ToSet(Tail(s))
  <2>1. ASSUME NEW i \in DOMAIN s, i # 1 PROVE s[i] \in ToSet(Tail(s))
    BY <1>1, <1>4, <2>1 DEF ToSet
  <2>2. \A i \in DOMAIN Tail(s) : Tail(s)[i] \in ToSet(s)
    BY <1>5 DEF ToSet
  <2>3. s[1] \in ToSet(s)
    BY <1>6 DEF ToSet
  <2>4. ToSet(s) \subseteq {s[1]} \cup ToSet(Tail(s))
    BY <2>1 DEF ToSet
  <2>5. ToSet(Tail(s)) \subseteq ToSet(s)
    BY <2>2 DEF ToSet
  <2> QED BY <2>3, <2>4, <2>5
<1>8. ASSUME IsInjective(s) PROVE IsInjective(Tail(s)) /\ s[1] \notin ToSet(Tail(s))
  <2>1. \A i \in DOMAIN Tail(s) : i \in Nat
    BY <1>3
  <2>2. IsInjective(Tail(s))
    BY <1>5, <1>8, <2>1 DEF IsInjective
  <2>3. s[1] \notin ToSet(Tail(s))
    BY <1>5, <1>6, <1>8 DEF IsInjective, ToSet
  <2> QED BY <2>2, <2>3
<1> QED
  BY <1>7, <1>8

LEMMA AppendSet ==
  ASSUME NEW S, NEW s \in Seq(S), NEW e \in S
  PROVE  /\ ToSet(Append(s, e)) = ToSet(s) \cup {e}
         /\ IsInjective(s) /\ e \notin ToSet(s) => IsInjective(Append(s, e))
<1> DEFINE t == Append(s, e)
<1>1. /\ Len(s) \in Nat /\ DOMAIN s = 1 .. Len(s) /\ t \in Seq(S) /\ Len(t) = Len(s) + 1
      /\ t[Len(s) + 1] = e /\ \A j \in 1 .. Len(s) : t[j] = s[j]
  BY AppendProperties, LenProperties
<1>2. DOMAIN t = 1 .. Len(s) + 1
  BY <1>1, LenProperties
<1> HIDE DEF t
<1>3. ToSet(t) = ToSet(s) \cup {e}
  <2>1. \A j \in DOMAIN t : j = Len(s) + 1 \/ j \in DOMAIN s
    BY <1>1, <1>2
  <2>2. Len(s) + 1 \in DOMAIN t /\ \A j \in DOMAIN s : j \in DOMAIN t
    BY <1>1, <1>2
  <2> QED BY <1>1, <2>1, <2>2 DEF ToSet
<1>4. ASSUME IsInjective(s), e \notin ToSet(s) PROVE IsInjective(t)
  <2>1. \A j \in DOMAIN t : j = Len(s) + 1 \/ j \in DOMAIN s
    BY <1>1, <1>2
  <2>2. \A j \in DOMAIN s : s[j] # e
    BY <1>4 DEF ToSet
  <2> QED BY <1>1, <1>4, <2>1, <2>2 DEF IsInjective
<1> QED
  BY <1>3, <1>4 DEF t

LEMMA AdvancedIs ==
  ASSUME NEW S, NEW cs \in Seq(Seq(S)), Len(cs) \in Nat \ {0}, Last(cs) # << >>
  PROVE  /\ Advanced(cs) \in Seq(Seq(S)) /\ Len(Advanced(cs)) = Len(cs)
         /\ \A i \in 1 .. Len(cs) - 1 : Advanced(cs)[i] = cs[i]
         /\ Advanced(cs)[Len(cs)] = Tail(cs[Len(cs)])
         /\ \A i \in 1 .. Len(cs) : ToSet(Advanced(cs)[i]) \subseteq ToSet(cs[i])
<1> DEFINE k == Len(cs)
<1>1. cs[k] \in Seq(S) /\ cs[k] # << >>
  BY ElementOfSeq DEF Last
<1>2. Tail(cs[k]) \in Seq(S)
  BY <1>1, HeadTailProperties
<1>3. Advanced(cs) = [cs EXCEPT ![k] = Tail(cs[k])]
  BY DEF Advanced
<1>4. /\ Advanced(cs) \in Seq(Seq(S)) /\ Len(Advanced(cs)) = k
      /\ \A j \in 1 .. k : Advanced(cs)[j] = IF j = k THEN Tail(cs[k]) ELSE cs[j]
  BY <1>2, <1>3, ExceptSeq
<1>5. ToSet(Tail(cs[k])) \subseteq ToSet(cs[k])
  BY <1>1, TailSet
<1>6. k \in 1 .. k /\ \A i \in 1 .. k - 1 : i \in 1 .. k /\ i # k
  OBVIOUS
<1>7. Advanced(cs)[k] = Tail(cs[k]) /\ \A i \in 1 .. k - 1 : Advanced(cs)[i] = cs[i]
  BY <1>4, <1>6
<1>8. \A i \in 1 .. k : ToSet(Advanced(cs)[i]) \subseteq ToSet(cs[i])
  BY <1>4, <1>5
<1> QED
  BY <1>4, <1>7, <1>8

LEMMA FrontIs ==
  ASSUME NEW S, NEW cs \in Seq(S), Len(cs) \in Nat \ {0}
  PROVE  /\ Front(cs) \in Seq(S) /\ Len(Front(cs)) = Len(cs) - 1
         /\ \A i \in 1 .. Len(cs) - 1 : Front(cs)[i] = cs[i]
<1>1. \A i \in 1 .. Len(cs) - 1 : cs[i] \in S
  BY ElementOfSeq
<1>2. Len(cs) - 1 \in Int /\ Len(cs) - 1 - 1 + 1 = Len(cs) - 1
  OBVIOUS
<1> QED
  BY <1>1, <1>2, SubSeqProperties DEF Front

-----------------------------------------------------------------------------
(* The set clauses.                                                        *)

\* The clauses of a set of places that are about a column.
For(c, sets, s) == {j \in s : sets[j][1] = c}

\* A row after the clauses of these places: the last one for a column counts.
After(row, sets, s) ==
  [c \in DOMAIN row |-> IF For(c, sets, s) = {} THEN row[c] ELSE sets[Max(For(c, sets, s))][2]]

Put(row, set) == [row EXCEPT ![set[1]] = set[2]]

\* What the fold of the code works out for every set of places.
IsFold(f, row, sets) ==
  f = [s \in SUBSET DOMAIN sets |-> IF s = {} THEN row ELSE Put(f[s \ {Max(s)}], sets[Max(s)])]

AfterAll(row, sets) == After(row, sets, DOMAIN sets)

LEMMA AfterStep ==
  ASSUME NEW sets, NEW n \in Nat, DOMAIN sets = 1 .. n,
         NEW C, NEW row, row = [c \in C |-> row[c]],
         NEW s \in SUBSET (1 .. n)
  PROVE  After(row, sets, s) =
           IF s = {} THEN row ELSE Put(After(row, sets, s \ {Max(s)}), sets[Max(s)])
<1>0. DOMAIN row = C
  OBVIOUS
<1>1. CASE s = {}
  BY <1>1 DEF After, For
<1>2. CASE s # {}
  <2> DEFINE m == Max(s)
             r == s \ {m}
  <2>1. m \in s /\ \A k \in s : k <= m
    BY <1>2, MaxIn
  <2> HIDE DEF m
  <2>2. ASSUME NEW c \in C
        PROVE  After(row, sets, s)[c] = Put(After(row, sets, r), sets[m])[c]
    <3>1. CASE sets[m][1] = c
      <4>1. m \in For(c, sets, s) /\ For(c, sets, s) \subseteq 1 .. n
        BY <2>1, <3>1 DEF For
      <4>2. Max(For(c, sets, s)) \in For(c, sets, s) /\ m <= Max(For(c, sets, s))
        BY <4>1, MaxIn
      <4>3. Max(For(c, sets, s)) \in s
        BY <4>2 DEF For
      <4>4. Max(For(c, sets, s)) = m
        BY <2>1, <4>2, <4>3
      <4>5. After(row, sets, s)[c] = sets[m][2]
        BY <4>1, <4>4 DEF After
      <4>6. Put(After(row, sets, r), sets[m])[c] = sets[m][2]
        BY <3>1 DEF Put, After
      <4> QED BY <4>5, <4>6
    <3>2. CASE sets[m][1] # c
      <4>1. For(c, sets, s) = For(c, sets, r)
        BY <3>2 DEF For
      <4>2. After(row, sets, s)[c] = After(row, sets, r)[c]
        BY <4>1 DEF After
      <4>3. Put(After(row, sets, r), sets[m])[c] = After(row, sets, r)[c]
        BY <3>2 DEF Put, After
      <4> QED BY <4>2, <4>3
    <3> QED BY <3>1, <3>2
  <2>3. After(row, sets, s) = [c \in C |-> After(row, sets, s)[c]]
    BY DEF After
  <2>4. Put(After(row, sets, r), sets[m]) = [c \in C |-> Put(After(row, sets, r), sets[m])[c]]
    BY DEF After, Put
  <2>5. After(row, sets, s) = Put(After(row, sets, r), sets[m])
    BY <2>2, <2>3, <2>4
  <2> QED BY <1>2, <2>5 DEF m
<1> QED
  BY <1>1, <1>2

\* What a fold of the set clauses comes to, whichever of the functions with the
\* property of IsFold is meant.
LEMMA FoldIsAfter ==
  ASSUME NEW sets, NEW n \in Nat, DOMAIN sets = 1 .. n,
         NEW C, NEW row, row = [c \in C |-> row[c]],
         NEW f, IsFold(f, row, sets)
  PROVE  f[1 .. n] = After(row, sets, 1 .. n)
<1> DEFINE Bad == {k \in 0 .. n : f[1 .. k] # After(row, sets, 1 .. k)}
<1>1. ASSUME Bad # {} PROVE FALSE
  <2>a. Bad \subseteq Nat
    OBVIOUS
  <2>b. \E k \in Bad : \A l \in Bad : k <= l
    <3> HIDE DEF Bad
    <3> QED BY <1>1, <2>a, Least
  <2>1. PICK k \in Bad : \A l \in Bad : k <= l
    BY <2>b
  <2>0. k \in 0 .. n /\ f[1 .. k] # After(row, sets, 1 .. k)
    OBVIOUS
  <2> DEFINE s == 1 .. k
  <2>s. s \in SUBSET (1 .. n)
    BY <2>0
  <2> HIDE DEF s
  <2>2. f[s] = IF s = {} THEN row ELSE Put(f[s \ {Max(s)}], sets[Max(s)])
    BY <2>s DEF IsFold
  <2>3. After(row, sets, s) =
           IF s = {} THEN row ELSE Put(After(row, sets, s \ {Max(s)}), sets[Max(s)])
    BY <2>s, AfterStep
  <2>4. CASE k = 0
    <3>1. s = {}
      BY <2>4 DEF s
    <3>2. f[s] = After(row, sets, s)
      BY <3>1, <2>2, <2>3
    <3> QED BY <3>2, <2>0 DEF s
  <2>5. CASE k # 0
    <3>1. k \in s /\ k \in Nat /\ s \subseteq 1 .. k /\ s # {}
      BY <2>0, <2>5 DEF s
    <3>2. Max(s) \in s /\ k <= Max(s)
      BY <3>1, MaxIn
    <3>3. Max(s) = k
      BY <3>1, <3>2
    <3>4. s \ {k} = 1 .. (k - 1) /\ k - 1 \in 0 .. n /\ k - 1 < k
      BY <2>0, <2>5 DEF s
    <3>5. k - 1 \notin Bad
      BY <2>1, <3>4
    <3>6. f[s \ {k}] = After(row, sets, s \ {k})
      BY <3>5, <3>4
    <3>7. f[s] = After(row, sets, s)
      BY <2>2, <2>3, <3>1, <3>3, <3>6
    <3> QED BY <3>7, <2>0 DEF s
  <2> QED BY <2>4, <2>5
<1> QED
  BY <1>1

\* The loop over the set clauses, in Statements and in TableStore.
LEMMA FoldOfSets ==
  ASSUME NEW sets, NEW n \in Nat, DOMAIN sets = 1 .. n,
         NEW C, NEW row, row = [c \in C |-> row[c]]
  PROVE  FoldLeft(LAMBDA r, set : [r EXCEPT ![set[1]] = set[2]], row, sets) = AfterAll(row, sets)
<1> DEFINE g == [s \in SUBSET DOMAIN sets |-> After(row, sets, s)]
<1>1. IsFold(g, row, sets)
  <2>1. ASSUME NEW s \in SUBSET DOMAIN sets
        PROVE  g[s] = IF s = {} THEN row ELSE Put(g[s \ {Max(s)}], sets[Max(s)])
    BY AfterStep
  <2> QED BY <2>1 DEF IsFold
<1>2. IsFold(CHOOSE f : IsFold(f, row, sets), row, sets)
  BY <1>1
<1>3. FoldLeft(LAMBDA r, set : [r EXCEPT ![set[1]] = set[2]], row, sets)
        = (CHOOSE f : IsFold(f, row, sets))[DOMAIN sets]
  BY Zenon DEF FoldLeft, MapThenFoldSet, IsFold, Put
<1> QED
  BY <1>2, <1>3, FoldIsAfter DEF AfterAll

\* The set clauses keep the types of a row and the columns they do not name, and
\* a second time they change nothing.
LEMMA AfterRow ==
  ASSUME NEW C, NEW row \in [C -> Value],
         NEW sets, NEW n \in Nat, DOMAIN sets = 1 .. n,
         \A j \in 1 .. n : sets[j][2] \in Value
  PROVE  /\ AfterAll(row, sets) \in [C -> Value]
         /\ \A c \in C : (\A j \in 1 .. n : sets[j][1] # c) => AfterAll(row, sets)[c] = row[c]
         /\ AfterAll(AfterAll(row, sets), sets) = AfterAll(row, sets)
<1> DEFINE J(c) == For(c, sets, 1 .. n)
<1>1. AfterAll(row, sets) = [c \in C |-> IF J(c) = {} THEN row[c] ELSE sets[Max(J(c))][2]]
  BY DEF AfterAll, After
<1>2. ASSUME NEW c \in C, J(c) # {} PROVE sets[Max(J(c))][2] \in Value
  <2>1. J(c) \subseteq 1 .. n
    BY DEF For
  <2>2. Max(J(c)) \in 1 .. n
    BY <1>2, <2>1, MaxIn
  <2> QED BY <2>2
<1>3. AfterAll(row, sets) \in [C -> Value]
  BY <1>1, <1>2
<1>4. ASSUME NEW c \in C, \A j \in 1 .. n : sets[j][1] # c
      PROVE  AfterAll(row, sets)[c] = row[c]
  <2>1. J(c) = {}
    BY <1>4 DEF For
  <2> QED BY <1>1, <2>1
<1>5. AfterAll(AfterAll(row, sets), sets) = AfterAll(row, sets)
  <2> DEFINE new == AfterAll(row, sets)
  <2>1. DOMAIN new = C
    BY <1>1
  <2>2. AfterAll(new, sets) = [c \in C |-> IF J(c) = {} THEN new[c] ELSE sets[Max(J(c))][2]]
    <3> HIDE DEF new
    <3> QED BY <2>1 DEF AfterAll, After
  <2>3. \A c \in C : new[c] = IF J(c) = {} THEN new[c] ELSE sets[Max(J(c))][2]
    BY <1>1
  <2>4. new = [c \in C |-> new[c]]
    BY <1>1
  <2> HIDE DEF new, J
  <2>5. AfterAll(new, sets) = new
    BY <2>2, <2>3, <2>4
  <2> QED BY <2>5 DEF new
<1> QED
  BY <1>3, <1>4, <1>5

-----------------------------------------------------------------------------
(* Statements.                                                             *)

Row(t) == [ToSet(Cols[t]) -> Value]

LEMMA StatementTypes ==
  ASSUME NEW s \in Statement
  PROVE  /\ s # NoStatement
         /\ s.kind \in {"insert", "delete", "update", "select"}
         /\ s.from \in Seq(STRING) /\ Len(s.from) \in Nat \ {0}
         /\ DOMAIN s.from = 1 .. Len(s.from)
         /\ IsInjective(s.from)
         /\ s.kind # "select" => Len(s.from) = 1
         /\ DOMAIN s.conds \subseteq Nat
<1>1. s.from \in Seq(STRING) /\ s.from # << >>
  BY StatementAssumption
<1>2. Len(s.from) \in Nat \ {0} /\ DOMAIN s.from = 1 .. Len(s.from)
  BY <1>1
<1> QED
  BY <1>1, <1>2, StatementAssumption

\* The tables of a statement that is not refused are there.
LEMMA StatementTables ==
  ASSUME NEW s \in Statement, ~Refused(s)
  PROVE  s.from \in Seq(Tables) /\ s.from[1] \in Tables
<1>1. s.from \in Seq(STRING) /\ Len(s.from) \in Nat \ {0}
  BY StatementTypes
<1>2. ToSet(s.from) \subseteq Tables
  BY DEF Refused
<1>3. s.from \in Seq(Tables)
  BY <1>1, <1>2, SeqIn
<1> QED
  BY <1>1, <1>3

\* A row put by a statement that is not refused.
LEMMA InsertedRow ==
  ASSUME NEW s \in Statement, ~Refused(s), s.kind = "insert"
  PROVE  /\ Len(s.row) = Len(Cols[s.from[1]]) /\ ToSet(s.row) \subseteq Value
         /\ RecordOf(s.from[1], s.row) \in Row(s.from[1])
<1> DEFINE names == Cols[s.from[1]]
           values == s.row
<1>1. values \in Seq(Literal) /\ names \in Seq(STRING)
  BY StatementTables, StatementAssumption, ColsAssumption
<1>2. Len(values) = Len(names) /\ Misfit \notin ToSet(values)
  BY DEF Refused
<1> HIDE DEF names, values
<1>3. DOMAIN values = 1 .. Len(values) /\ DOMAIN names = DOMAIN values
      /\ \A i \in DOMAIN values : values[i] \in Literal
  BY <1>1, <1>2
<1>4. ToSet(values) \subseteq Value
  BY <1>2, <1>3 DEF ToSet, Literal
<1>5. ASSUME NEW c \in ToSet(names)
      PROVE  values[CHOOSE i \in DOMAIN names : names[i] = c] \in Value
  <2>1. \E i \in DOMAIN names : names[i] = c
    BY DEF ToSet
  <2>2. (CHOOSE i \in DOMAIN names : names[i] = c) \in DOMAIN values
    BY <1>3, <2>1
  <2> QED BY <1>4, <2>2 DEF ToSet
<1>6. [c \in ToSet(names) |-> values[CHOOSE i \in DOMAIN names : names[i] = c]]
        \in [ToSet(names) -> Value]
  BY <1>5
<1> QED
  BY <1>2, <1>4, <1>6 DEF Row, RecordOf, names, values

\* What a statement that is not refused assigns.
LEMMA SetClauses ==
  ASSUME NEW s \in Statement, ~Refused(s)
  PROVE  /\ Len(s.sets) \in Nat /\ DOMAIN s.sets = 1 .. Len(s.sets)
         /\ \A j \in 1 .. Len(s.sets) : s.sets[j][2] \in Value
<1>1. s.sets \in Seq(STRING \X Literal)
  BY StatementAssumption
<1>2. \A j \in DOMAIN s.sets : s.sets[j][2] # Misfit
  BY DEF Refused
<1>3. Len(s.sets) \in Nat /\ DOMAIN s.sets = 1 .. Len(s.sets)
  BY <1>1
<1>4. \A j \in DOMAIN s.sets : s.sets[j] \in STRING \X Literal
  BY <1>1
<1>5. \A j \in DOMAIN s.sets : s.sets[j][2] \in Literal
  BY <1>4
<1> QED
  BY <1>2, <1>3, <1>5 DEF Literal

LEMMA AssignedRow ==
  ASSUME stmt \in Statement, ~Refused(stmt), NEW t, NEW row \in Row(t)
  PROVE  /\ Assigned(row) = AfterAll(row, stmt.sets)
         /\ Assigned(row) \in Row(t)
         /\ \A c \in ToSet(Cols[t]) :
              (\A j \in DOMAIN stmt.sets : stmt.sets[j][1] # c) => Assigned(row)[c] = row[c]
         /\ Assigned(Assigned(row)) = Assigned(row)
<1> DEFINE C == ToSet(Cols[t])
           sets == stmt.sets
           n == Len(stmt.sets)
<1>1. n \in Nat /\ DOMAIN sets = 1 .. n /\ \A j \in 1 .. n : sets[j][2] \in Value
  BY SetClauses
<1>2. row \in [C -> Value]
  BY DEF Row
<1> HIDE DEF C, sets, n
<1>3. ASSUME NEW w \in [C -> Value]
      PROVE  FoldLeft(LAMBDA r, set : [r EXCEPT ![set[1]] = set[2]], w, sets) = AfterAll(w, sets)
  <2>1. w = [c \in C |-> w[c]]
    OBVIOUS
  <2> QED BY <1>1, <2>1, FoldOfSets
<1>4. ASSUME NEW w \in [C -> Value] PROVE Assigned(w) = AfterAll(w, sets)
  BY <1>3, Zenon DEF Assigned, sets
<1>5. /\ AfterAll(row, sets) \in [C -> Value]
      /\ \A c \in C : (\A j \in 1 .. n : sets[j][1] # c) => AfterAll(row, sets)[c] = row[c]
      /\ AfterAll(AfterAll(row, sets), sets) = AfterAll(row, sets)
  BY <1>1, <1>2, AfterRow
<1>6. Assigned(row) = AfterAll(row, sets)
  BY <1>2, <1>4
<1>7. Assigned(AfterAll(row, sets)) = AfterAll(AfterAll(row, sets), sets)
  BY <1>4, <1>5
<1> QED
  BY <1>1, <1>5, <1>6, <1>7 DEF Row, C, sets

-----------------------------------------------------------------------------
(* The invariant.                                                          *)

RecsOK ==
  /\ recs = [t \in Tables |-> recs[t]]
  /\ \A t \in Tables : DOMAIN recs[t] \subseteq Room[t] /\ recs[t] \in [DOMAIN recs[t] -> Row(t)]

IdxOK == idx = [i \in Indexed |-> idx[i]]

Changing == {"round", "unindex", "index", "erase"}

\* Which statements may be at which place.
PhaseOK ==
  /\ pc \in {"idle", "put", "scan", "done"} \cup Changing
  /\ stmt \in Statement \cup {NoStatement}
  /\ pc = "idle" <=> stmt = NoStatement
  /\ pc \notin {"idle", "done"} => ~Refused(stmt)
  /\ pc = "put" => stmt.kind = "insert"
  /\ pc = "scan" => stmt.kind # "insert"
  /\ pc \in {"round", "unindex"} => stmt.kind \in {"delete", "update"}
  /\ pc = "index" => stmt.kind \in {"insert", "update"}
  /\ pc = "erase" => stmt.kind = "delete"

\* All the tables of the plan but the last are at a row.
Standing == \A i \in DOMAIN cursor : i < Len(cursor) => cursor[i] # << >>

\* The plan stands at, and has come to, record ids of its tables; while it runs
\* these are records there are.
PlanOK ==
  /\ pc \in {"idle", "put"} => cursor = << >> /\ out = << >>
  /\ pc # "idle" =>
       /\ cursor \in Seq(Seq(Rids)) /\ Len(cursor) <= Len(stmt.from)
       /\ \A i \in DOMAIN cursor : cursor[i] \in Seq(Room[stmt.from[i]])
       /\ out \in Seq([DOMAIN stmt.from -> Rids])
       /\ \A j \in DOMAIN out : \A i \in DOMAIN stmt.from : out[j][i] \in Room[stmt.from[i]]
  /\ pc = "scan" =>
       /\ Standing
       /\ \A i \in DOMAIN cursor : ToSet(cursor[i]) \subseteq DOMAIN recs[stmt.from[i]]
       /\ \A j \in DOMAIN out : \A i \in DOMAIN stmt.from :
            out[j][i] \in DOMAIN recs[stmt.from[i]]

\* What is still to do, and for which records.
WorkOK ==
  /\ pc \notin Changing => todo = {}
  /\ pc \notin {"unindex", "index"} => rid = NoRid /\ left = {}
  /\ pc \in Changing /\ stmt.kind # "insert" => todo \subseteq Matched
  /\ pc \in Changing /\ stmt.kind = "insert" => todo = {}
  /\ pc \in {"unindex", "index"} => rid \in DOMAIN recs[Target] /\ left \subseteq Touched
  /\ pc \in {"unindex", "index"} /\ stmt.kind # "insert" => rid \in Matched \ todo
  /\ pc \in Changing \ {"erase"} /\ stmt.kind # "insert" => Matched \subseteq DOMAIN recs[Target]
  /\ pc = "erase" => Matched \cap DOMAIN recs[Target] = todo

\* The records that have no entry for a column.
Gap(t, c) == IF pc = "idle" THEN {} ELSE Missing(t, c)

EntriesFor(rows, c, R) == {<<rows[r][c], r>> : r \in R}

LEMMA EntriesExactDef ==
  EntriesExact <=>
    \A i \in Indexed : idx[i] = EntriesFor(recs[i[1]], i[2], DOMAIN recs[i[1]] \ Gap(i[1], i[2]))
BY DEF EntriesExact, EntriesFor, Gap

Files == RecsOK /\ IdxOK /\ PhaseOK /\ PlanOK /\ WorkOK /\ EntriesExact

LEMMA FilesInit == Init => Files
<1> SUFFICES ASSUME Init PROVE Files
  OBVIOUS
<1> USE DEF Init
<1>1. RecsOK
  <2>1. \A t \in Tables : recs[t] = << >> /\ DOMAIN recs[t] = {}
    OBVIOUS
  <2> QED BY <2>1 DEF RecsOK
<1>2. IdxOK
  BY DEF IdxOK
<1>3. PhaseOK
  BY DEF PhaseOK, Changing
<1>4. PlanOK
  BY DEF PlanOK
<1>5. WorkOK
  BY DEF WorkOK, Changing
<1>6. EntriesExact
  <2>1. ASSUME NEW i \in Indexed PROVE recs[i[1]] = << >> /\ idx[i] = {}
    BY IndexedAssumption
  <2> QED BY <2>1 DEF EntriesExact
<1> QED
  BY <1>1, <1>2, <1>3, <1>4, <1>5, <1>6 DEF Files

-----------------------------------------------------------------------------
(* Steps that change no file.                                              *)

LEMMA FilesKept ==
  ASSUME RecsOK, IdxOK, UNCHANGED files
  PROVE  RecsOK' /\ IdxOK'
BY DEF RecsOK, IdxOK, files

LEMMA EntriesKept ==
  ASSUME EntriesExact, UNCHANGED files, \A i \in Indexed : Gap(i[1], i[2])' = Gap(i[1], i[2])
  PROVE  EntriesExact'
<1>1. recs' = recs /\ idx' = idx
  BY DEF files
<1>2. \A i \in Indexed : idx[i] = EntriesFor(recs[i[1]], i[2], DOMAIN recs[i[1]] \ Gap(i[1], i[2]))
  BY EntriesExactDef
<1>3. \A i \in Indexed :
        idx'[i] = EntriesFor(recs'[i[1]], i[2], DOMAIN recs'[i[1]] \ Gap(i[1], i[2])')
  BY <1>1, <1>2
<1> QED
  BY <1>3 DEF EntriesExact, EntriesFor, Gap

\* Nothing is missing from an index where a statement looks for rows.
LEMMA NoGap ==
  ASSUME NEW t, NEW c, pc \in {"idle", "put", "scan", "done"}
  PROVE  Gap(t, c) = {}
BY DEF Gap, Missing

LEMMA NoGapAfter ==
  ASSUME NEW t, NEW c, pc' \in {"idle", "put", "scan", "done"}
  PROVE  Gap(t, c)' = {}
BY DEF Gap, Missing

LEMMA StartFiles ==
  ASSUME Files, NEW s \in Statement, Start(s)
  PROVE  Files'
<1> USE DEF Start
<1>1. pc = "idle" /\ pc' \in {"done", "put", "scan"} /\ stmt' = s
  OBVIOUS
<1>2. UNCHANGED <<files, plan, work>>
  OBVIOUS
<1>3. RecsOK' /\ IdxOK'
  BY <1>2, FilesKept DEF Files
<1>4. PhaseOK'
  BY <1>1, StatementTypes DEF PhaseOK, Changing
<1>5. PlanOK'
  <2>1. cursor' = << >> /\ out' = << >>
    BY <1>1, <1>2 DEF Files, PlanOK, plan
  <2>2. Len(s.from) \in Nat
    BY StatementTypes
  <2> QED BY <1>1, <2>1, <2>2 DEF PlanOK, Standing
<1>6. WorkOK'
  BY <1>1, <1>2 DEF Files, WorkOK, Changing, work
<1>7. EntriesExact'
  BY <1>1, <1>2, NoGap, NoGapAfter, EntriesKept DEF Files
<1> QED
  BY <1>3, <1>4, <1>5, <1>6, <1>7 DEF Files

\* The rows that begin finds are records there are, in an index as in a file.
LEMMA BegunLive ==
  ASSUME Files, pc = "scan", NEW t \in Tables, NEW conds, DOMAIN conds \subseteq Nat
  PROVE  Begun(t, conds) \subseteq DOMAIN recs[t]
<1> SUFFICES ASSUME NEW r \in ToVisit(t, conds) PROVE r \in DOMAIN recs[t]
  BY DEF Begun
<1> DEFINE served == Served(t, conds)
<1>1. CASE served = {}
  BY <1>1 DEF ToVisit
<1>2. CASE served # {}
  <2>1. served \subseteq DOMAIN conds
    BY DEF Served
  <2>2. Min(served) \in served
    <3> HIDE DEF served
    <3> QED BY <1>2, <2>1, MinIn
  <2> DEFINE i == <<t, conds[Min(served)].lhs[2]>>
  <2>3. i \in Indexed
    BY <2>2 DEF Served
  <2>4. PICK e \in idx[i] : r = e[2]
    BY <1>2 DEF ToVisit, Between
  <2>5. idx[i] = EntriesFor(recs[i[1]], i[2], DOMAIN recs[i[1]] \ {})
    BY <2>3, NoGap, EntriesExactDef DEF Files
  <2> QED BY <2>4, <2>5 DEF EntriesFor
<1> QED
  BY <1>1, <1>2

\* A statement that looks for rows, and the shape of its plan.
LEMMA ScanTypes ==
  ASSUME Files, pc = "scan"
  PROVE  /\ stmt \in Statement /\ ~Refused(stmt) /\ stmt.kind # "insert"
         /\ Len(stmt.from) \in Nat \ {0} /\ DOMAIN stmt.from = 1 .. Len(stmt.from)
         /\ \A i \in 1 .. Len(stmt.from) : stmt.from[i] \in Tables
         /\ IsInjective(stmt.from)
         /\ cursor \in Seq(Seq(Rids))
         /\ Len(cursor) \in 0 .. Len(stmt.from) /\ DOMAIN cursor = 1 .. Len(cursor)
         /\ \A i \in 1 .. Len(cursor) - 1 : cursor[i] # << >>
         /\ \A i \in 1 .. Len(cursor) :
              /\ cursor[i] \in Seq(Room[stmt.from[i]]) /\ cursor[i] \in Seq(Rids)
              /\ ToSet(cursor[i]) \subseteq DOMAIN recs[stmt.from[i]]
         /\ \A t \in Tables : DOMAIN recs[t] \subseteq Room[t] /\ Room[t] \subseteq Rids
<1>1. stmt \in Statement /\ ~Refused(stmt) /\ stmt.kind # "insert"
  BY DEF Files, PhaseOK
<1>2. /\ Len(stmt.from) \in Nat \ {0} /\ DOMAIN stmt.from = 1 .. Len(stmt.from)
      /\ stmt.from \in Seq(Tables) /\ IsInjective(stmt.from)
  BY <1>1, StatementTypes, StatementTables
<1>3. cursor \in Seq(Seq(Rids)) /\ Len(cursor) <= Len(stmt.from)
  BY DEF Files, PlanOK
<1>4. \A i \in DOMAIN cursor :
        cursor[i] \in Seq(Room[stmt.from[i]]) /\ ToSet(cursor[i]) \subseteq DOMAIN recs[stmt.from[i]]
  BY DEF Files, PlanOK
<1>5. \A t \in Tables : DOMAIN recs[t] \subseteq Room[t] /\ Room[t] \subseteq Rids
  BY DEF Files, RecsOK, Rids
<1>6. DOMAIN cursor = 1 .. Len(cursor) /\ Len(cursor) \in Nat
  BY <1>3
<1>7. \A i \in 1 .. Len(cursor) : cursor[i] \in Seq(Rids)
  BY <1>3
<1>8. \A i \in 1 .. Len(stmt.from) : stmt.from[i] \in Tables
  BY <1>2
<1>9. Len(cursor) \in 0 .. Len(stmt.from)
  BY <1>2, <1>3, <1>6
<1>10. \A i \in 1 .. Len(cursor) - 1 : cursor[i] # << >>
  <2>1. Standing
    BY DEF Files, PlanOK
  <2> QED BY <1>6, <2>1 DEF Standing
<1> QED
  BY <1>1, <1>2, <1>3, <1>4, <1>5, <1>6, <1>7, <1>8, <1>9, <1>10

\* A step of the plan goes from cursors among the records to cursors among them.
LEMMA PlanStep ==
  ASSUME Files, pc = "scan", pc' = "scan", UNCHANGED <<files, stmt, work>>,
         NEW cs, cs \in Seq(Seq(Rids)), Len(cs) <= Len(stmt.from), cursor' = cs,
         \A i \in 1 .. Len(cs) : ToSet(cs[i]) \subseteq DOMAIN recs[stmt.from[i]],
         \A i \in 1 .. Len(cs) - 1 : cs[i] # << >>,
         NEW new, new \in Seq([DOMAIN stmt.from -> Rids]), out' = new,
         \A j \in DOMAIN new : \A i \in DOMAIN stmt.from : new[j][i] \in DOMAIN recs[stmt.from[i]]
  PROVE  Files'
<1>1. recs' = recs /\ stmt' = stmt /\ UNCHANGED files /\ UNCHANGED work
  BY DEF files
<1>2. RecsOK' /\ IdxOK'
  BY <1>1, FilesKept DEF Files
<1>3. PhaseOK'
  BY <1>1 DEF Files, PhaseOK, Changing
<1>4. WorkOK'
  BY <1>1 DEF Files, WorkOK, Changing, work
<1>5. EntriesExact'
  <2>1. \A i \in Indexed : Gap(i[1], i[2]) = {} /\ Gap(i[1], i[2])' = {}
    BY NoGap, NoGapAfter
  <2> QED BY <1>1, <2>1, EntriesKept DEF Files
<1>6. PlanOK'
  <2>1. Len(cs) \in Nat /\ DOMAIN cs = 1 .. Len(cs) /\ \A i \in 1 .. Len(cs) : cs[i] \in Seq(Rids)
    OBVIOUS
  <2>2. ASSUME NEW i \in 1 .. Len(cs) PROVE cs[i] \in Seq(Room[stmt.from[i]])
    <3>1. i \in 1 .. Len(stmt.from)
      BY <2>1, ScanTypes
    <3>2. ToSet(cs[i]) \subseteq Room[stmt.from[i]] /\ cs[i] \in Seq(Rids)
      BY <2>1, <3>1, ScanTypes
    <3> QED BY <3>2, SeqIn
  <2>4. \A j \in DOMAIN new : \A i \in DOMAIN stmt.from : new[j][i] \in Room[stmt.from[i]]
    BY ScanTypes
  <2>5. Standing'
    BY <2>1 DEF Standing
  <2> QED BY <1>1, <2>1, <2>2, <2>4, <2>5 DEF PlanOK
<1> QED
  BY <1>2, <1>3, <1>4, <1>5, <1>6 DEF Files

LEMMA OutTypes ==
  ASSUME Files, pc = "scan"
  PROVE  /\ out \in Seq([DOMAIN stmt.from -> Rids])
         /\ \A j \in DOMAIN out : \A i \in DOMAIN stmt.from :
              out[j][i] \in DOMAIN recs[stmt.from[i]]
BY DEF Files, PlanOK

LEMMA FedCondsDomain ==
  ASSUME stmt \in Statement, NEW i
  PROVE  DOMAIN FedConds(i) \subseteq DOMAIN stmt.conds /\ DOMAIN FedConds(i) \subseteq Nat
<1>1. DOMAIN FedConds(i) \subseteq DOMAIN stmt.conds
  BY DEF FedConds, PopConds, CheckWhereClause
<1> QED
  BY <1>1, StatementTypes

\* The scan of a table that is begun.
LEMMA ScansAre ==
  ASSUME NEW t, NEW conds, NEW rids \in Scans(t, conds)
  PROVE  rids \in [1 .. Cardinality(Begun(t, conds)) -> Begun(t, conds)]
         /\ ToSet(rids) = Begun(t, conds)
BY DEF Scans

LEMMA BeginTableFiles ==
  ASSUME Files, BeginTable
  PROVE  Files'
<1> DEFINE k == Len(cursor) + 1
           t == stmt.from[k]
           conds == FedConds(k)
<1>1. pc = "scan" /\ pc' = "scan" /\ UNCHANGED <<files, stmt, work>> /\ out' = out
  BY DEF BeginTable
<1>2. k \in 1 .. Len(stmt.from) /\ t \in Tables
  BY <1>1, ScanTypes DEF BeginTable
<1>3. PICK rids \in Scans(t, conds) : cursor' = Append(cursor, rids)
  BY DEF BeginTable
<1>4. Begun(t, conds) \subseteq DOMAIN recs[t]
  BY <1>1, <1>2, FedCondsDomain, BegunLive, ScanTypes
<1>5. IsFiniteSet(Begun(t, conds)) /\ Begun(t, conds) \subseteq Rids
  BY <1>1, <1>2, <1>4, ScanTypes, RoomAssumption, FS_Subset
<1>6. rids \in Seq(Rids) /\ ToSet(rids) = Begun(t, conds)
  <2>1. Cardinality(Begun(t, conds)) \in Nat
    BY <1>5, FS_CardinalityType
  <2>2. rids \in Seq(Begun(t, conds))
    BY <2>1, ScansAre
  <2> QED BY <1>5, <2>2, ScansAre
<1> DEFINE cs == Append(cursor, rids)
<1>7. /\ cs \in Seq(Seq(Rids)) /\ Len(cs) = k /\ cs[k] = rids
      /\ \A i \in 1 .. Len(cursor) : cs[i] = cursor[i]
  <2>1. cursor \in Seq(Seq(Rids)) /\ rids \in Seq(Rids)
    BY <1>1, <1>6, ScanTypes
  <2> QED BY <2>1, AppendProperties
<1>8. \A i \in 1 .. k : ToSet(cs[i]) \subseteq DOMAIN recs[stmt.from[i]]
  <2>1. ASSUME NEW i \in 1 .. Len(cursor) PROVE ToSet(cs[i]) \subseteq DOMAIN recs[stmt.from[i]]
    BY <1>1, <1>7, ScanTypes
  <2>2. ToSet(cs[k]) \subseteq DOMAIN recs[stmt.from[k]]
    BY <1>4, <1>6, <1>7
  <2>3. 1 .. k = (1 .. Len(cursor)) \cup {k}
    BY <1>1, ScanTypes
  <2> HIDE DEF cs, k
  <2> QED BY <2>1, <2>2, <2>3
<1>9. \A i \in 1 .. k - 1 : cs[i] # << >>
  <2>1. \A i \in 1 .. Len(cursor) - 1 : cursor[i] # << >>
    BY <1>1, ScanTypes
  <2>2. CASE cursor = << >>
    BY <2>2
  <2>3. CASE cursor # << >>
    <3>1. cursor[Len(cursor)] # << >>
      BY <2>3 DEF BeginTable, Last
    <3>2. k - 1 = Len(cursor) /\ Len(cursor) \in Nat
      BY <1>1, ScanTypes
    <3> HIDE DEF cs, k
    <3> QED BY <1>7, <2>1, <3>1, <3>2
  <2> QED BY <2>2, <2>3
<1> HIDE DEF cs, k
<1>10. k <= Len(stmt.from)
  BY <1>1, <1>2, ScanTypes
<1>11. cursor' = cs
  BY <1>3 DEF cs
<1> QED
  BY <1>1, <1>7, <1>8, <1>9, <1>10, <1>11, OutTypes, PlanStep

\* A plan that stands at a row of every table of a statement.
LEMMA ColumnNotFoundFiles ==
  ASSUME Files, ColumnNotFound
  PROVE  Files'
<1>1. /\ pc = "scan" /\ pc' = "done" /\ stmt' = stmt /\ UNCHANGED <<recs, idx, todo, rid, left>>
      /\ cursor' = cursor /\ out' = out
  BY DEF ColumnNotFound, files, plan, work
<1>2. RecsOK' /\ IdxOK'
  BY <1>1, FilesKept DEF Files, files
<1>3. PhaseOK'
  BY <1>1 DEF Files, PhaseOK, Changing
<1>4. PlanOK'
  BY <1>1 DEF Files, PlanOK
<1>5. WorkOK'
  BY <1>1 DEF Files, WorkOK, Changing
<1>6. EntriesExact'
  BY <1>1, NoGap, NoGapAfter, EntriesKept DEF Files, files
<1> QED
  BY <1>2, <1>3, <1>4, <1>5, <1>6 DEF Files

LEMMA AtRow ==
  ASSUME Files, pc = "scan", cursor # << >>, Last(cursor) # << >>
  PROVE  /\ Len(cursor) \in Nat \ {0}
         /\ Advanced(cursor) \in Seq(Seq(Rids)) /\ Len(Advanced(cursor)) = Len(cursor)
         /\ \A i \in 1 .. Len(cursor) - 1 : Advanced(cursor)[i] = cursor[i]
         /\ Advanced(cursor)[Len(cursor)] = Tail(cursor[Len(cursor)])
         /\ \A i \in 1 .. Len(cursor) : ToSet(Advanced(cursor)[i]) \subseteq ToSet(cursor[i])
<1>1. cursor \in Seq(Seq(Rids)) /\ Len(cursor) \in Nat \ {0}
  BY ScanTypes, EmptySeq
<1> QED
  BY <1>1, AdvancedIs

LEMMA TakeRowFiles ==
  ASSUME Files, TakeRow
  PROVE  Files'
<1> DEFINE n == Len(stmt.from)
           h == [i \in DOMAIN cursor |-> cursor[i][1]]
<1>1. /\ pc = "scan" /\ pc' = "scan" /\ UNCHANGED <<files, stmt, work>>
      /\ Len(cursor) = n /\ Last(cursor) # << >>
      /\ out' = Append(out, h) /\ cursor' = Advanced(cursor)
  BY DEF TakeRow
<1>2. n \in Nat \ {0} /\ DOMAIN stmt.from = 1 .. n /\ DOMAIN cursor = 1 .. n
  BY <1>1, ScanTypes
<1>3. cursor # << >>
  BY <1>1, <1>2
<1>4. ASSUME NEW i \in 1 .. n
      PROVE  /\ cursor[i] \in Seq(Rids) /\ cursor[i] # << >>
             /\ h[i] \in Rids /\ h[i] \in DOMAIN recs[stmt.from[i]]
  <2>1. cursor[i] \in Seq(Rids) /\ ToSet(cursor[i]) \subseteq DOMAIN recs[stmt.from[i]]
    BY <1>1, ScanTypes
  <2>2. cursor[i] # << >>
    <3>1. CASE i = n
      BY <1>1, <3>1 DEF Last
    <3>2. CASE i # n
      BY <1>1, <1>2, <3>2, ScanTypes
    <3> QED BY <3>1, <3>2
  <2>3. cursor[i][1] \in ToSet(cursor[i]) /\ cursor[i][1] \in Rids
    BY <2>1, <2>2, TailSet, EmptySeq, ElementOfSeq
  <2> QED BY <1>2, <2>1, <2>2, <2>3
<1>5. h \in [DOMAIN stmt.from -> Rids]
  BY <1>2, <1>4
<1>6. /\ Append(out, h) \in Seq([DOMAIN stmt.from -> Rids])
      /\ DOMAIN Append(out, h) = 1 .. Len(out) + 1 /\ Append(out, h)[Len(out) + 1] = h
      /\ Len(out) \in Nat /\ DOMAIN out = 1 .. Len(out)
      /\ \A j \in 1 .. Len(out) : Append(out, h)[j] = out[j]
  <2>1. out \in Seq([DOMAIN stmt.from -> Rids])
    BY <1>1, OutTypes
  <2> HIDE DEF h
  <2> QED BY <1>5, <2>1, AppendProperties, LenProperties
<1>7. ASSUME NEW j \in DOMAIN Append(out, h), NEW i \in DOMAIN stmt.from
      PROVE  Append(out, h)[j][i] \in DOMAIN recs[stmt.from[i]]
  <2> HIDE DEF h
  <2>1. CASE j = Len(out) + 1
    BY <1>2, <1>4, <1>6, <2>1
  <2>2. CASE j # Len(out) + 1
    BY <1>1, <1>6, <2>2, OutTypes
  <2> QED BY <2>1, <2>2
<1> DEFINE cs == Advanced(cursor)
<1>8. cs \in Seq(Seq(Rids)) /\ Len(cs) = n
  BY <1>1, <1>3, AtRow
<1>9. \A i \in 1 .. Len(cs) : ToSet(cs[i]) \subseteq DOMAIN recs[stmt.from[i]]
  BY <1>1, <1>3, AtRow, ScanTypes
<1>10. \A i \in 1 .. n - 1 : cs[i] # << >>
  <2>1. \A i \in 1 .. n - 1 : cs[i] = cursor[i] /\ i \in 1 .. n
    BY <1>1, <1>2, <1>3, AtRow
  <2> HIDE DEF cs
  <2> QED BY <1>4, <2>1
<1> HIDE DEF cs, h
<1>11. cursor' = cs /\ Len(cs) <= Len(stmt.from)
  BY <1>1, <1>2, <1>8 DEF cs
<1> QED
  BY <1>1, <1>6, <1>7, <1>8, <1>9, <1>10, <1>11, PlanStep

LEMMA BackUpFiles ==
  ASSUME Files, BackUp
  PROVE  Files'
<1> DEFINE k == Len(cursor)
           front == Front(cursor)
           cs == Advanced(front)
<1>1. /\ pc = "scan" /\ pc' = "scan" /\ UNCHANGED <<files, stmt, work>> /\ out' = out
      /\ k > 1 /\ cursor' = cs
  BY DEF BackUp
<1>2. /\ k \in Nat /\ k <= Len(stmt.from) /\ k \in Nat \ {0} /\ k - 1 \in Nat \ {0}
      /\ Len(stmt.from) \in Nat /\ cursor \in Seq(Seq(Rids))
      /\ \A i \in 1 .. k - 1 : cursor[i] # << >>
  BY <1>1, ScanTypes
<1>3. /\ front \in Seq(Seq(Rids)) /\ Len(front) = k - 1
      /\ \A i \in 1 .. k - 1 : front[i] = cursor[i]
  BY <1>2, FrontIs
<1> HIDE DEF front
<1>4. Last(front) # << >>
  <2>1. k - 1 \in 1 .. k - 1
    <3>1. k \in Nat /\ k > 1
      BY <1>1, <1>2
    <3> HIDE DEF k
    <3> QED BY <3>1
  <2>2. front[k - 1] # << >>
    BY <1>2, <1>3, <2>1
  <2> QED BY <1>3, <2>2 DEF Last
<1>5. /\ cs \in Seq(Seq(Rids)) /\ Len(cs) = k - 1
      /\ \A i \in 1 .. k - 2 : cs[i] = front[i]
      /\ \A i \in 1 .. k - 1 : ToSet(cs[i]) \subseteq ToSet(front[i])
  <2>1. Len(front) \in Nat \ {0} /\ Len(front) - 1 = k - 2
    BY <1>2, <1>3
  <2> QED BY <1>3, <1>4, <2>1, AdvancedIs
<1> HIDE DEF cs
<1>6. \A i \in 1 .. Len(cs) : ToSet(cs[i]) \subseteq DOMAIN recs[stmt.from[i]]
  <2>1. \A i \in 1 .. k : ToSet(cursor[i]) \subseteq DOMAIN recs[stmt.from[i]]
    BY <1>1, ScanTypes
  <2>2. \A i \in 1 .. k - 1 : i \in 1 .. k
    BY <1>2
  <2> QED BY <1>3, <1>5, <2>1, <2>2
<1>7. Len(cs) <= Len(stmt.from)
  BY <1>2, <1>5
<1>8. \A i \in 1 .. Len(cs) - 1 : cs[i] # << >>
  <2>1. Len(cs) - 1 = k - 2 /\ \A i \in 1 .. k - 2 : i \in 1 .. k - 1
    BY <1>2, <1>5
  <2> HIDE DEF k
  <2> QED BY <1>2, <1>3, <1>5, <2>1
<1>9. cursor' = cs
  BY <1>1
<1> QED
  BY <1>1, <1>5, <1>6, <1>7, <1>8, <1>9, OutTypes, PlanStep


LEMMA EndScanFiles ==
  ASSUME Files, EndScan
  PROVE  Files'
<1> USE DEF EndScan, PlanEnded
<1>1. /\ pc = "scan" /\ pc' \in {"done", "round"} /\ UNCHANGED <<files, plan, stmt, rid, left>>
      /\ pc' = "round" <=> stmt.kind # "select"
      /\ todo' = IF pc' = "round" THEN Matched ELSE todo
  OBVIOUS
<1>2. /\ recs' = recs /\ stmt' = stmt /\ cursor' = cursor /\ out' = out /\ rid' = rid /\ left' = left
      /\ UNCHANGED files
  BY <1>1 DEF files, plan
<1>3. RecsOK' /\ IdxOK'
  BY <1>2, FilesKept DEF Files
<1>4. PhaseOK'
  BY <1>1, <1>2, StatementTypes DEF Files, PhaseOK, Changing
<1>5. PlanOK'
  BY <1>1, <1>2 DEF Files, PlanOK
<1>6. Matched' = Matched /\ Target' = Target
  BY <1>2 DEF Matched, Target
<1>7. Matched \subseteq DOMAIN recs[Target]
  <2>1. 1 \in DOMAIN stmt.from
    BY <1>1, ScanTypes
  <2>2. \A j \in DOMAIN out : out[j][1] \in DOMAIN recs[stmt.from[1]]
    BY <1>1, <2>1, OutTypes
  <2> QED BY <2>2 DEF Matched, Target, ToSet
<1>8. WorkOK'
  <2>1. rid' = NoRid /\ left' = {} /\ todo = {}
    BY <1>1, <1>2 DEF Files, WorkOK, Changing
  <2>2. CASE pc' = "done"
    BY <1>1, <2>1, <2>2 DEF WorkOK, Changing
  <2>3. CASE pc' = "round"
    <3>1. todo' = Matched' /\ Matched' \subseteq DOMAIN recs'[Target'] /\ stmt'.kind # "insert"
      BY <1>1, <1>2, <1>6, <1>7, <2>3, ScanTypes
    <3> QED BY <2>1, <2>3, <3>1 DEF WorkOK, Changing
  <2> QED BY <1>1, <2>2, <2>3
<1>9. EntriesExact'
  <2>1. \A i \in Indexed : Gap(i[1], i[2]) = {}
    BY <1>1, NoGap
  <2>2. ASSUME NEW i \in Indexed PROVE Gap(i[1], i[2])' = {}
    <3>1. CASE pc' = "done"
      BY <3>1, NoGapAfter
    <3>2. CASE pc' = "round"
      <4>1. todo' = Matched'
        BY <1>1, <1>6, <3>2
      <4> QED BY <3>2, <4>1 DEF Gap, Missing
    <3> QED BY <1>1, <3>1, <3>2
  <2> QED BY <1>2, <2>1, <2>2, EntriesKept DEF Files
<1> QED
  BY <1>3, <1>4, <1>5, <1>8, <1>9 DEF Files

-----------------------------------------------------------------------------
(* Steps that change records and entries.                                  *)

LEMMA ChangeTypes ==
  ASSUME Files, pc \in Changing \cup {"put"}
  PROVE  /\ stmt \in Statement /\ ~Refused(stmt) /\ stmt.kind \in {"insert", "delete", "update"}
         /\ Target \in Tables
         /\ recs = [t \in Tables |-> recs[t]] /\ idx = [i \in Indexed |-> idx[i]]
         /\ \A t \in Tables :
              DOMAIN recs[t] \subseteq Room[t] /\ recs[t] \in [DOMAIN recs[t] -> Row(t)]
         /\ \A t \in Tables : Room[t] \subseteq Rids /\ NoRid \notin Room[t]
         /\ \A c \in Touched : <<Target, c>> \in Indexed /\ c \in ToSet(Cols[Target])
         /\ \A c : <<Target, c>> \in Indexed => c \in ToSet(Cols[Target])
         /\ stmt.kind # "update" => \A c : <<Target, c>> \in Indexed => c \in Touched
<1>1. stmt \in Statement /\ ~Refused(stmt) /\ stmt.kind \in {"insert", "delete", "update"}
  BY StatementTypes, StatementTables DEF Files, PhaseOK, Changing
<1>2. Target \in Tables
  BY <1>1, StatementTypes, StatementTables DEF Target
<1>3. \A c : <<Target, c>> \in Indexed => c \in ToSet(Cols[Target])
  BY IndexedAssumption
<1>4. \A t \in Tables : Room[t] \subseteq Rids /\ NoRid \notin Room[t]
  BY RoomAssumption DEF Rids, NoRid
<1>5. \A c \in Touched : <<Target, c>> \in Indexed /\ c \in ToSet(Cols[Target])
  BY DEF Touched
<1>6. stmt.kind # "update" => \A c : <<Target, c>> \in Indexed => c \in Touched
  BY <1>3 DEF Touched
<1>7. /\ recs = [t \in Tables |-> recs[t]] /\ idx = [i \in Indexed |-> idx[i]]
      /\ \A t \in Tables :
           DOMAIN recs[t] \subseteq Room[t] /\ recs[t] \in [DOMAIN recs[t] -> Row(t)]
  BY DEF Files, RecsOK, IdxOK
<1> QED
  BY <1>1, <1>2, <1>3, <1>4, <1>5, <1>6, <1>7

LEMMA PlanKept ==
  ASSUME Files, pc # "idle", pc' \notin {"idle", "put", "scan"}, UNCHANGED <<plan, stmt>>
  PROVE  PlanOK' /\ Matched' = Matched /\ Target' = Target /\ Touched' = Touched
<1>1. cursor' = cursor /\ out' = out /\ stmt' = stmt
  BY DEF plan
<1>2. PlanOK'
  BY <1>1 DEF Files, PlanOK
<1> QED
  BY <1>1, <1>2 DEF Matched, Target, Touched

LEMMA MatchedRids ==
  ASSUME Files, pc \in Changing, stmt.kind # "insert"
  PROVE  Matched \subseteq Room[Target]
<1>1. 1 \in DOMAIN stmt.from
  BY ChangeTypes, StatementTypes, StatementTables
<1>2. \A j \in DOMAIN out : out[j][1] \in Room[stmt.from[1]]
  BY <1>1 DEF Files, PlanOK, Changing
<1> QED
  BY <1>2 DEF Matched, Target, ToSet

\* A step on the table a statement changes leaves the other indexes as they were.
LEMMA OtherTables ==
  ASSUME Files, pc \in Changing \cup {"put"}, pc' # "idle", stmt' = stmt, Target' = Target,
         \A t \in Tables : t # Target => recs'[t] = recs[t],
         \A i \in Indexed : i[1] # Target => idx'[i] = idx[i],
         \A c : <<Target, c>> \in Indexed =>
           idx'[<<Target, c>>] =
             EntriesFor(recs'[Target], c, DOMAIN recs'[Target] \ Missing(Target, c)')
  PROVE  EntriesExact'
<1>1. ASSUME NEW i \in Indexed
      PROVE  idx'[i] = EntriesFor(recs'[i[1]], i[2], DOMAIN recs'[i[1]] \ Gap(i[1], i[2])')
  <2>1. i = <<i[1], i[2]>> /\ i[1] \in Tables
    BY IndexedAssumption
  <2>2. CASE i[1] = Target
    <3>1. Gap(i[1], i[2])' = Missing(i[1], i[2])'
      BY DEF Gap
    <3>2. Missing(i[1], i[2])' = Missing(Target, i[2])'
      BY <2>2
    <3> QED BY <2>1, <2>2, <3>1, <3>2
  <2>3. CASE i[1] # Target
    <3>1. Gap(i[1], i[2]) = {} /\ Gap(i[1], i[2])' = {}
      BY <2>3 DEF Gap, Missing
    <3>2. idx[i] = EntriesFor(recs[i[1]], i[2], DOMAIN recs[i[1]] \ Gap(i[1], i[2]))
      BY EntriesExactDef DEF Files
    <3> QED BY <2>1, <2>3, <3>1, <3>2
  <2> QED BY <2>2, <2>3
<1> QED
  BY <1>1 DEF EntriesExact, EntriesFor, Gap

\* What the index of a column of that table holds.
LEMMA TargetIndex ==
  ASSUME Files, pc \in Changing \cup {"put"}, NEW c, <<Target, c>> \in Indexed
  PROVE  idx[<<Target, c>>] =
           EntriesFor(recs[Target], c, DOMAIN recs[Target] \ Missing(Target, c))
<1>1. idx[<<Target, c>>] = EntriesFor(recs[Target], c, DOMAIN recs[Target] \ Gap(Target, c))
  BY EntriesExactDef DEF Files
<1>2. Gap(Target, c) = Missing(Target, c)
  BY DEF Gap, Changing
<1> QED
  BY <1>1, <1>2

LEMMA PutRecordFiles ==
  ASSUME Files, PutRecord
  PROVE  Files'
<1>1. /\ pc = "put" /\ pc' = "index" /\ idx' = idx /\ stmt' = stmt /\ UNCHANGED plan
      /\ todo' = todo /\ left' = Touched
  BY DEF PutRecord
<1>2. PICK r \in Room[Target] \ DOMAIN recs[Target] :
        /\ recs' = [recs EXCEPT ![Target] =
                      [q \in DOMAIN @ \cup {r} |->
                         IF q = r THEN RecordOf(Target, stmt.row) ELSE @[q]]]
        /\ rid' = r
  BY DEF PutRecord
<1> DEFINE T == Target
           D == DOMAIN recs[Target]
           row == RecordOf(Target, stmt.row)
           new == [q \in D \cup {r} |-> IF q = r THEN row ELSE recs[Target][q]]
<1>3. /\ stmt.kind = "insert" /\ T \in Tables /\ row \in Row(T)
  BY <1>1, ChangeTypes, InsertedRow DEF Files, PhaseOK, Target
<1>4. recs' = [recs EXCEPT ![T] = new]
  BY <1>2
<1>5. recs'[T] = new /\ \A t \in Tables : t # T => recs'[t] = recs[t]
  BY <1>1, <1>3, <1>4, ChangeTypes
<1>6. new \in [D \cup {r} -> Row(T)] /\ D \cup {r} \subseteq Room[T] /\ DOMAIN new = D \cup {r}
  BY <1>1, <1>2, <1>3, ChangeTypes
<1>7. RecsOK' /\ IdxOK'
  <2>1. recs' = [t \in Tables |-> recs'[t]]
    BY <1>1, <1>4, ChangeTypes
  <2>2. ASSUME NEW t \in Tables
        PROVE  DOMAIN recs'[t] \subseteq Room[t] /\ recs'[t] \in [DOMAIN recs'[t] -> Row(t)]
    BY <1>1, <1>5, <1>6, ChangeTypes
  <2> QED BY <1>1, <2>1, <2>2, ChangeTypes DEF RecsOK, IdxOK
<1>8. PhaseOK'
  BY <1>1, <1>3 DEF Files, PhaseOK, Changing
<1>9. PlanOK' /\ Matched' = Matched /\ Target' = Target /\ Touched' = Touched
  BY <1>1, PlanKept
<1>10. WorkOK'
  <2>1. todo' = {} /\ rid' \in DOMAIN recs'[Target'] /\ left' = Touched' /\ stmt'.kind = "insert"
    BY <1>1, <1>2, <1>3, <1>5, <1>6, <1>9 DEF Files, WorkOK, Changing
  <2> QED BY <1>1, <2>1 DEF WorkOK, Changing
<1>11. EntriesExact'
  <2>1. ASSUME NEW c, <<Target, c>> \in Indexed
        PROVE  idx'[<<Target, c>>] =
                 EntriesFor(recs'[Target], c, DOMAIN recs'[Target] \ Missing(Target, c)')
    <3>1. idx[<<T, c>>] = EntriesFor(recs[T], c, D \ {})
      BY <1>1, <2>1, TargetIndex DEF Missing
    <3>2. c \in left'
      BY <1>1, <1>3, <2>1, ChangeTypes
    <3>3. Missing(T, c)' = {r}
      BY <1>1, <1>2, <1>9, <3>2 DEF Missing
    <3>4. DOMAIN recs'[T] \ {r} = D /\ \A q \in D : recs'[T][q] = recs[T][q]
      BY <1>2, <1>5, <1>6
    <3>5. EntriesFor(recs'[T], c, D) = EntriesFor(recs[T], c, D)
      BY <3>4 DEF EntriesFor
    <3> HIDE DEF D, new
    <3> QED BY <1>1, <3>1, <3>3, <3>4, <3>5
  <2> QED BY <1>1, <1>5, <1>9, <2>1, OtherTables
<1> QED
  BY <1>7, <1>8, <1>9, <1>10, <1>11 DEF Files

\* A step of a change that leaves the files alone, and the gaps of that table.
LEMMA GapsKept ==
  ASSUME Files, pc \in Changing, pc' \in Changing \cup {"done"}, UNCHANGED <<files, stmt>>,
         \A c : <<Target, c>> \in Indexed => Missing(Target, c)' = Missing(Target, c)
  PROVE  RecsOK' /\ IdxOK' /\ EntriesExact'
<1>1. Target' = Target /\ UNCHANGED files
  BY DEF Target
<1>2. ASSUME NEW i \in Indexed PROVE Gap(i[1], i[2])' = Gap(i[1], i[2])
  <2>1. i = <<i[1], i[2]>>
    BY IndexedAssumption
  <2>2. CASE i[1] = Target
    <3>1. <<Target, i[2]>> \in Indexed
      BY <2>1, <2>2
    <3>2. Missing(Target, i[2])' = Missing(Target, i[2])
      BY <3>1
    <3>3. Missing(i[1], i[2]) = Missing(Target, i[2])
      BY <2>2
    <3>4. Missing(i[1], i[2])' = Missing(Target, i[2])'
      BY <1>1, <2>2
    <3> QED BY <3>2, <3>3, <3>4 DEF Gap, Changing
  <2>3. CASE i[1] # Target
    BY <1>1, <2>3 DEF Gap, Missing
  <2> QED BY <2>2, <2>3
<1> QED
  BY <1>1, <1>2, FilesKept, EntriesKept DEF Files

LEMMA NextRecordFiles ==
  ASSUME Files, NextRecord
  PROVE  Files'
<1>1. /\ pc = "round" /\ pc' = "unindex" /\ UNCHANGED <<files, stmt, plan>> /\ left' = Touched
      /\ stmt' = stmt /\ recs' = recs
  BY DEF NextRecord, files
<1>2. rid' \in todo /\ todo' = todo \ {rid'}
  BY DEF NextRecord
<1>3. stmt.kind \in {"delete", "update"} /\ todo \subseteq Matched /\ Matched \subseteq DOMAIN recs[Target]
  BY <1>1 DEF Files, PhaseOK, WorkOK, Changing
<1>4. PlanOK' /\ Matched' = Matched /\ Target' = Target /\ Touched' = Touched
  BY <1>1, PlanKept
<1>5. PhaseOK'
  BY <1>1, <1>3 DEF Files, PhaseOK, Changing
<1>6. WorkOK'
  <2>1. /\ todo' \subseteq Matched' /\ rid' \in DOMAIN recs'[Target'] /\ left' \subseteq Touched'
        /\ rid' \in Matched' \ todo' /\ Matched' \subseteq DOMAIN recs'[Target']
    BY <1>1, <1>2, <1>3, <1>4
  <2> QED BY <1>1, <1>3, <2>1 DEF WorkOK, Changing
<1>7. ASSUME NEW c PROVE Missing(Target, c)' = Missing(Target, c)
  <2>1. Touched' \ left' = {}
    BY <1>1, <1>4
  <2>2. Matched' \ (todo' \cup {rid'}) = Matched \ todo
    BY <1>2, <1>4
  <2> QED BY <1>1, <1>3, <1>4, <2>1, <2>2 DEF Missing
<1>8. RecsOK' /\ IdxOK' /\ EntriesExact'
  BY <1>1, <1>7, GapsKept DEF Changing
<1> QED
  BY <1>4, <1>5, <1>6, <1>8 DEF Files

LEMMA UnindexedFiles ==
  ASSUME Files, Unindexed
  PROVE  Files'
<1>1. /\ pc = "unindex" /\ pc' = "round" /\ UNCHANGED <<files, stmt, plan>>
      /\ left = {} /\ left' = {} /\ todo' = todo /\ rid' = NoRid
      /\ stmt.kind = "delete" /\ stmt' = stmt /\ recs' = recs
  BY DEF Unindexed, files
<1>2. todo \subseteq Matched /\ rid \in Matched \ todo /\ Matched \subseteq DOMAIN recs[Target]
  BY <1>1 DEF Files, WorkOK, Changing
<1>3. PlanOK' /\ Matched' = Matched /\ Target' = Target
  BY <1>1, PlanKept
<1>4. PhaseOK'
  BY <1>1 DEF Files, PhaseOK, Changing
<1>5. WorkOK'
  <2>1. todo' \subseteq Matched' /\ Matched' \subseteq DOMAIN recs'[Target']
    BY <1>1, <1>2, <1>3
  <2> QED BY <1>1, <2>1 DEF WorkOK, Changing
<1>6. ASSUME NEW c, <<Target, c>> \in Indexed PROVE Missing(Target, c)' = Missing(Target, c)
  <2>1. c \in Touched \ left
    BY <1>1, <1>6, ChangeTypes DEF Changing
  <2>2. Missing(Target, c) = {rid} \cup (Matched \ (todo \cup {rid}))
    BY <1>1, <2>1 DEF Missing
  <2>3. Missing(Target, c)' = Matched \ todo
    BY <1>1, <1>3 DEF Missing
  <2> QED BY <1>2, <2>2, <2>3
<1>7. RecsOK' /\ IdxOK' /\ EntriesExact'
  BY <1>1, <1>6, GapsKept DEF Changing
<1> QED
  BY <1>3, <1>4, <1>5, <1>7 DEF Files

LEMMA IndexedAllFiles ==
  ASSUME Files, IndexedAll
  PROVE  Files'
<1>1. /\ pc = "index" /\ UNCHANGED <<files, stmt, plan>>
      /\ pc' = IF stmt.kind = "insert" THEN "done" ELSE "round"
      /\ left = {} /\ left' = {} /\ todo' = todo /\ rid' = NoRid
      /\ stmt' = stmt /\ recs' = recs
  BY DEF IndexedAll, files
<1>2. /\ stmt.kind \in {"insert", "update"}
      /\ stmt.kind = "insert" => todo = {}
      /\ stmt.kind = "update" => todo \subseteq Matched /\ Matched \subseteq DOMAIN recs[Target]
  BY <1>1 DEF Files, PhaseOK, WorkOK, Changing
<1>3. PlanOK' /\ Matched' = Matched /\ Target' = Target
  BY <1>1, PlanKept
<1>4. PhaseOK'
  BY <1>1, <1>2 DEF Files, PhaseOK, Changing
<1>5. WorkOK'
  <2>1. stmt.kind = "update" => todo' \subseteq Matched' /\ Matched' \subseteq DOMAIN recs'[Target']
    BY <1>1, <1>2, <1>3
  <2> QED BY <1>1, <1>2, <2>1 DEF WorkOK, Changing
<1>6. ASSUME NEW c PROVE Missing(Target, c)' = Missing(Target, c)
  BY <1>1, <1>2, <1>3 DEF Missing
<1>7. RecsOK' /\ IdxOK' /\ EntriesExact'
  BY <1>1, <1>6, GapsKept DEF Changing
<1> QED
  BY <1>3, <1>4, <1>5, <1>7 DEF Files

LEMMA EndRoundsFiles ==
  ASSUME Files, EndRounds
  PROVE  Files'
<1>1. /\ pc = "round" /\ UNCHANGED <<files, stmt, plan>>
      /\ todo = {} /\ rid' = rid /\ left' = left /\ stmt' = stmt /\ recs' = recs
      /\ pc' = IF stmt.kind = "delete" THEN "erase" ELSE "done"
      /\ todo' = IF stmt.kind = "delete" THEN Matched ELSE todo
  BY DEF EndRounds, files
<1>2. /\ stmt.kind \in {"delete", "update"} /\ rid = NoRid /\ left = {}
      /\ Matched \subseteq DOMAIN recs[Target]
  BY <1>1 DEF Files, PhaseOK, WorkOK, Changing
<1>3. PlanOK' /\ Matched' = Matched /\ Target' = Target
  BY <1>1, PlanKept
<1>4. PhaseOK'
  BY <1>1, <1>2 DEF Files, PhaseOK, Changing
<1>5. WorkOK'
  <2>1. stmt.kind = "delete" => todo' = Matched' /\ Matched' \cap DOMAIN recs'[Target'] = todo'
    BY <1>1, <1>2, <1>3
  <2> QED BY <1>1, <1>2, <2>1 DEF WorkOK, Changing
<1>6. ASSUME NEW c PROVE Missing(Target, c)' = Missing(Target, c)
  BY <1>1, <1>2, <1>3 DEF Missing
<1>7. RecsOK' /\ IdxOK' /\ EntriesExact'
  BY <1>1, <1>6, GapsKept DEF Changing
<1> QED
  BY <1>3, <1>4, <1>5, <1>7 DEF Files

LEMMA ReturnFiles ==
  ASSUME Files, Return
  PROVE  Files'
<1>1. /\ pc = "done" \/ (pc = "erase" /\ todo = {})
      /\ pc' = "idle" /\ stmt' = NoStatement /\ cursor' = << >> /\ out' = << >>
      /\ UNCHANGED files /\ todo' = todo /\ rid' = rid /\ left' = left
  BY DEF Return, work
<1>2. todo = {} /\ rid = NoRid /\ left = {}
  BY <1>1 DEF Files, WorkOK, Changing
<1>3. RecsOK' /\ IdxOK'
  BY <1>1, FilesKept DEF Files
<1>4. PhaseOK'
  BY <1>1 DEF PhaseOK, Changing
<1>5. PlanOK'
  BY <1>1 DEF PlanOK
<1>6. WorkOK'
  BY <1>1, <1>2 DEF WorkOK, Changing
<1>7. EntriesExact'
  <2>1. ASSUME NEW t, NEW c PROVE Gap(t, c) = {}
    BY <1>1 DEF Gap, Missing
  <2> QED BY <1>1, <2>1, NoGapAfter, EntriesKept DEF Files
<1> QED
  BY <1>3, <1>4, <1>5, <1>6, <1>7 DEF Files


LEMMA WriteRecordFiles ==
  ASSUME Files, WriteRecord
  PROVE  Files'
<1> DEFINE T == Target
           D == DOMAIN recs[Target]
           row == recs[Target][rid]
           new == [recs[Target] EXCEPT ![rid] = Assigned(row)]
<1>1. /\ pc = "unindex" /\ pc' = "index" /\ idx' = idx /\ stmt' = stmt /\ UNCHANGED plan
      /\ todo' = todo /\ rid' = rid /\ left = {} /\ left' = Touched /\ stmt.kind = "update"
      /\ recs' = [recs EXCEPT ![Target][rid] = Assigned(@)]
  BY DEF WriteRecord
<1>2. /\ todo \subseteq Matched /\ rid \in Matched \ todo /\ Matched \subseteq D /\ rid \in D
  BY <1>1 DEF Files, WorkOK, Changing
<1>3. T \in Tables /\ row \in Row(T) /\ recs[T] \in [D -> Row(T)] /\ D \subseteq Room[T]
  BY <1>1, <1>2, ChangeTypes DEF Changing
<1>4. recs' = [recs EXCEPT ![T] = new]
  BY <1>1, <1>2, <1>3
<1>5. recs'[T] = new /\ \A t \in Tables : t # T => recs'[t] = recs[t]
  BY <1>1, <1>3, <1>4, ChangeTypes DEF Changing
<1>6. /\ Assigned(row) \in Row(T)
      /\ \A c \in ToSet(Cols[T]) :
           (\A j \in DOMAIN stmt.sets : stmt.sets[j][1] # c) => Assigned(row)[c] = row[c]
  BY <1>1, <1>3, AssignedRow, ChangeTypes DEF Changing
<1>7. new \in [D -> Row(T)] /\ DOMAIN new = D
  BY <1>3, <1>6
<1>8. RecsOK' /\ IdxOK'
  <2>1. recs' = [t \in Tables |-> recs'[t]]
    BY <1>1, <1>4, ChangeTypes DEF Changing
  <2>2. ASSUME NEW t \in Tables
        PROVE  DOMAIN recs'[t] \subseteq Room[t] /\ recs'[t] \in [DOMAIN recs'[t] -> Row(t)]
    BY <1>1, <1>3, <1>5, <1>7, ChangeTypes DEF Changing
  <2> QED BY <1>1, <2>1, <2>2, ChangeTypes DEF RecsOK, IdxOK, Changing
<1>9. PhaseOK'
  BY <1>1 DEF Files, PhaseOK, Changing
<1>10. PlanOK' /\ Matched' = Matched /\ Target' = Target /\ Touched' = Touched
  BY <1>1, PlanKept
<1>11. WorkOK'
  <2>1. /\ todo' \subseteq Matched' /\ rid' \in Matched' \ todo' /\ rid' \in DOMAIN recs'[Target']
        /\ left' = Touched' /\ Matched' \subseteq DOMAIN recs'[Target']
    BY <1>1, <1>2, <1>5, <1>7, <1>10
  <2> QED BY <1>1, <2>1 DEF WorkOK, Changing
<1>12. EntriesExact'
  <2>1. ASSUME NEW c, <<Target, c>> \in Indexed
        PROVE  idx'[<<Target, c>>] =
                 EntriesFor(recs'[Target], c, DOMAIN recs'[Target] \ Missing(Target, c)')
    <3> DEFINE M == IF c \in Touched THEN {rid} ELSE {}
    <3>1. idx[<<T, c>>] = EntriesFor(recs[T], c, D \ M)
      <4>1. Missing(T, c) = M
        BY <1>1 DEF Missing
      <4> QED BY <1>1, <2>1, <4>1, TargetIndex DEF Changing
    <3>2. Missing(T, c)' = M
      BY <1>1, <1>10 DEF Missing
    <3>3. \A q \in D \ M : recs'[T][q][c] = recs[T][q][c]
      <4>1. ASSUME NEW q \in D, q # rid PROVE recs'[T][q] = recs[T][q]
        BY <1>3, <1>5, <4>1
      <4>2. CASE c \notin Touched
        <5>1. c \in ToSet(Cols[T])
          BY <1>1, <2>1, ChangeTypes DEF Changing
        <5>2. \A j \in DOMAIN stmt.sets : stmt.sets[j][1] # c
          BY <1>1, <2>1, <4>2, <5>1 DEF Touched
        <5>3. Assigned(row)[c] = row[c]
          BY <1>6, <5>1, <5>2
        <5>4. recs'[T][rid] = Assigned(row)
          BY <1>2, <1>3, <1>5
        <5> QED BY <4>1, <5>3, <5>4
      <4> QED BY <4>1, <4>2
    <3> HIDE DEF M, new
    <3>4. EntriesFor(recs'[T], c, D \ M) = EntriesFor(recs[T], c, D \ M)
      BY <3>3 DEF EntriesFor
    <3>5. DOMAIN recs'[T] = D
      BY <1>5, <1>7
    <3> QED BY <1>1, <3>1, <3>2, <3>4, <3>5
  <2> QED BY <1>1, <1>5, <1>10, <2>1, OtherTables DEF Changing
<1> QED
  BY <1>8, <1>9, <1>10, <1>11, <1>12 DEF Files

LEMMA EraseRecordFiles ==
  ASSUME Files, EraseRecord
  PROVE  Files'
<1>1. /\ pc = "erase" /\ pc' = "erase" /\ idx' = idx /\ stmt' = stmt /\ UNCHANGED plan
      /\ rid' = rid /\ left' = left
  BY DEF EraseRecord
<1>2. PICK r \in todo :
        /\ recs' = [recs EXCEPT ![Target] = [q \in DOMAIN @ \ {r} |-> @[q]]]
        /\ todo' = todo \ {r}
  BY DEF EraseRecord
<1> DEFINE T == Target
           D == DOMAIN recs[Target]
           new == [q \in D \ {r} |-> recs[Target][q]]
<1>3. /\ stmt.kind = "delete" /\ todo \subseteq Matched /\ Matched \cap D = todo
      /\ rid = NoRid /\ left = {}
  BY <1>1 DEF Files, PhaseOK, WorkOK, Changing
<1>4. T \in Tables /\ recs[T] \in [D -> Row(T)] /\ D \subseteq Room[T]
  BY <1>1, ChangeTypes DEF Changing
<1>5. recs' = [recs EXCEPT ![T] = new]
  BY <1>2
<1>6. recs'[T] = new /\ \A t \in Tables : t # T => recs'[t] = recs[t]
  BY <1>1, <1>4, <1>5, ChangeTypes DEF Changing
<1>7. new \in [D \ {r} -> Row(T)] /\ DOMAIN new = D \ {r}
  BY <1>4
<1>8. RecsOK' /\ IdxOK'
  <2>1. recs' = [t \in Tables |-> recs'[t]]
    BY <1>1, <1>5, ChangeTypes DEF Changing
  <2>2. ASSUME NEW t \in Tables
        PROVE  DOMAIN recs'[t] \subseteq Room[t] /\ recs'[t] \in [DOMAIN recs'[t] -> Row(t)]
    BY <1>1, <1>4, <1>6, <1>7, ChangeTypes DEF Changing
  <2> QED BY <1>1, <2>1, <2>2, ChangeTypes DEF RecsOK, IdxOK, Changing
<1>9. PhaseOK'
  BY <1>1 DEF Files, PhaseOK, Changing
<1>10. PlanOK' /\ Matched' = Matched /\ Target' = Target
  BY <1>1, PlanKept
<1>11. WorkOK'
  <2>1. DOMAIN recs'[Target'] = D \ {r}
    BY <1>6, <1>7, <1>10
  <2>2. todo' \subseteq Matched' /\ Matched' \cap DOMAIN recs'[Target'] = todo'
    BY <1>2, <1>3, <1>10, <2>1
  <2> QED BY <1>1, <1>3, <2>2 DEF WorkOK, Changing
<1>12. EntriesExact'
  <2>1. ASSUME NEW c, <<Target, c>> \in Indexed
        PROVE  idx'[<<Target, c>>] =
                 EntriesFor(recs'[Target], c, DOMAIN recs'[Target] \ Missing(Target, c)')
    <3>1. Missing(T, c) = todo /\ Missing(T, c)' = todo'
      BY <1>1, <1>10 DEF Missing
    <3>2. idx[<<T, c>>] = EntriesFor(recs[T], c, D \ todo)
      BY <1>1, <2>1, <3>1, TargetIndex DEF Changing
    <3>3. DOMAIN recs'[T] \ todo' = D \ todo /\ \A q \in D \ todo : recs'[T][q] = recs[T][q]
      BY <1>2, <1>6, <1>7
    <3> HIDE DEF D, new
    <3>4. EntriesFor(recs'[T], c, D \ todo) = EntriesFor(recs[T], c, D \ todo)
      BY <3>3 DEF EntriesFor
    <3> QED BY <1>1, <3>1, <3>2, <3>3, <3>4
  <2> QED BY <1>1, <1>6, <1>10, <2>1, OtherTables DEF Changing
<1> QED
  BY <1>8, <1>9, <1>10, <1>11, <1>12 DEF Files


\* A step on the index of one column leaves everything but that index and the
\* columns still to do as it was.
LEMMA EntryStep ==
  ASSUME Files, pc \in {"unindex", "index"}, pc' = pc, NEW c \in left, left' = left \ {c}, NEW es,
         idx' = [idx EXCEPT ![<<Target, c>>] = es], UNCHANGED <<recs, stmt, plan, todo, rid>>,
         es = EntriesFor(recs[Target], c, DOMAIN recs[Target] \ Missing(Target, c)')
  PROVE  Files'
<1>1. recs' = recs /\ stmt' = stmt /\ todo' = todo /\ rid' = rid /\ UNCHANGED plan
  OBVIOUS
<1>2. PlanOK' /\ Matched' = Matched /\ Target' = Target /\ Touched' = Touched
  BY <1>1, PlanKept
<1>3. <<Target, c>> \in Indexed /\ left \subseteq Touched
  BY ChangeTypes DEF Files, WorkOK, Changing
<1>4. RecsOK' /\ IdxOK'
  <2>1. idx = [i \in Indexed |-> idx[i]]
    BY DEF Files, IdxOK
  <2>2. idx' = [i \in Indexed |-> idx'[i]]
    BY <2>1
  <2> QED BY <1>1, <2>2 DEF Files, RecsOK, IdxOK
<1>5. PhaseOK'
  BY <1>1 DEF Files, PhaseOK, Changing
<1>6. WorkOK'
  BY <1>1, <1>2, <1>3 DEF Files, WorkOK, Changing
<1>7. idx'[<<Target, c>>] = es /\ \A i \in Indexed : i # <<Target, c>> => idx'[i] = idx[i]
  BY <1>3, ChangeTypes DEF Changing
<1>8. ASSUME NEW d, <<Target, d>> \in Indexed
      PROVE  idx'[<<Target, d>>] =
               EntriesFor(recs'[Target], d, DOMAIN recs'[Target] \ Missing(Target, d)')
  <2>1. CASE d = c
    BY <1>1, <1>7, <2>1
  <2>2. CASE d # c
    <3>1. Missing(Target, d)' = Missing(Target, d)
      <4>1. d \in left' <=> d \in left
        BY <2>2
      <4> QED BY <1>1, <1>2, <4>1 DEF Missing
    <3>2. idx[<<Target, d>>] = EntriesFor(recs[Target], d, DOMAIN recs[Target] \ Missing(Target, d))
      BY <1>8, TargetIndex DEF Changing
    <3>3. idx'[<<Target, d>>] = idx[<<Target, d>>]
      BY <1>7, <1>8, <2>2
    <3> QED BY <1>1, <3>1, <3>2, <3>3
  <2> QED BY <2>1, <2>2
<1>9. EntriesExact'
  <2>1. \A i \in Indexed : i[1] # Target => idx'[i] = idx[i]
    BY <1>7
  <2> QED BY <1>1, <1>2, <1>8, <2>1, OtherTables DEF Changing
<1> QED
  BY <1>2, <1>4, <1>5, <1>6, <1>9 DEF Files

LEMMA DropEntryFiles ==
  ASSUME Files, DropEntry
  PROVE  Files'
<1>1. pc = "unindex" /\ pc' = pc /\ UNCHANGED <<recs, stmt, plan, todo, rid>>
  BY DEF DropEntry
<1>2. PICK c \in left : /\ idx' = [idx EXCEPT ![<<Target, c>>] = @ \ {EntryOf(c)}]
                        /\ left' = left \ {c}
  BY DEF DropEntry
<1> DEFINE i == <<Target, c>>
           X == IF stmt.kind = "delete" THEN Matched \ (todo \cup {rid}) ELSE {}
<1>3. i \in Indexed /\ c \in Touched
  BY <1>1, ChangeTypes DEF Files, WorkOK, Changing
<1>4. idx' = [idx EXCEPT ![i] = idx[i] \ {EntryOf(c)}]
  BY <1>2
<1>5. Target' = Target /\ Matched' = Matched /\ Touched' = Touched
  BY <1>1, PlanKept
<1>6. Missing(Target, c) = X
  BY <1>1, <1>2 DEF Missing
<1>7. Missing(Target, c)' = {rid} \cup X
  BY <1>1, <1>2, <1>3, <1>5 DEF Missing
<1>8. idx[i] = EntriesFor(recs[Target], c, DOMAIN recs[Target] \ X)
  BY <1>1, <1>3, <1>6, TargetIndex DEF Changing
<1>9. idx[i] \ {EntryOf(c)} = EntriesFor(recs[Target], c, (DOMAIN recs[Target] \ X) \ {rid})
  <2> HIDE DEF X, i
  <2>1. idx[i] \ {EntryOf(c)} \subseteq
          EntriesFor(recs[Target], c, (DOMAIN recs[Target] \ X) \ {rid})
    BY <1>8 DEF EntriesFor, EntryOf
  <2>2. EntriesFor(recs[Target], c, (DOMAIN recs[Target] \ X) \ {rid}) \subseteq
          idx[i] \ {EntryOf(c)}
    BY <1>8 DEF EntriesFor, EntryOf
  <2> QED BY <2>1, <2>2
<1>10. (DOMAIN recs[Target] \ X) \ {rid} = DOMAIN recs[Target] \ ({rid} \cup X)
  OBVIOUS
<1> HIDE DEF X
<1> QED
  BY <1>1, <1>2, <1>4, <1>7, <1>9, <1>10, EntryStep

LEMMA PutEntryFiles ==
  ASSUME Files, PutEntry
  PROVE  Files'
<1>1. pc = "index" /\ pc' = pc /\ UNCHANGED <<recs, stmt, plan, todo, rid>>
  BY DEF PutEntry
<1>2. PICK c \in left : /\ idx' = [idx EXCEPT ![<<Target, c>>] = @ \cup {EntryOf(c)}]
                        /\ left' = left \ {c}
  BY DEF PutEntry
<1> DEFINE i == <<Target, c>>
<1>3. i \in Indexed /\ rid \in DOMAIN recs[Target]
  BY <1>1, ChangeTypes DEF Files, WorkOK, Changing
<1>4. idx' = [idx EXCEPT ![i] = idx[i] \cup {EntryOf(c)}]
  BY <1>2
<1>5. Target' = Target
  BY <1>1, PlanKept
<1>6. Missing(Target, c) = {rid} /\ Missing(Target, c)' = {}
  BY <1>1, <1>2, <1>5 DEF Missing
<1>7. idx[i] = EntriesFor(recs[Target], c, DOMAIN recs[Target] \ {rid})
  BY <1>1, <1>3, <1>6, TargetIndex DEF Changing
<1>8. idx[i] \cup {EntryOf(c)} = EntriesFor(recs[Target], c, DOMAIN recs[Target] \ {})
  <2> HIDE DEF i
  <2>1. idx[i] \cup {EntryOf(c)} \subseteq EntriesFor(recs[Target], c, DOMAIN recs[Target] \ {})
    BY <1>3, <1>7 DEF EntriesFor, EntryOf
  <2>2. EntriesFor(recs[Target], c, DOMAIN recs[Target] \ {}) \subseteq idx[i] \cup {EntryOf(c)}
    BY <1>7 DEF EntriesFor, EntryOf
  <2> QED BY <2>1, <2>2
<1> QED
  BY <1>1, <1>2, <1>4, <1>6, <1>8, EntryStep

LEMMA FilesStep == Files /\ [Next]_vars => Files'
<1> SUFFICES ASSUME Files, [Next]_vars PROVE Files'
  OBVIOUS
<1>1. CASE \E s \in Statement : Start(s)
  BY <1>1, StartFiles
<1>2. CASE BeginTable
  BY <1>2, BeginTableFiles
<1>3. CASE TakeRow
  BY <1>3, TakeRowFiles
<1>4. CASE BackUp
  BY <1>4, BackUpFiles
<1>5. CASE EndScan
  BY <1>5, EndScanFiles
<1>6. CASE PutRecord
  BY <1>6, PutRecordFiles
<1>7. CASE PutEntry
  BY <1>7, PutEntryFiles
<1>8. CASE IndexedAll
  BY <1>8, IndexedAllFiles
<1>9. CASE NextRecord
  BY <1>9, NextRecordFiles
<1>10. CASE DropEntry
  BY <1>10, DropEntryFiles
<1>11. CASE Unindexed
  BY <1>11, UnindexedFiles
<1>12. CASE WriteRecord
  BY <1>12, WriteRecordFiles
<1>13. CASE EndRounds
  BY <1>13, EndRoundsFiles
<1>14. CASE EraseRecord
  BY <1>14, EraseRecordFiles
<1>15. CASE Return
  BY <1>15, ReturnFiles
<1>16. CASE UNCHANGED vars
  <2>1. /\ recs' = recs /\ idx' = idx /\ stmt' = stmt /\ pc' = pc /\ cursor' = cursor
        /\ out' = out /\ todo' = todo /\ rid' = rid /\ left' = left
    BY <1>16 DEF vars
  <2>2. RecsOK' /\ IdxOK' /\ PhaseOK' /\ PlanOK'
    BY <2>1 DEF Files, RecsOK, IdxOK, PhaseOK, PlanOK, Standing
  <2>3. WorkOK'
    BY <2>1 DEF Files, WorkOK, Matched, Target, Touched
  <2>4. EntriesExact'
    BY <2>1 DEF Files, EntriesExact, Missing, Matched, Target, Touched
  <2> QED BY <2>2, <2>3, <2>4 DEF Files
<1>17. CASE ColumnNotFound
  BY <1>17, ColumnNotFoundFiles
<1> QED
  BY <1>1, <1>2, <1>3, <1>4, <1>5, <1>6, <1>7, <1>8, <1>9, <1>10, <1>11, <1>12, <1>13, <1>14,
     <1>15, <1>16, <1>17 DEF Next, Step

\* The statements of ql_manager.cpp change files and indexes so that, between any two
\* of their calls, what the files hold and what is still to do fit each other.
THEOREM FilesHold == Spec => []Files
<1>1. Init => Files
  BY FilesInit
<1> QED
  BY <1>1, FilesStep, PTL DEF Spec


LEMMA FilesTypes == Files => TypeOK
<1> SUFFICES ASSUME Files PROVE TypeOK
  OBVIOUS
<1>1. ASSUME NEW t \in Tables
      PROVE  \E D \in SUBSET Room[t] : recs[t] \in [D -> [ToSet(Cols[t]) -> Value]]
  <2>1. DOMAIN recs[t] \in SUBSET Room[t] /\ recs[t] \in [DOMAIN recs[t] -> Row(t)]
    BY DEF Files, RecsOK
  <2> QED BY <2>1 DEF Row
<1>2. ASSUME NEW i \in Indexed PROVE idx[i] \subseteq Value \X Room[i[1]]
  <2>1. i[1] \in Tables /\ i[2] \in ToSet(Cols[i[1]])
    BY IndexedAssumption
  <2>2. idx[i] = EntriesFor(recs[i[1]], i[2], DOMAIN recs[i[1]] \ Gap(i[1], i[2]))
    BY EntriesExactDef DEF Files
  <2>3. ASSUME NEW r \in DOMAIN recs[i[1]]
        PROVE  recs[i[1]][r][i[2]] \in Value /\ r \in Room[i[1]]
    BY <2>1 DEF Files, RecsOK, Row
  <2> QED BY <2>2, <2>3 DEF EntriesFor
<1>3. DOMAIN recs = Tables /\ DOMAIN idx = Indexed
  BY DEF Files, RecsOK, IdxOK
<1>4. /\ stmt \in Statement \cup {NoStatement}
      /\ (pc = "idle") = (stmt = NoStatement)
      /\ pc \in {"idle", "put", "scan", "round", "unindex", "index", "erase", "done"}
  BY DEF Files, PhaseOK, Changing
<1>5. ASSUME pc # "idle"
      PROVE  Len(stmt.from) \in Nat /\ DOMAIN stmt.from = 1 .. Len(stmt.from)
  BY <1>5, StatementTypes DEF Files, PhaseOK
<1>6. \A i \in DOMAIN cursor : cursor[i] \in Seq(Room[stmt.from[i]])
  BY DEF Files, PlanOK
<1>7. ASSUME NEW j \in DOMAIN out
      PROVE  Len(out[j]) = Len(stmt.from) /\ \A i \in DOMAIN out[j] : out[j][i] \in Room[stmt.from[i]]
  <2>1. pc # "idle"
    BY <1>7 DEF Files, PlanOK
  <2>2. /\ out[j] \in [DOMAIN stmt.from -> Rids]
        /\ \A i \in DOMAIN stmt.from : out[j][i] \in Room[stmt.from[i]]
    BY <2>1, <1>7 DEF Files, PlanOK
  <2> QED BY <1>5, <2>1, <2>2
<1>8. todo \subseteq Rids /\ rid \in Rids \cup {NoRid} /\ \A c \in left : <<Target, c>> \in Indexed
  <2>1. CASE pc \notin Changing
    BY <2>1 DEF Files, WorkOK, Changing
  <2>2. CASE pc \in Changing
    <3>1. todo \subseteq Rids
      BY <2>2, MatchedRids, ChangeTypes DEF Files, WorkOK, Changing
    <3>2. rid \in Rids \cup {NoRid} /\ left \subseteq Touched
      BY <2>2, ChangeTypes DEF Files, WorkOK, Changing
    <3> QED BY <2>2, <3>1, <3>2, ChangeTypes DEF Changing
  <2> QED BY <2>1, <2>2
<1> QED
  BY <1>1, <1>2, <1>3, <1>4, <1>6, <1>7, <1>8 DEF TypeOK

\* Every record file holds rows of its table, every index entries of its column, and
\* what a statement has at hand, between the steps of ql_manager.cpp, is of its kind.
THEOREM TypeCorrect == Spec => []TypeOK
BY FilesHold, FilesTypes, PTL

\* After every call of insert_into, delete_from and update_set on a file or an index,
\* each index has exactly the entries of the records, except those the statement has
\* dropped or has yet to put: a scan may use the index instead of the file.
THEOREM EntriesMatchRecords == Spec => []EntriesExact
<1>1. Files => EntriesExact
  BY DEF Files
<1> QED
  BY <1>1, FilesHold, PTL


-----------------------------------------------------------------------------
(* What a condition means.                                                 *)

\* A column of a statement is on one table of FROM.
LEMMA ColumnPlace ==
  ASSUME NEW from \in Seq(Tables), IsInjective(from), NEW col \in TabCol, ~BadColumn(from, col),
         CheckColumn(from, col)[1] \in ToSet(from)
  PROVE  \E i \in DOMAIN from :
           /\ CheckColumn(from, col) = <<from[i], col[2]>>
           /\ Store!Known(col, from)
           /\ col[2] \in ToSet(Cols[from[i]])
           /\ \A rs : Store!Meaning(col, from, rs) = rs[i][col[2]]
<1>1. DOMAIN from = 1 .. Len(from) /\ Len(from) \in Nat /\ \A i \in DOMAIN from : from[i] \in Tables
  OBVIOUS
<1>2. col = <<col[1], col[2]>>
  BY DEF TabCol
<1>3. CASE col[1] = Unqualified
  <2> DEFINE O == Owners(from, col[2])
  <2>1. O \subseteq 1 .. Len(from) /\ IsFiniteSet(O)
    <3>1. O \subseteq 1 .. Len(from)
      BY <1>1 DEF Owners
    <3>2. IsFiniteSet(1 .. Len(from))
      BY <1>1, FS_Interval
    <3> HIDE DEF O
    <3> QED BY <3>1, <3>2, FS_Subset
  <2>2. Cardinality(O) = 1
    BY <1>3 DEF BadColumn
  <2>3. PICK i : O = {i}
    <3> HIDE DEF O
    <3> QED BY <2>1, <2>2, FS_Singleton
  <2>4. i \in DOMAIN from /\ col[2] \in ToSet(Cols[from[i]])
    BY <2>3 DEF Owners
  <2>5. (CHOOSE j \in O : TRUE) = i
    BY <2>3
  <2>6. CheckColumn(from, col) = <<from[i], col[2]>>
    BY <1>3, <2>5 DEF CheckColumn
  <2>7. ASSUME NEW j \in DOMAIN from
        PROVE  (/\ col[1] \in {Unqualified, from[j]}
                /\ col[2] \in ToSet(Cols[from[j]])) <=> j = i
    BY <1>3, <2>3 DEF Owners
  <2>8. (CHOOSE j \in DOMAIN from : /\ col[1] \in {Unqualified, from[j]}
                                    /\ col[2] \in ToSet(Cols[from[j]])) = i
    BY <2>4, <2>7
  <2>9. \A rs : Store!Meaning(col, from, rs) = rs[i][col[2]]
    BY <2>8 DEF Store!Meaning, Store!ToSet, ToSet
  <2>10. Store!Known(col, from)
    BY <2>4, <2>7 DEF Store!Known, Store!ToSet, ToSet
  <2> QED BY <2>4, <2>6, <2>9, <2>10
<1>4. CASE col[1] # Unqualified
  <2>1. CheckColumn(from, col) = col /\ col[2] \in ToSet(Cols[col[1]])
    BY <1>4 DEF CheckColumn, BadColumn
  <2>2. PICK i \in DOMAIN from : from[i] = col[1]
    BY <2>1 DEF ToSet
  <2>3. ASSUME NEW j \in DOMAIN from
        PROVE  (/\ col[1] \in {Unqualified, from[j]}
                /\ col[2] \in ToSet(Cols[from[j]])) <=> j = i
    BY <1>4, <2>1, <2>2 DEF IsInjective
  <2>4. (CHOOSE j \in DOMAIN from : /\ col[1] \in {Unqualified, from[j]}
                                    /\ col[2] \in ToSet(Cols[from[j]])) = i
    BY <2>2, <2>3
  <2>5. \A rs : Store!Meaning(col, from, rs) = rs[i][col[2]]
    BY <2>4 DEF Store!Meaning, Store!ToSet, ToSet
  <2>6. Store!Known(col, from)
    BY <2>2, <2>3 DEF Store!Known, Store!ToSet, ToSet
  <2> QED BY <1>2, <2>1, <2>2, <2>5, <2>6
<1> QED
  BY <1>3, <1>4

LEMMA CompareSame ==
  ASSUME NEW op \in CompOp, NEW v \in Int, NEW w \in Int
  PROVE  /\ Compare(op, v, w) <=> Store!Compare(op, v, w)
         /\ Compare(SwapOp(op), v, w) <=> Store!Compare(op, w, v)
BY DEF CompOp, Compare, Store!Compare, SwapOp


\* The condition at a place of WHERE, after it has been checked.
Checked(j) == CheckWhereClause(stmt.from, stmt.conds)[j]

\* A column is, under the name it has been given, on the i-th table.
IsOn(col, checked, i) ==
  /\ checked = <<stmt.from[i], col[2]>>
  /\ Store!Known(col, stmt.from)
  /\ col[2] \in ToSet(Cols[stmt.from[i]])
  /\ \A rs : Store!Meaning(col, stmt.from, rs) = rs[i][col[2]]

\* The condition is about the tables of the statement.
Near(j) == Within(Checked(j), ToSet(stmt.from))

LEMMA StraysAre == Strays = {j \in DOMAIN stmt.conds : ~Near(j)}
<1>1. DOMAIN CheckWhereClause(stmt.from, stmt.conds) = DOMAIN stmt.conds
  BY DEF CheckWhereClause
<1> QED
  BY <1>1 DEF Strays, Near, Checked

LEMMA CheckedCondition ==
  ASSUME stmt \in Statement, ~Refused(stmt), NEW j \in DOMAIN stmt.conds, Near(j)
  PROVE  /\ Checked(j).op = stmt.conds[j].op /\ stmt.conds[j].op \in CompOp
         /\ stmt.conds[j].is_rhs_val \in BOOLEAN
         /\ Checked(j).is_rhs_val = stmt.conds[j].is_rhs_val
         /\ Checked(j) = [lhs |-> Checked(j).lhs, op |-> Checked(j).op,
                          is_rhs_val |-> Checked(j).is_rhs_val, rhs |-> Checked(j).rhs]
         /\ \E p \in DOMAIN stmt.from : IsOn(stmt.conds[j].lhs, Checked(j).lhs, p)
         /\ stmt.conds[j].is_rhs_val => Checked(j).rhs = stmt.conds[j].rhs /\ stmt.conds[j].rhs \in Value
         /\ ~stmt.conds[j].is_rhs_val =>
              \E q \in DOMAIN stmt.from : IsOn(stmt.conds[j].rhs, Checked(j).rhs, q)
<1> DEFINE d == stmt.conds[j]
           C == Checked(j)
<1>1. d.is_rhs_val \in BOOLEAN /\ d \in Condition(d.is_rhs_val)
  BY StatementAssumption DEF ToSet
<1>2. /\ d.lhs \in TabCol /\ d.op \in CompOp
      /\ d.is_rhs_val => d.rhs \in Literal
      /\ ~d.is_rhs_val => d.rhs \in TabCol
  BY <1>1 DEF Condition
<1>3. /\ C.op = d.op /\ C.is_rhs_val = d.is_rhs_val
      /\ C.lhs = CheckColumn(stmt.from, d.lhs)
      /\ C.rhs = IF d.is_rhs_val THEN d.rhs ELSE CheckColumn(stmt.from, d.rhs)
      /\ C = [lhs |-> C.lhs, op |-> C.op, is_rhs_val |-> C.is_rhs_val, rhs |-> C.rhs]
  <2>1. d = [lhs |-> d.lhs, op |-> d.op, is_rhs_val |-> d.is_rhs_val, rhs |-> d.rhs]
    BY <1>1 DEF Condition
  <2>2. C = [d EXCEPT !.lhs = CheckColumn(stmt.from, d.lhs),
                      !.rhs = IF d.is_rhs_val THEN d.rhs ELSE CheckColumn(stmt.from, d.rhs)]
    BY DEF Checked, CheckWhereClause
  <2> HIDE DEF d, C
  <2> QED BY <2>1, <2>2
<1>4. ~BadCondition(stmt.from, d)
  BY DEF Refused
<1>5. /\ ~BadColumn(stmt.from, d.lhs)
      /\ d.is_rhs_val => d.rhs \in Value
      /\ ~d.is_rhs_val => ~BadColumn(stmt.from, d.rhs)
  BY <1>2, <1>4 DEF BadCondition, Literal
<1>6. C.lhs[1] \in ToSet(stmt.from) /\ (~d.is_rhs_val => C.rhs[1] \in ToSet(stmt.from))
  BY <1>1, <1>3 DEF Near, Within
<1>7. stmt.from \in Seq(Tables) /\ IsInjective(stmt.from)
  BY StatementTypes, StatementTables
<1> HIDE DEF d, C
<1>8. \E p \in DOMAIN stmt.from : IsOn(d.lhs, C.lhs, p)
  BY <1>2, <1>3, <1>5, <1>6, <1>7, ColumnPlace DEF IsOn
<1>9. ASSUME ~d.is_rhs_val PROVE \E q \in DOMAIN stmt.from : IsOn(d.rhs, C.rhs, q)
  BY <1>2, <1>3, <1>5, <1>6, <1>7, <1>9, ColumnPlace DEF IsOn
<1> QED
  BY <1>1, <1>2, <1>3, <1>5, <1>8, <1>9 DEF d, C

\* A column is named without a table, or with one of those of the statement.
Own(from, col) == col[1] \in ToSet(from) \cup {Unqualified}

\* check_column gives a column without a table one of the tables of the statement.
LEMMA OwnChecked ==
  ASSUME NEW from, NEW col, Own(from, col), ~BadColumn(from, col)
  PROVE  CheckColumn(from, col)[1] \in ToSet(from)
<1>1. CASE col[1] = Unqualified
  <2>1. Cardinality(Owners(from, col[2])) = 1
    BY <1>1 DEF BadColumn
  <2>2. Owners(from, col[2]) # {}
    BY <2>1, FS_EmptySet
  <2>3. (CHOOSE i \in Owners(from, col[2]) : TRUE) \in DOMAIN from
    BY <2>2 DEF Owners
  <2> QED BY <1>1, <2>3 DEF CheckColumn, ToSet
<1>2. CASE col[1] # Unqualified
  BY <1>2 DEF CheckColumn, Own
<1> QED
  BY <1>1, <1>2

\* A condition whose columns are so named is about the tables of the statement.
LEMMA OwnNear ==
  ASSUME stmt \in Statement, ~Refused(stmt), NEW j \in DOMAIN stmt.conds,
         Own(stmt.from, stmt.conds[j].lhs),
         ~stmt.conds[j].is_rhs_val => Own(stmt.from, stmt.conds[j].rhs)
  PROVE  Near(j)
<1> DEFINE d == stmt.conds[j]
           C == Checked(j)
<1>1. d.is_rhs_val \in BOOLEAN /\ d \in Condition(d.is_rhs_val)
  BY StatementAssumption DEF ToSet
<1>2. d = [lhs |-> d.lhs, op |-> d.op, is_rhs_val |-> d.is_rhs_val, rhs |-> d.rhs]
  BY <1>1 DEF Condition
<1>3. C = [d EXCEPT !.lhs = CheckColumn(stmt.from, d.lhs),
                    !.rhs = IF d.is_rhs_val THEN d.rhs ELSE CheckColumn(stmt.from, d.rhs)]
  BY DEF Checked, CheckWhereClause
<1>4. /\ ~BadColumn(stmt.from, d.lhs)
      /\ ~d.is_rhs_val => ~BadColumn(stmt.from, d.rhs)
  BY DEF Refused, BadCondition
<1>5. Own(stmt.from, d.lhs) /\ (~d.is_rhs_val => Own(stmt.from, d.rhs))
  OBVIOUS
<1> HIDE DEF d, C
<1>6. /\ C.lhs = CheckColumn(stmt.from, d.lhs)
      /\ C.is_rhs_val = d.is_rhs_val
      /\ ~d.is_rhs_val => C.rhs = CheckColumn(stmt.from, d.rhs)
  BY <1>2, <1>3
<1>7. Within(C, ToSet(stmt.from))
  BY <1>1, <1>4, <1>5, <1>6, OwnChecked DEF Within
<1> QED
  BY <1>7 DEF C, Near

\* The conditions the i-th table is given.
Places(i) == PopConds(stmt.from, CheckWhereClause(stmt.from, stmt.conds), i)

LEMMA PlacesDef ==
  ASSUME NEW i, NEW j
  PROVE  j \in Places(i) <=>
           /\ j \in DOMAIN stmt.conds
           /\ Within(Checked(j), {stmt.from[l] : l \in 1 .. i})
           /\ ~Within(Checked(j), {stmt.from[l] : l \in 1 .. i - 1})
<1>1. DOMAIN CheckWhereClause(stmt.from, stmt.conds) = DOMAIN stmt.conds
  BY DEF CheckWhereClause
<1> QED
  BY <1>1 DEF Places, PopConds, Checked

\* It is about those tables.
LEMMA PlacesNear ==
  ASSUME stmt \in Statement, NEW i \in DOMAIN stmt.from, NEW j \in Places(i)
  PROVE  j \in DOMAIN stmt.conds /\ Near(j)
<1>1. DOMAIN stmt.from = 1 .. Len(stmt.from) /\ Len(stmt.from) \in Nat
  BY StatementTypes
<1>2. {stmt.from[l] : l \in 1 .. i} \subseteq ToSet(stmt.from)
  BY <1>1 DEF ToSet
<1> QED
  BY <1>2, PlacesDef DEF Near, Within

LEMMA UpTo ==
  ASSUME stmt \in Statement, NEW k \in Nat, k <= Len(stmt.from), NEW p \in DOMAIN stmt.from
  PROVE  stmt.from[p] \in {stmt.from[l] : l \in 1 .. k} <=> p <= k
<1>1. IsInjective(stmt.from) /\ DOMAIN stmt.from = 1 .. Len(stmt.from) /\ Len(stmt.from) \in Nat
  BY StatementTypes
<1>2. \A l \in 1 .. k : l \in DOMAIN stmt.from
  BY <1>1
<1>3. ASSUME NEW l \in 1 .. k, stmt.from[p] = stmt.from[l] PROVE p <= k
  <2>1. p = l
    BY <1>1, <1>2, <1>3 DEF IsInjective
  <2> QED BY <2>1
<1>4. p <= k => p \in 1 .. k
  BY <1>1
<1> QED
  BY <1>3, <1>4

\* It is given to the last of the tables it is about, and to no other.
LEMMA GivenToLast ==
  ASSUME stmt \in Statement, ~Refused(stmt),
         NEW i \in DOMAIN stmt.from, NEW j \in DOMAIN stmt.conds, Near(j),
         NEW p \in DOMAIN stmt.from, IsOn(stmt.conds[j].lhs, Checked(j).lhs, p),
         NEW q \in DOMAIN stmt.from,
         IF stmt.conds[j].is_rhs_val THEN q = p ELSE IsOn(stmt.conds[j].rhs, Checked(j).rhs, q)
  PROVE  j \in Places(i) <=> p <= i /\ q <= i /\ (p = i \/ q = i)
<1>1. DOMAIN stmt.from = 1 .. Len(stmt.from) /\ Len(stmt.from) \in Nat
  BY StatementTypes
<1>2. /\ Checked(j).is_rhs_val = stmt.conds[j].is_rhs_val
      /\ stmt.conds[j].is_rhs_val \in BOOLEAN
      /\ Checked(j).lhs[1] = stmt.from[p]
      /\ ~stmt.conds[j].is_rhs_val => Checked(j).rhs[1] = stmt.from[q]
  BY CheckedCondition DEF IsOn
<1>3. ASSUME NEW k \in Nat, k <= Len(stmt.from)
      PROVE  Within(Checked(j), {stmt.from[l] : l \in 1 .. k}) <=> p <= k /\ q <= k
  <2>1. stmt.from[p] \in {stmt.from[l] : l \in 1 .. k} <=> p <= k
    BY <1>3, UpTo
  <2>2. stmt.from[q] \in {stmt.from[l] : l \in 1 .. k} <=> q <= k
    BY <1>3, UpTo
  <2> DEFINE tables == {stmt.from[l] : l \in 1 .. k}
  <2> HIDE DEF tables
  <2>3. Within(Checked(j), tables) <=> stmt.from[p] \in tables /\ stmt.from[q] \in tables
    BY <1>2 DEF Within
  <2> QED BY <2>1, <2>2, <2>3 DEF tables
<1>4. i \in Nat /\ i - 1 \in Nat /\ i <= Len(stmt.from) /\ i - 1 <= Len(stmt.from)
  BY <1>1
<1>5. j \in Places(i) <=> (p <= i /\ q <= i) /\ ~(p <= i - 1 /\ q <= i - 1)
  BY <1>3, <1>4, PlacesDef
<1> QED
  BY <1>1, <1>5

LEMMA AllGiven ==
  ASSUME stmt \in Statement, ~Refused(stmt), NEW j \in DOMAIN stmt.conds, Near(j)
  PROVE  \E i \in DOMAIN stmt.from : j \in Places(i)
<1>1. PICK p \in DOMAIN stmt.from : IsOn(stmt.conds[j].lhs, Checked(j).lhs, p)
  BY CheckedCondition
<1>2. PICK q \in DOMAIN stmt.from :
        IF stmt.conds[j].is_rhs_val THEN q = p ELSE IsOn(stmt.conds[j].rhs, Checked(j).rhs, q)
  BY CheckedCondition
<1> DEFINE i == IF p <= q THEN q ELSE p
<1>3. i \in DOMAIN stmt.from /\ p <= i /\ q <= i /\ (p = i \/ q = i)
  BY StatementTypes
<1>4. j \in Places(i)
  BY <1>1, <1>2, <1>3, GivenToLast
<1> QED
  BY <1>3, <1>4


-----------------------------------------------------------------------------
(* The rows a scan comes to.                                               *)

\* A record of every table of the statement, and the rows they hold.
Combination(h) ==
  h \in [DOMAIN stmt.from -> Rids] /\ \A i \in DOMAIN stmt.from : h[i] \in DOMAIN recs[stmt.from[i]]

RowsOf(h) == [i \in DOMAIN stmt.from |-> recs[stmt.from[i]][h[i]]]

\* The combination has the records the first tables of the plan stand at.
Stands(h, i, cs) == \A l \in 1 .. i : h[l] = cs[l][1]

LEMMA PlaceOf ==
  ASSUME stmt \in Statement, NEW q \in DOMAIN stmt.from
  PROVE  (CHOOSE l \in DOMAIN stmt.from : stmt.from[l] = stmt.from[q]) = q
<1>1. \A l \in DOMAIN stmt.from : stmt.from[l] = stmt.from[q] => l = q
  BY StatementTypes DEF IsInjective
<1> QED
  BY <1>1

LEMMA FedColumn ==
  ASSUME stmt \in Statement, NEW d, NEW t, ~d.is_rhs_val, d.rhs[1] # t,
         NEW q \in DOMAIN stmt.from, d.rhs[1] = stmt.from[q]
  PROVE  Fed(d, t) = [d EXCEPT !.is_rhs_val = TRUE, !.rhs = RowAt(q)[d.rhs[2]]]
<1> DEFINE l == CHOOSE l \in DOMAIN stmt.from : stmt.from[l] = d.rhs[1]
<1>1. l = q
  BY PlaceOf
<1>2. Fed(d, t) = [d EXCEPT !.is_rhs_val = TRUE, !.rhs = RowAt(l)[d.rhs[2]]]
  BY Zenon DEF Fed
<1> HIDE DEF l
<1> QED
  BY <1>1, <1>2

LEMMA CombinationValues ==
  ASSUME Files, pc = "scan", NEW h, Combination(h), NEW l \in DOMAIN stmt.from
  PROVE  /\ RowsOf(h)[l] = recs[stmt.from[l]][h[l]]
         /\ \A c \in ToSet(Cols[stmt.from[l]]) : RowsOf(h)[l][c] \in Value
<1>1. stmt.from[l] \in Tables /\ h[l] \in DOMAIN recs[stmt.from[l]]
  BY ScanTypes DEF Combination
<1>2. recs[stmt.from[l]][h[l]] \in Row(stmt.from[l])
  BY <1>1 DEF Files, RecsOK
<1> QED
  BY <1>2 DEF Row, RowsOf

\* What QlNodeTable tests of a record, with the values it has been fed, is what the
\* condition says of the records the tables are at.
LEMMA FedMeans ==
  ASSUME Files, pc = "scan", NEW i \in DOMAIN stmt.from, NEW j \in Places(i),
         NEW h, Combination(h), Stands(h, i - 1, cursor)
  PROVE  EvalCond(FedConds(i)[j], recs[stmt.from[i]][h[i]])
           <=> Store!Satisfies(stmt.conds[j], stmt.from, RowsOf(h))
<1> DEFINE t == stmt.from[i]
           d == stmt.conds[j]
           C == Checked(j)
           rows == RowsOf(h)
<1>1. stmt \in Statement /\ ~Refused(stmt) /\ DOMAIN stmt.from = 1 .. Len(stmt.from)
      /\ Len(stmt.from) \in Nat
  BY ScanTypes
<1>2. j \in DOMAIN stmt.conds /\ Near(j)
  BY <1>1, PlacesNear
<1>3. FedConds(i)[j] = Fed(OnTable(C, t), t)
  BY DEF FedConds, Places, Checked
<1>4. PICK p \in DOMAIN stmt.from : IsOn(d.lhs, C.lhs, p)
  BY <1>1, <1>2, CheckedCondition
<1>5. PICK q \in DOMAIN stmt.from : IF d.is_rhs_val THEN q = p ELSE IsOn(d.rhs, C.rhs, q)
  BY <1>1, <1>2, CheckedCondition
<1>6. p <= i /\ q <= i /\ (p = i \/ q = i)
  BY <1>1, <1>2, <1>4, <1>5, GivenToLast
<1>7. /\ C.op = d.op /\ d.op \in CompOp /\ d.is_rhs_val \in BOOLEAN /\ C.is_rhs_val = d.is_rhs_val
      /\ C = [lhs |-> C.lhs, op |-> C.op, is_rhs_val |-> C.is_rhs_val, rhs |-> C.rhs]
      /\ d.is_rhs_val => C.rhs = d.rhs /\ d.rhs \in Value
  BY <1>1, <1>2, CheckedCondition
<1>8. \A k, l \in DOMAIN stmt.from : stmt.from[k] = stmt.from[l] => k = l
  BY <1>1, StatementTypes DEF IsInjective
<1>9. \A l \in DOMAIN stmt.from : rows[l] = recs[stmt.from[l]][h[l]]
  BY CombinationValues
<1>10. ASSUME NEW l \in DOMAIN stmt.from, l < i
       PROVE  RowAt(l) = rows[l]
  <2>1. h[l] = cursor[l][1]
    <3>1. l \in 1 .. i - 1
      BY <1>1, <1>10
    <3> QED BY <3>1 DEF Stands
  <2> QED BY <1>9, <2>1 DEF RowAt
<1> DEFINE lv == rows[p][d.lhs[2]]
           rv == IF d.is_rhs_val THEN d.rhs ELSE rows[q][d.rhs[2]]
<1>11. lv \in Int /\ rv \in Int
  <2>1. lv \in Value
    BY <1>4, CombinationValues DEF IsOn
  <2>2. ~d.is_rhs_val => rows[q][d.rhs[2]] \in Value
    BY <1>5, CombinationValues DEF IsOn
  <2> QED BY <1>7, <2>1, <2>2, ValueAssumption
<1>12. Store!Satisfies(d, stmt.from, rows) <=> Store!Compare(d.op, lv, rv)
  BY <1>4, <1>5 DEF Store!Satisfies, IsOn
<1>13. C.lhs = <<stmt.from[p], d.lhs[2]>> /\ (~d.is_rhs_val => C.rhs = <<stmt.from[q], d.rhs[2]>>)
  BY <1>4, <1>5 DEF IsOn
<1> HIDE DEF d, C, rows
<1> DEFINE F == Fed(OnTable(C, t), t)
           row == recs[t][h[i]]
<1>14. row = rows[i]
  BY <1>9
<1>15. CASE p = i
  <2>1. OnTable(C, t) = C
    BY <1>13, <1>15 DEF OnTable
  <2>2. F.op = d.op /\ F.lhs[2] = d.lhs[2]
        /\ (IF F.is_rhs_val THEN F.rhs ELSE row[F.rhs[2]]) = rv
    <3>1. CASE d.is_rhs_val
      BY <1>7, <1>13, <2>1, <3>1 DEF Fed
    <3>2. CASE ~d.is_rhs_val /\ q = i
      BY <1>7, <1>13, <1>14, <2>1, <3>2 DEF Fed
    <3>3. CASE ~d.is_rhs_val /\ q # i
      <4>1. q < i /\ stmt.from[q] # t
        BY <1>1, <1>6, <1>8, <3>3
      <4>2. RowAt(q) = rows[q] /\ ~C.is_rhs_val /\ C.rhs[1] = stmt.from[q] /\ C.rhs[2] = d.rhs[2]
        BY <1>7, <1>10, <1>13, <3>3, <4>1
      <4>3. F = [C EXCEPT !.is_rhs_val = TRUE, !.rhs = rows[q][d.rhs[2]]]
        <5>1. Fed(C, t) = [C EXCEPT !.is_rhs_val = TRUE, !.rhs = RowAt(q)[C.rhs[2]]]
          BY <1>1, <4>1, <4>2, FedColumn
        <5> QED BY <2>1, <4>2, <5>1
      <4> QED BY <1>7, <1>13, <3>3, <4>3
    <3> QED BY <3>1, <3>2, <3>3
  <2>3. EvalCond(F, row) <=> Compare(d.op, lv, rv)
    BY <1>14, <1>15, <2>2 DEF EvalCond
  <2> QED BY <1>3, <1>7, <1>11, <1>12, <2>3, CompareSame DEF d, C, rows
<1>16. CASE p # i
  <2>1. p < i /\ q = i /\ stmt.from[p] # t /\ ~d.is_rhs_val
    BY <1>1, <1>5, <1>6, <1>8, <1>16 DEF d
  <2>2. OnTable(C, t) = [C EXCEPT !.lhs = C.rhs, !.op = SwapOp(C.op), !.rhs = C.lhs]
    BY <1>13, <2>1 DEF OnTable
  <2> DEFINE O == OnTable(C, t)
  <2>3. /\ O.lhs = C.rhs /\ O.op = SwapOp(C.op) /\ O.rhs = C.lhs /\ ~O.is_rhs_val
        /\ O = [lhs |-> O.lhs, op |-> O.op, is_rhs_val |-> O.is_rhs_val, rhs |-> O.rhs]
    BY <1>7, <2>1, <2>2
  <2> HIDE DEF O
  <2>4. /\ RowAt(p) = rows[p] /\ O.rhs[1] = stmt.from[p] /\ O.rhs[2] = d.lhs[2]
        /\ ~O.is_rhs_val /\ O.rhs[1] # t
    BY <1>10, <1>13, <2>1, <2>3
  <2>5. F = [O EXCEPT !.is_rhs_val = TRUE, !.rhs = rows[p][d.lhs[2]]]
    <3>1. Fed(O, t) = [O EXCEPT !.is_rhs_val = TRUE, !.rhs = RowAt(p)[O.rhs[2]]]
      BY <1>1, <2>4, FedColumn
    <3>2. F = Fed(O, t)
      BY DEF O
    <3> HIDE DEF F
    <3> QED BY <2>4, <3>1, <3>2
  <2>6. F.op = SwapOp(d.op) /\ F.lhs[2] = d.rhs[2] /\ F.is_rhs_val /\ F.rhs = lv
    BY <1>7, <1>13, <2>1, <2>3, <2>5
  <2>7. EvalCond(F, row) <=> Compare(SwapOp(d.op), rv, lv)
    BY <1>14, <2>1, <2>6 DEF EvalCond
  <2> QED BY <1>3, <1>7, <1>11, <1>12, <2>7, CompareSame DEF d, C, rows
<1> QED
  BY <1>15, <1>16


\* The combination satisfies the conditions that the i-th table is given.
Passes(h, i) == \A j \in Places(i) : Store!Satisfies(stmt.conds[j], stmt.from, RowsOf(h))

\* A scan comes to the rows that pass, in an index as in a file.
LEMMA BegunIs ==
  ASSUME Files, pc = "scan", NEW t \in Tables, NEW conds, DOMAIN conds \subseteq Nat
  PROVE  Begun(t, conds) =
           {r \in DOMAIN recs[t] : \A j \in DOMAIN conds : EvalCond(conds[j], recs[t][r])}
<1> DEFINE served == Served(t, conds)
           found == {r \in DOMAIN recs[t] : \A j \in DOMAIN conds : EvalCond(conds[j], recs[t][r])}
<1>1. Begun(t, conds) \subseteq found
  BY BegunLive DEF Begun
<1>2. ASSUME NEW r \in found PROVE r \in ToVisit(t, conds)
  <2>1. CASE served = {}
    BY <2>1 DEF ToVisit
  <2>2. CASE served # {}
    <3> DEFINE m == Min(served)
               c == conds[m].lhs[2]
    <3>1. m \in served
      <4>1. served \subseteq Nat
        BY DEF Served
      <4> HIDE DEF served
      <4> QED BY <2>2, <4>1, MinIn
    <3>2. <<t, c>> \in Indexed /\ m \in DOMAIN conds /\ conds[m].is_rhs_val
      BY <3>1 DEF Served
    <3>3. idx[<<t, c>>] = EntriesFor(recs[t], c, DOMAIN recs[t] \ Gap(t, c))
      BY <3>2, EntriesExactDef DEF Files
    <3>4. <<recs[t][r][c], r>> \in idx[<<t, c>>]
      BY <3>3, NoGap DEF EntriesFor
    <3>5. Compare(conds[m].op, recs[t][r][c], conds[m].rhs)
      BY <3>2 DEF EvalCond
    <3>6. <<recs[t][r][c], r>> \in Between(t, conds[m])
      BY <3>4, <3>5 DEF Between
    <3>7. ToVisit(t, conds) = {e[2] : e \in Between(t, conds[m])}
      BY <2>2 DEF ToVisit
    <3> HIDE DEF m, c
    <3> QED BY <3>6, <3>7
  <2> QED BY <2>1, <2>2
<1>3. found \subseteq Begun(t, conds)
  BY <1>2 DEF Begun
<1> QED
  BY <1>1, <1>3

LEMMA BegunPass ==
  ASSUME Files, pc = "scan", NEW i \in DOMAIN stmt.from,
         NEW h, Combination(h), Stands(h, i - 1, cursor)
  PROVE  h[i] \in Begun(stmt.from[i], FedConds(i)) <=> Passes(h, i)
<1>1. stmt.from[i] \in Tables /\ stmt \in Statement
  BY ScanTypes
<1>2. DOMAIN FedConds(i) = Places(i)
  BY DEF FedConds, Places
<1>3. DOMAIN FedConds(i) \subseteq Nat
  BY <1>1, FedCondsDomain
<1>4. Begun(stmt.from[i], FedConds(i)) =
        {r \in DOMAIN recs[stmt.from[i]] :
           \A j \in DOMAIN FedConds(i) : EvalCond(FedConds(i)[j], recs[stmt.from[i]][r])}
  BY <1>1, <1>3, BegunIs
<1>5. h[i] \in DOMAIN recs[stmt.from[i]]
  BY DEF Combination
<1>6. h[i] \in Begun(stmt.from[i], FedConds(i)) <=>
        \A j \in Places(i) : EvalCond(FedConds(i)[j], recs[stmt.from[i]][h[i]])
  BY <1>2, <1>4, <1>5
<1> QED
  BY <1>6, FedMeans DEF Passes

\* It comes to none of them twice.
LEMMA ScanInjective ==
  ASSUME Files, pc = "scan", NEW t \in Tables, NEW conds, DOMAIN conds \subseteq Nat,
         NEW rids \in Scans(t, conds)
  PROVE  IsInjective(rids)
<1> DEFINE found == Begun(t, conds)
           served == Served(t, conds)
           key(r) == IF served = {} THEN 0 ELSE recs[t][r][conds[Min(served)].lhs[2]]
<1>1. /\ rids \in [1 .. Cardinality(found) -> found]
      /\ \A m, n \in DOMAIN rids :
           m < n => \/ key(rids[m]) < key(rids[n])
                    \/ key(rids[m]) = key(rids[n]) /\ rids[m] < rids[n]
  BY DEF Scans
<1>2. \A r \in found : r \in Nat
  BY BegunLive, RoomAssumption DEF Files, RecsOK
<1>3. ASSUME NEW r \in found PROVE key(r) \in Int
  <2>1. CASE served = {}
    BY <2>1
  <2>2. CASE served # {}
    <3>1. Min(served) \in served
      <4>1. served \subseteq Nat
        BY DEF Served
      <4> HIDE DEF served
      <4> QED BY <2>2, <4>1, MinIn
    <3>2. conds[Min(served)].lhs[2] \in ToSet(Cols[t])
      <4> DEFINE c == conds[Min(served)].lhs[2]
      <4>1. <<t, c>> \in Indexed
        BY <3>1 DEF Served
      <4> HIDE DEF c
      <4>2. \E u \in Tables : \E d \in ToSet(Cols[u]) : <<t, c>> = <<u, d>>
        BY <4>1, IndexedAssumption
      <4>3. c \in ToSet(Cols[t])
        BY <4>2
      <4> QED BY <4>3 DEF c
    <3>3. recs[t][r] \in [ToSet(Cols[t]) -> Value]
      BY BegunLive DEF Files, RecsOK, Row
    <3> QED BY <2>2, <3>2, <3>3, ValueAssumption
  <2> QED BY <2>1, <2>2
<1> HIDE DEF found, key
<1>4. DOMAIN rids = 1 .. Cardinality(found) /\ \A m \in DOMAIN rids : rids[m] \in found /\ m \in Int
  BY <1>1
<1>5. \A m, n \in DOMAIN rids : m < n => rids[m] # rids[n]
  <2> SUFFICES ASSUME NEW m \in DOMAIN rids, NEW n \in DOMAIN rids, m < n, rids[m] = rids[n]
               PROVE  FALSE
    OBVIOUS
  <2>1. key(rids[m]) \in Int /\ rids[m] \in Nat
    BY <1>2, <1>3, <1>4
  <2>2. key(rids[m]) < key(rids[m]) \/ rids[m] < rids[m]
    BY <1>1
  <2> QED BY <2>1, <2>2
<1> QED
  BY <1>4, <1>5 DEF IsInjective

Answers == Store!Answer(stmt.from, stmt.conds)

LEMMA AnswersAre ==
  ASSUME Files, pc = "scan", Strays = {}
  PROVE  \A h : h \in Answers <=> Combination(h) /\ \A i \in DOMAIN stmt.from : Passes(h, i)
<1>1. stmt \in Statement /\ ~Refused(stmt) /\ DOMAIN stmt.from = 1 .. Len(stmt.from)
      /\ \A i \in DOMAIN stmt.from : stmt.from[i] \in Tables
      /\ \A t \in Tables : DOMAIN recs[t] \subseteq Rids
  BY ScanTypes
<1> DEFINE rows == [t \in Tables |-> Settled(t)]
<1>2. \A t \in Tables : rows[t] = recs[t]
  BY DEF Settled
<1>3. Answers =
        {h \in [DOMAIN stmt.from -> UNION {DOMAIN rows[t] : t \in Store!ToSet(stmt.from)}] :
           /\ \A i \in DOMAIN stmt.from : h[i] \in DOMAIN rows[stmt.from[i]]
           /\ \A j \in DOMAIN stmt.conds :
                Store!Satisfies(stmt.conds[j], stmt.from,
                                [i \in DOMAIN stmt.from |-> rows[stmt.from[i]][h[i]]])}
  BY DEF Answers, Store!Answer
<1> HIDE DEF rows
<1>4. ASSUME NEW h PROVE RowsOf(h) = [i \in DOMAIN stmt.from |-> rows[stmt.from[i]][h[i]]]
  BY <1>1, <1>2 DEF RowsOf
<1>5. Store!ToSet(stmt.from) = {stmt.from[i] : i \in DOMAIN stmt.from}
  BY DEF Store!ToSet
<1>6. ASSUME NEW h
      PROVE  (/\ h \in [DOMAIN stmt.from -> UNION {DOMAIN rows[t] : t \in Store!ToSet(stmt.from)}]
              /\ \A i \in DOMAIN stmt.from : h[i] \in DOMAIN rows[stmt.from[i]])
             <=> Combination(h)
  BY <1>1, <1>2, <1>5 DEF Combination
<1>7. ASSUME NEW h
      PROVE  (\A j \in DOMAIN stmt.conds : Store!Satisfies(stmt.conds[j], stmt.from, RowsOf(h)))
             <=> \A i \in DOMAIN stmt.from : Passes(h, i)
  <2>1. \A j \in DOMAIN stmt.conds : \E i \in DOMAIN stmt.from : j \in Places(i)
    BY <1>1, StraysAre, AllGiven
  <2>2. \A i : \A j \in Places(i) : j \in DOMAIN stmt.conds
    BY PlacesDef
  <2> QED BY <2>1, <2>2 DEF Passes
<1> QED
  BY <1>3, <1>4, <1>6, <1>7

\* No combination satisfies a condition on a table that the statement is not about.
LEMMA StrayAnswers ==
  ASSUME Files, pc = "scan", Strays # {}
  PROVE  Answers = {}
<1>1. stmt \in Statement /\ ~Refused(stmt)
  BY ScanTypes
<1>2. PICK j \in DOMAIN stmt.conds : ~Near(j)
  BY StraysAre
<1>3. ASSUME NEW rs PROVE ~Store!Satisfies(stmt.conds[j], stmt.from, rs)
  <2>1. \A col : Store!Known(col, stmt.from) => Own(stmt.from, col)
    BY DEF Store!Known, Own, ToSet
  <2>2. ~(/\ Store!Known(stmt.conds[j].lhs, stmt.from)
          /\ stmt.conds[j].is_rhs_val \/ Store!Known(stmt.conds[j].rhs, stmt.from))
    BY <1>1, <1>2, <2>1, OwnNear
  <2> QED BY <2>2 DEF Store!Satisfies
<1> QED
  BY <1>3 DEF Answers, Store!Answer

-----------------------------------------------------------------------------
(* The result.                                                             *)

\* The plan has yet to come to a combination: where it leaves what the tables stand
\* at, the scan of that table has still to come to its record.
Ahead(h, cs) ==
  cs # << >> =>
    \E i \in 1 .. Len(cs) :
      /\ Stands(h, i - 1, cs)
      /\ h[i] \in ToSet(IF i = Len(cs) THEN cs[i] ELSE Tail(cs[i]))

LEMMA AheadBegun ==
  ASSUME NEW S, NEW cs \in Seq(Seq(S)), NEW rids \in Seq(S), cs # << >> => Last(cs) # << >>,
         NEW h, Stands(h, Len(cs), cs) => h[Len(cs) + 1] \in ToSet(rids)
  PROVE  Ahead(h, Append(cs, rids)) <=> Ahead(h, cs)
<1> DEFINE k == Len(cs)
           new == Append(cs, rids)
<1>1. /\ k \in Nat /\ Len(new) = k + 1 /\ new[k + 1] = rids /\ new # << >>
      /\ \A i \in 1 .. k : new[i] = cs[i]
      /\ \A i \in 1 .. k : cs[i] \in Seq(S)
      /\ cs = << >> <=> k = 0
  BY AppendProperties, LenProperties, EmptySeq
<1> HIDE DEF new, k
<1>2. ASSUME NEW i \in 1 .. k + 1 PROVE Stands(h, i - 1, new) <=> Stands(h, i - 1, cs)
  <2>1. \A l \in 1 .. i - 1 : l \in 1 .. k
    BY <1>1
  <2> QED BY <1>1, <2>1 DEF Stands
<1>3. ASSUME NEW i \in 1 .. k - 1
      PROVE  (IF i = k + 1 THEN new[i] ELSE Tail(new[i])) = (IF i = k THEN cs[i] ELSE Tail(cs[i]))
  <2>1. i \in 1 .. k /\ i # k /\ i # k + 1
    BY <1>1
  <2> QED BY <1>1, <2>1
<1>4. CASE k = 0
  <2>1. Stands(h, Len(cs), cs) /\ Stands(h, 1 - 1, new)
    BY <1>4 DEF Stands, k
  <2>2. h[1] \in ToSet(new[1]) /\ Len(new) = 1 /\ new # << >>
    BY <1>1, <1>4, <2>1 DEF k
  <2>3. Ahead(h, new)
    BY <2>1, <2>2 DEF Ahead
  <2>4. Ahead(h, cs)
    BY <1>1, <1>4 DEF Ahead
  <2> QED BY <2>3, <2>4 DEF new
<1>5. CASE k # 0
  <2>1. k \in 1 .. k /\ k \in 1 .. k + 1 /\ k + 1 \in 1 .. k + 1 /\ k - 1 \in Nat
        /\ (k + 1) - 1 = k /\ k # k + 1
    BY <1>1, <1>5
  <2>2. cs # << >> /\ cs[k] # << >>
    BY <1>1, <1>5 DEF Last, k
  <2>3. ToSet(cs[k]) = {cs[k][1]} \cup ToSet(Tail(cs[k]))
    BY <1>1, <2>1, <2>2, TailSet
  <2>4. ASSUME NEW i \in 1 .. k + 1, Stands(h, i - 1, new),
               h[i] \in ToSet(IF i = k + 1 THEN new[i] ELSE Tail(new[i]))
        PROVE  Ahead(h, cs)
    <3>1. CASE i = k + 1
      <4>1. Stands(h, k, cs)
        BY <1>2, <2>1, <2>4, <3>1
      <4>2. h[k] = cs[k][1] /\ Stands(h, k - 1, cs)
        <5>1. \A l \in 1 .. k - 1 : l \in 1 .. k
          BY <1>1
        <5> QED BY <2>1, <4>1, <5>1 DEF Stands
      <4>3. h[k] \in ToSet(cs[k])
        BY <2>3, <4>2
      <4> QED BY <2>1, <4>2, <4>3 DEF Ahead, k
    <3>2. CASE i = k
      <4>1. Stands(h, k - 1, cs) /\ h[k] \in ToSet(Tail(cs[k]))
        BY <1>1, <1>2, <2>1, <2>4, <3>2
      <4>2. h[k] \in ToSet(cs[k])
        BY <2>3, <4>1
      <4> QED BY <2>1, <4>1, <4>2 DEF Ahead, k
    <3>3. CASE i \in 1 .. k - 1
      <4>1. i \in 1 .. k
        BY <1>1, <3>3
      <4>2. Stands(h, i - 1, cs) /\ h[i] \in ToSet(IF i = k THEN cs[i] ELSE Tail(cs[i]))
        BY <1>2, <1>3, <2>4, <3>3
      <4> QED BY <4>1, <4>2 DEF Ahead, k
    <3> QED BY <1>1, <3>1, <3>2, <3>3
  <2>5. ASSUME NEW i \in 1 .. k, Stands(h, i - 1, cs),
               h[i] \in ToSet(IF i = k THEN cs[i] ELSE Tail(cs[i]))
        PROVE  \E l \in 1 .. k + 1 : /\ Stands(h, l - 1, new)
                                     /\ h[l] \in ToSet(IF l = k + 1 THEN new[l] ELSE Tail(new[l]))
    <3>1. CASE i = k /\ h[k] \in ToSet(Tail(cs[k]))
      <4>1. Stands(h, k - 1, new) /\ h[k] \in ToSet(Tail(new[k]))
        BY <1>1, <1>2, <2>1, <2>5, <3>1
      <4> QED BY <2>1, <4>1
    <3>2. CASE i = k /\ h[k] = cs[k][1]
      <4>1. Stands(h, k, cs)
        BY <1>1, <2>5, <3>2 DEF Stands
      <4>2. h[k + 1] \in ToSet(new[k + 1])
        BY <1>1, <4>1 DEF k
      <4>3. Stands(h, k, new)
        BY <1>2, <2>1, <4>1
      <4> QED BY <2>1, <4>2, <4>3
    <3>3. CASE i \in 1 .. k - 1
      <4>1. i \in 1 .. k + 1
        BY <1>1, <3>3
      <4>2. Stands(h, i - 1, new) /\ h[i] \in ToSet(IF i = k + 1 THEN new[i] ELSE Tail(new[i]))
        BY <1>2, <1>3, <2>5, <3>3, <4>1
      <4> QED BY <4>1, <4>2
    <3>4. i = k \/ i \in 1 .. k - 1
      BY <1>1
    <3> QED BY <2>3, <2>5, <3>1, <3>2, <3>3, <3>4
  <2>6. Ahead(h, new) => Ahead(h, cs)
    BY <1>1, <2>4 DEF Ahead
  <2>7. Ahead(h, cs) => Ahead(h, new)
    BY <1>1, <2>2, <2>5 DEF Ahead, k
  <2> QED BY <2>6, <2>7 DEF new
<1> QED
  BY <1>4, <1>5

LEMMA AheadAdvanced ==
  ASSUME NEW S, NEW cs \in Seq(Seq(S)), Len(cs) \in Nat \ {0}, Last(cs) # << >>,
         \A i \in 1 .. Len(cs) : cs[i] # << >> /\ IsInjective(cs[i]), NEW h
  PROVE  /\ Ahead(h, cs) <=> Ahead(h, Advanced(cs)) \/ Stands(h, Len(cs), cs)
         /\ Stands(h, Len(cs), cs) => ~Ahead(h, Advanced(cs))
<1> DEFINE k == Len(cs)
           new == Advanced(cs)
<1>1. /\ new \in Seq(Seq(S)) /\ Len(new) = k /\ new[k] = Tail(cs[k])
      /\ \A i \in 1 .. k - 1 : new[i] = cs[i]
  BY AdvancedIs
<1>2. \A i \in 1 .. k : cs[i] \in Seq(S)
  BY ElementOfSeq
<1>3. k \in Nat \ {0} /\ new # << >> /\ cs # << >>
  BY <1>1
<1> HIDE DEF new
<1>4. \A i \in 1 .. k :
        ToSet(cs[i]) = {cs[i][1]} \cup ToSet(Tail(cs[i])) /\ cs[i][1] \notin ToSet(Tail(cs[i]))
  BY <1>2, TailSet
<1> DEFINE rest(c, i) == IF i = k THEN c[i] ELSE Tail(c[i])
<1>5. ASSUME NEW i \in 1 .. k
      PROVE  /\ Stands(h, i - 1, new) <=> Stands(h, i - 1, cs)
             /\ rest(new, i) = Tail(cs[i])
  <2>1. \A l \in 1 .. i - 1 : l \in 1 .. k - 1
    OBVIOUS
  <2>2. i # k => i \in 1 .. k - 1
    OBVIOUS
  <2> QED BY <1>1, <2>1, <2>2 DEF Stands
<1>6. Ahead(h, new) <=> \E i \in 1 .. k : Stands(h, i - 1, cs) /\ h[i] \in ToSet(Tail(cs[i]))
  BY <1>1, <1>3, <1>5 DEF Ahead
<1>7. Ahead(h, cs) <=> \E i \in 1 .. k : Stands(h, i - 1, cs) /\ h[i] \in ToSet(rest(cs, i))
  BY <1>3 DEF Ahead
<1>8. Stands(h, k, cs) <=> Stands(h, k - 1, cs) /\ h[k] = cs[k][1]
  <2>1. \A l \in 1 .. k : l \in 1 .. k - 1 \/ l = k
    OBVIOUS
  <2>2. k \in 1 .. k /\ \A l \in 1 .. k - 1 : l \in 1 .. k
    OBVIOUS
  <2> HIDE DEF k
  <2> QED BY <2>1, <2>2 DEF Stands
<1>9. k \in 1 .. k /\ \A i \in 1 .. k : i - 1 < k
  BY <1>3
<1> HIDE DEF k
<1>10. ASSUME NEW i \in 1 .. k, Stands(h, k, cs) PROVE h[i] = cs[i][1]
  BY <1>10 DEF Stands
<1>11. Ahead(h, new) => Ahead(h, cs)
  <2>1. \A i \in 1 .. k : ToSet(Tail(cs[i])) \subseteq ToSet(rest(cs, i))
    BY <1>4
  <2> HIDE DEF rest
  <2> QED BY <1>6, <1>7, <2>1
<1>12. Stands(h, k, cs) => Ahead(h, cs)
  <2>1. Stands(h, k, cs) => h[k] \in ToSet(rest(cs, k))
    BY <1>4, <1>8, <1>9
  <2> HIDE DEF rest
  <2> QED BY <1>7, <1>8, <1>9, <2>1
<1>13. Ahead(h, cs) => Ahead(h, new) \/ Stands(h, k, cs)
  <2> SUFFICES ASSUME NEW i \in 1 .. k, Stands(h, i - 1, cs), h[i] \in ToSet(rest(cs, i))
               PROVE  Ahead(h, new) \/ Stands(h, k, cs)
    <3> HIDE DEF rest
    <3> QED BY <1>7
  <2>1. CASE i # k
    BY <1>6, <2>1
  <2>2. CASE i = k
    <3>1. h[k] = cs[k][1] \/ h[k] \in ToSet(Tail(cs[k]))
      BY <1>4, <2>2
    <3> QED BY <1>6, <1>8, <2>2, <3>1
  <2> QED BY <2>1, <2>2
<1>14. Stands(h, k, cs) => ~Ahead(h, new)
  BY <1>4, <1>6, <1>10
<1> QED
  BY <1>11, <1>12, <1>13, <1>14 DEF k, new

LEMMA AheadBackUp ==
  ASSUME NEW S, NEW cs \in Seq(Seq(S)), Len(cs) \in Nat, Len(cs) > 1, Last(cs) = << >>,
         cs[Len(cs) - 1] # << >>, NEW h
  PROVE  Ahead(h, cs) <=> Ahead(h, Advanced(Front(cs)))
<1> DEFINE k == Len(cs)
           front == Front(cs)
           new == Advanced(front)
<1>1. front \in Seq(Seq(S)) /\ Len(front) = k - 1 /\ \A i \in 1 .. k - 1 : front[i] = cs[i]
  BY FrontIs
<1>2. k \in Nat /\ k > 1 /\ k - 1 \in 1 .. k - 1 /\ k - 1 \in Nat \ {0} /\ (k - 1) - 1 = k - 2
      /\ cs[k] = << >> /\ cs[k - 1] # << >> /\ cs # << >>
  BY DEF Last
<1> HIDE DEF k, front
<1>3. Last(front) # << >>
  BY <1>1, <1>2 DEF Last
<1>4. /\ Len(new) = k - 1 /\ new[k - 1] = Tail(front[k - 1])
      /\ \A i \in 1 .. k - 2 : new[i] = front[i]
  BY <1>1, <1>2, <1>3, AdvancedIs
<1> HIDE DEF new
<1>5. ASSUME NEW i \in 1 .. k - 1
      PROVE  /\ Stands(h, i - 1, new) <=> Stands(h, i - 1, cs)
             /\ (IF i = k - 1 THEN new[i] ELSE Tail(new[i])) = Tail(cs[i])
  <2>1. \A l \in 1 .. i - 1 : l \in 1 .. k - 2 /\ l \in 1 .. k - 1
    BY <1>2
  <2>2. i # k - 1 => i \in 1 .. k - 2
    BY <1>2
  <2> QED BY <1>1, <1>4, <2>1, <2>2 DEF Stands
<1>6. Ahead(h, new) <=> \E i \in 1 .. k - 1 : Stands(h, i - 1, cs) /\ h[i] \in ToSet(Tail(cs[i]))
  <2>1. new # << >>
    BY <1>2, <1>4
  <2> QED BY <1>4, <1>5, <2>1 DEF Ahead
<1>7. Ahead(h, cs) <=> \E i \in 1 .. k - 1 : Stands(h, i - 1, cs) /\ h[i] \in ToSet(Tail(cs[i]))
  <2>1. \A i \in 1 .. k : i = k \/ (i \in 1 .. k - 1 /\ i # k)
    BY <1>2
  <2>2. \A i \in 1 .. k - 1 : i \in 1 .. k /\ i # k
    BY <1>2
  <2>3. h[k] \notin ToSet(cs[k])
    BY <1>2 DEF ToSet
  <2>4. Ahead(h, cs) <=> \E i \in 1 .. k : /\ Stands(h, i - 1, cs)
                                           /\ h[i] \in ToSet(IF i = k THEN cs[i] ELSE Tail(cs[i]))
    BY <1>2 DEF Ahead, k
  <2> QED BY <2>1, <2>2, <2>3, <2>4
<1> QED
  BY <1>6, <1>7 DEF new, front


\* A combination the statement asks for.
Found(h) == Combination(h) /\ \A i \in DOMAIN stmt.from : Passes(h, i)

\* No scan comes to a record twice, or to one that does not pass; the result has, once,
\* every combination the plan is past and none that is ahead of it.
ScanOK ==
  pc = "scan" =>
    /\ \A i \in DOMAIN cursor : IsInjective(cursor[i])
    /\ \A i \in DOMAIN cursor : \A h \in [DOMAIN stmt.from -> Rids] :
         Combination(h) /\ Stands(h, i - 1, cursor) /\ h[i] \in ToSet(cursor[i]) => Passes(h, i)
    /\ IsInjective(out)
    /\ \A h \in ToSet(out) : Found(h) /\ ~Ahead(h, cursor)
    /\ \A h \in [DOMAIN stmt.from -> Rids] : Found(h) => h \in ToSet(out) \/ Ahead(h, cursor)

LEMMA SameRows ==
  ASSUME UNCHANGED <<recs, stmt>>
  PROVE  \A h : /\ Combination(h)' <=> Combination(h)
                /\ \A i : Passes(h, i)' <=> Passes(h, i)
                /\ Found(h)' <=> Found(h)
<1>1. ASSUME NEW h
      PROVE  (Combination(h)' <=> Combination(h)) /\ RowsOf(h)' = RowsOf(h)
  BY DEF Combination, RowsOf
<1>2. ASSUME NEW h, NEW i PROVE Passes(h, i)' <=> Passes(h, i)
  <2>1. Places(i)' = Places(i) /\ stmt' = stmt
    BY DEF Places
  <2> QED BY <1>1, <2>1 DEF Passes
<1> QED
  BY <1>1, <1>2 DEF Found

\* A step of the plan, for the cursors and the result it goes on to.
LEMMA ScanStep ==
  ASSUME ScanOK, pc = "scan", UNCHANGED <<recs, stmt>>, NEW cs, cursor' = cs, NEW new, out' = new,
         \A i \in DOMAIN cs : IsInjective(cs[i]),
         \A i \in DOMAIN cs : \A h \in [DOMAIN stmt.from -> Rids] :
           Combination(h) /\ Stands(h, i - 1, cs) /\ h[i] \in ToSet(cs[i]) => Passes(h, i),
         IsInjective(new), \A h \in ToSet(new) : Found(h) /\ ~Ahead(h, cs),
         \A h \in [DOMAIN stmt.from -> Rids] : Found(h) => h \in ToSet(new) \/ Ahead(h, cs)
  PROVE  ScanOK'
<1>1. stmt' = stmt
  OBVIOUS
<1> QED
  BY <1>1, SameRows DEF ScanOK

LEMMA StartScan ==
  ASSUME Files, NEW s \in Statement, Start(s)
  PROVE  ScanOK'
<1>1. cursor' = << >> /\ out' = << >>
  BY DEF Start, Files, PlanOK, plan
<1>2. ToSet(<< >>) = {} /\ IsInjective(<< >>)
  BY DEF ToSet, IsInjective
<1> QED
  BY <1>1, <1>2 DEF ScanOK, Ahead

LEMMA BeginTableScan ==
  ASSUME Files, ScanOK, BeginTable
  PROVE  ScanOK'
<1> DEFINE n == Len(stmt.from)
           k == Len(cursor)
           t == stmt.from[k + 1]
           conds == FedConds(k + 1)
<1>1. pc = "scan" /\ UNCHANGED <<recs, stmt>> /\ out' = out
      /\ (cursor # << >> => Last(cursor) # << >>) /\ k < n
  BY DEF BeginTable, files
<1>2. PICK rids \in Scans(t, conds) : cursor' = Append(cursor, rids)
  BY DEF BeginTable
<1>3. /\ n \in Nat /\ DOMAIN stmt.from = 1 .. n /\ k \in Nat /\ k + 1 \in DOMAIN stmt.from
      /\ t \in Tables /\ stmt \in Statement /\ cursor \in Seq(Seq(Rids)) /\ DOMAIN cursor = 1 .. k
  BY <1>1, ScanTypes
<1>4. DOMAIN conds \subseteq Nat
  BY <1>3, FedCondsDomain
<1>5. ToSet(rids) = Begun(t, conds) /\ rids \in Seq(Rids) /\ IsInjective(rids)
  <2>1. /\ rids \in [1 .. Cardinality(Begun(t, conds)) -> Begun(t, conds)]
        /\ ToSet(rids) = Begun(t, conds)
    BY <1>2, ScansAre
  <2>2. IsInjective(rids)
    BY <1>1, <1>2, <1>3, <1>4, ScanInjective
  <2>3. Begun(t, conds) \subseteq Rids
    BY <1>1, <1>3, <1>4, BegunLive, ScanTypes
  <2>4. IsFiniteSet(Begun(t, conds))
    <3>1. Begun(t, conds) \subseteq Room[t]
      BY <1>1, <1>3, <1>4, BegunLive, ScanTypes
    <3> HIDE DEF t, conds
    <3> QED BY <1>3, <3>1, RoomAssumption, FS_Subset
  <2>5. Cardinality(Begun(t, conds)) \in Nat
    BY <2>4, FS_CardinalityType
  <2> HIDE DEF t, conds
  <2>6. rids \in [1 .. Cardinality(Begun(t, conds)) -> Rids]
    BY <2>1, <2>3
  <2> QED BY <2>1, <2>2, <2>5, <2>6, SeqDef
<1> DEFINE cs == Append(cursor, rids)
<1>6. /\ DOMAIN cs = 1 .. k + 1 /\ cs[k + 1] = rids
      /\ \A i \in 1 .. k : cs[i] = cursor[i]
  <2> HIDE DEF k
  <2>1. cs \in Seq(Seq(Rids)) /\ Len(cs) = Len(cursor) + 1 /\ cs[Len(cursor) + 1] = rids
        /\ \A i \in 1 .. Len(cursor) : cs[i] = cursor[i]
    BY <1>3, <1>5, AppendProperties
  <2> QED BY <2>1, LenProperties DEF k
<1>7. ASSUME NEW h, Combination(h), Stands(h, k, cursor)
      PROVE  h[k + 1] \in ToSet(rids) <=> Passes(h, k + 1)
  <2>1. (k + 1) - 1 = k
    BY <1>3
  <2>2. h[k + 1] \in Begun(t, conds) <=> Passes(h, k + 1)
    BY <1>1, <1>3, <1>7, <2>1, BegunPass
  <2> QED BY <1>5, <2>2
<1>8. ASSUME NEW h, Found(h) PROVE Ahead(h, cs) <=> Ahead(h, cursor)
  <2>1. Stands(h, k, cursor) => h[k + 1] \in ToSet(rids)
    BY <1>3, <1>7, <1>8 DEF Found
  <2> QED BY <1>1, <1>3, <1>5, <2>1, AheadBegun
<1>9. \A i \in DOMAIN cs : IsInjective(cs[i])
  <2>1. \A i \in 1 .. k : IsInjective(cursor[i])
    BY <1>1, <1>3 DEF ScanOK
  <2> HIDE DEF cs
  <2>2. \A i \in 1 .. k + 1 : i \in 1 .. k \/ i = k + 1
    BY <1>3
  <2> QED BY <1>5, <1>6, <2>1, <2>2
<1>10. ASSUME NEW i \in DOMAIN cs, NEW h \in [DOMAIN stmt.from -> Rids],
              Combination(h), Stands(h, i - 1, cs), h[i] \in ToSet(cs[i])
       PROVE  Passes(h, i)
  <2> HIDE DEF cs, k
  <2>1. Stands(h, i - 1, cursor)
    <3>1. \A l \in 1 .. i - 1 : l \in 1 .. k
      BY <1>3, <1>6
    <3> QED BY <1>6, <1>10, <3>1 DEF Stands
  <2>2. CASE i = k + 1
    <3>1. Stands(h, k, cursor)
      BY <1>3, <2>1, <2>2
    <3> QED BY <1>6, <1>7, <1>10, <2>2, <3>1
  <2>3. CASE i # k + 1
    <3>1. i \in 1 .. k
      BY <1>3, <1>6, <2>3
    <3> QED BY <1>1, <1>3, <1>6, <1>10, <2>1, <3>1 DEF ScanOK
  <2> QED BY <2>2, <2>3
<1>11. /\ IsInjective(out) /\ \A h \in ToSet(out) : Found(h) /\ ~Ahead(h, cursor)
       /\ \A h \in [DOMAIN stmt.from -> Rids] : Found(h) => h \in ToSet(out) \/ Ahead(h, cursor)
  BY <1>1 DEF ScanOK
<1>12. cursor' = cs
  BY <1>2
<1> HIDE DEF cs, k, n
<1> QED
  BY <1>1, <1>8, <1>9, <1>10, <1>11, <1>12, ScanStep


LEMMA TakeRowScan ==
  ASSUME Files, ScanOK, TakeRow
  PROVE  ScanOK'
<1> DEFINE n == Len(stmt.from)
           h0 == [i \in DOMAIN cursor |-> cursor[i][1]]
           cs == Advanced(cursor)
<1>1. /\ pc = "scan" /\ UNCHANGED <<recs, stmt>> /\ Len(cursor) = n /\ Last(cursor) # << >>
      /\ out' = Append(out, h0) /\ cursor' = cs
  BY DEF TakeRow, files
<1>2. /\ n \in Nat \ {0} /\ DOMAIN stmt.from = 1 .. n /\ cursor \in Seq(Seq(Rids))
      /\ DOMAIN cursor = 1 .. n /\ cursor # << >>
  BY <1>1, ScanTypes
<1>3. ASSUME NEW i \in 1 .. n
      PROVE  /\ cursor[i] \in Seq(Rids) /\ cursor[i] # << >> /\ IsInjective(cursor[i])
             /\ ToSet(cursor[i]) \subseteq DOMAIN recs[stmt.from[i]]
             /\ h0[i] = cursor[i][1] /\ h0[i] \in ToSet(cursor[i]) /\ h0[i] \in Rids
  <2>1. cursor[i] \in Seq(Rids) /\ ToSet(cursor[i]) \subseteq DOMAIN recs[stmt.from[i]]
    BY <1>1, ScanTypes
  <2>2. cursor[i] # << >>
    <3>1. CASE i = n
      BY <1>1, <3>1 DEF Last
    <3>2. CASE i # n
      <4>1. i \in 1 .. Len(cursor) - 1
        BY <1>1, <1>2, <3>2
      <4> QED BY <1>1, <4>1, ScanTypes
    <3> QED BY <3>1, <3>2
  <2>3. cursor[i][1] \in ToSet(cursor[i]) /\ cursor[i][1] \in Rids
    BY <2>1, <2>2, TailSet, EmptySeq, ElementOfSeq
  <2>4. IsInjective(cursor[i])
    BY <1>1, <1>2 DEF ScanOK
  <2> QED BY <1>2, <2>1, <2>2, <2>3, <2>4
<1>4. h0 \in [1 .. n -> Rids]
  BY <1>2, <1>3
<1> HIDE DEF h0
<1>5. Combination(h0) /\ Stands(h0, n, cursor)
  BY <1>2, <1>3, <1>4 DEF Combination, Stands
<1>6. Found(h0)
  <2>1. ASSUME NEW i \in 1 .. n PROVE Passes(h0, i)
    <3>1. Stands(h0, i - 1, cursor)
      <4>1. \A l \in 1 .. i - 1 : l \in 1 .. n
        BY <1>2
      <4> QED BY <1>5, <4>1 DEF Stands
    <3> QED BY <1>1, <1>2, <1>3, <1>4, <1>5, <3>1 DEF ScanOK
  <2> QED BY <1>2, <1>5, <2>1 DEF Found
<1>7. ASSUME NEW h
      PROVE  /\ Ahead(h, cursor) <=> Ahead(h, cs) \/ Stands(h, n, cursor)
             /\ Stands(h, n, cursor) => ~Ahead(h, cs)
  <2>1. \A i \in 1 .. Len(cursor) : cursor[i] # << >> /\ IsInjective(cursor[i])
    BY <1>1, <1>3
  <2> QED BY <1>1, <1>2, <2>1, AheadAdvanced
<1>8. ASSUME NEW h \in [DOMAIN stmt.from -> Rids], Stands(h, n, cursor) PROVE h = h0
  <2>1. \A i \in 1 .. n : h[i] = h0[i]
    BY <1>3, <1>8 DEF Stands
  <2> QED BY <1>2, <1>4, <2>1
<1>9. h0 \notin ToSet(out)
  BY <1>1, <1>5, <1>7 DEF ScanOK
<1>10. ToSet(Append(out, h0)) = ToSet(out) \cup {h0} /\ IsInjective(Append(out, h0))
  <2>1. out \in Seq([DOMAIN stmt.from -> Rids]) /\ IsInjective(out)
    BY <1>1, OutTypes DEF ScanOK
  <2> QED BY <1>2, <1>4, <1>9, <2>1, AppendSet
<1>11. /\ DOMAIN cs = 1 .. n /\ cs[n] = Tail(cursor[n])
       /\ \A i \in 1 .. n - 1 : cs[i] = cursor[i]
  <2>1. /\ cs \in Seq(Seq(Rids)) /\ Len(cs) = n /\ cs[n] = Tail(cursor[n])
        /\ \A i \in 1 .. n - 1 : cs[i] = cursor[i]
    BY <1>1, <1>2, AtRow
  <2> QED BY <2>1, LenProperties
<1> HIDE DEF cs, n
<1>12. ASSUME NEW i \in DOMAIN cs
       PROVE  IsInjective(cs[i]) /\ ToSet(cs[i]) \subseteq ToSet(cursor[i]) /\ i \in 1 .. n
  <2>1. CASE i = n
    <3>1. n \in 1 .. n
      BY <1>2
    <3>2. cursor[n] \in Seq(Rids) /\ cursor[n] # << >> /\ IsInjective(cursor[n])
      BY <1>3, <3>1
    <3>3. IsInjective(Tail(cursor[n])) /\ ToSet(Tail(cursor[n])) \subseteq ToSet(cursor[n])
      BY <3>2, TailSet
    <3> QED BY <1>11, <2>1, <3>1, <3>3
  <2>2. CASE i # n
    <3>1. i \in 1 .. n - 1
      BY <1>2, <1>11, <2>2
    <3> QED BY <1>3, <1>11, <3>1
  <2> QED BY <2>1, <2>2
<1>13. ASSUME NEW i \in DOMAIN cs, NEW h \in [DOMAIN stmt.from -> Rids],
              Combination(h), Stands(h, i - 1, cs), h[i] \in ToSet(cs[i])
       PROVE  Passes(h, i)
  <2>1. \A l \in 1 .. i - 1 : l \in 1 .. n - 1
    BY <1>2, <1>11
  <2>2. Stands(h, i - 1, cursor)
    BY <1>11, <1>13, <2>1 DEF Stands
  <2>3. h[i] \in ToSet(cursor[i]) /\ i \in DOMAIN cursor
    BY <1>2, <1>12, <1>13
  <2> QED BY <1>1, <1>13, <2>2, <2>3 DEF ScanOK
<1>14. ASSUME NEW h \in ToSet(Append(out, h0)) PROVE Found(h) /\ ~Ahead(h, cs)
  <2>1. CASE h = h0
    BY <1>5, <1>6, <1>7, <2>1
  <2>2. CASE h \in ToSet(out)
    BY <1>1, <1>7, <2>2 DEF ScanOK
  <2> QED BY <1>10, <2>1, <2>2
<1>15. ASSUME NEW h \in [DOMAIN stmt.from -> Rids], Found(h)
       PROVE  h \in ToSet(Append(out, h0)) \/ Ahead(h, cs)
  BY <1>1, <1>7, <1>8, <1>10, <1>15 DEF ScanOK
<1> DEFINE new == Append(out, h0)
<1> HIDE DEF new
<1>16. out' = new /\ cursor' = cs /\ IsInjective(new)
  BY <1>1, <1>10 DEF new
<1>17. \A h \in ToSet(new) : Found(h) /\ ~Ahead(h, cs)
  BY <1>14 DEF new
<1>18. \A h \in [DOMAIN stmt.from -> Rids] : Found(h) => h \in ToSet(new) \/ Ahead(h, cs)
  BY <1>15 DEF new
<1> QED
  BY <1>1, <1>12, <1>13, <1>16, <1>17, <1>18, ScanStep

LEMMA BackUpScan ==
  ASSUME Files, ScanOK, BackUp
  PROVE  ScanOK'
<1> DEFINE k == Len(cursor)
           front == Front(cursor)
           cs == Advanced(front)
<1>1. /\ pc = "scan" /\ UNCHANGED <<recs, stmt>> /\ out' = out
      /\ k > 1 /\ Last(cursor) = << >> /\ cursor' = cs
  BY DEF BackUp, files
<1>2. /\ k \in Nat /\ k \in Nat \ {0} /\ k - 1 \in Nat \ {0} /\ k - 1 \in 1 .. k - 1
      /\ cursor \in Seq(Seq(Rids)) /\ DOMAIN cursor = 1 .. k
      /\ \A i \in 1 .. k - 1 : cursor[i] # << >> /\ cursor[i] \in Seq(Rids)
  <2>1. /\ k \in Nat /\ cursor \in Seq(Seq(Rids)) /\ DOMAIN cursor = 1 .. k
        /\ \A i \in 1 .. k - 1 : cursor[i] # << >>
        /\ \A i \in 1 .. k : cursor[i] \in Seq(Rids)
    BY <1>1, ScanTypes
  <2>2. k > 1
    BY <1>1
  <2> HIDE DEF k
  <2>3. k \in Nat \ {0} /\ k - 1 \in Nat \ {0} /\ k - 1 \in 1 .. k - 1
        /\ \A i \in 1 .. k - 1 : i \in 1 .. k
    BY <2>1, <2>2
  <2> QED BY <2>1, <2>3
<1>3. /\ front \in Seq(Seq(Rids)) /\ Len(front) = k - 1
      /\ \A i \in 1 .. k - 1 : front[i] = cursor[i]
  BY <1>2, FrontIs
<1> HIDE DEF front
<1>4. Last(front) # << >>
  BY <1>2, <1>3 DEF Last
<1>5. /\ DOMAIN cs = 1 .. k - 1 /\ cs[k - 1] = Tail(cursor[k - 1])
      /\ \A i \in 1 .. k - 2 : cs[i] = cursor[i]
  <2>1. /\ cs \in Seq(Seq(Rids)) /\ Len(cs) = k - 1 /\ cs[k - 1] = Tail(front[k - 1])
        /\ \A i \in 1 .. k - 2 : cs[i] = front[i]
    <3>1. Len(front) \in Nat \ {0} /\ Len(front) - 1 = k - 2
      BY <1>2, <1>3
    <3> QED BY <1>3, <1>4, <3>1, AdvancedIs
  <2>2. DOMAIN cs = 1 .. k - 1
    BY <2>1, LenProperties
  <2>3. \A i \in 1 .. k - 2 : i \in 1 .. k - 1
    BY <1>2
  <2> QED BY <1>2, <1>3, <2>1, <2>2, <2>3
<1>6. ASSUME NEW h PROVE Ahead(h, cursor) <=> Ahead(h, cs)
  <2>1. cursor[k - 1] # << >>
    BY <1>2
  <2> QED BY <1>1, <1>2, <2>1, AheadBackUp DEF front
<1> HIDE DEF cs, k
<1>7. ASSUME NEW i \in DOMAIN cs
      PROVE  IsInjective(cs[i]) /\ ToSet(cs[i]) \subseteq ToSet(cursor[i]) /\ i \in DOMAIN cursor
  <2>1. i \in DOMAIN cursor /\ i \in 1 .. k - 1
    BY <1>2, <1>5
  <2>2. IsInjective(cursor[i])
    BY <1>1, <2>1 DEF ScanOK
  <2>3. CASE i = k - 1
    <3>1. cursor[i] \in Seq(Rids) /\ cursor[i] # << >>
      BY <1>2, <2>1
    <3>2. IsInjective(Tail(cursor[i])) /\ ToSet(Tail(cursor[i])) \subseteq ToSet(cursor[i])
      BY <2>2, <3>1, TailSet
    <3> QED BY <1>5, <2>1, <2>3, <3>2
  <2>4. CASE i # k - 1
    <3>1. i \in 1 .. k - 2
      BY <1>2, <2>1, <2>4
    <3> QED BY <1>5, <2>1, <2>2, <3>1
  <2> QED BY <2>3, <2>4
<1>8. ASSUME NEW i \in DOMAIN cs, NEW h \in [DOMAIN stmt.from -> Rids],
             Combination(h), Stands(h, i - 1, cs), h[i] \in ToSet(cs[i])
      PROVE  Passes(h, i)
  <2>1. \A l \in 1 .. i - 1 : l \in 1 .. k - 2
    BY <1>2, <1>5
  <2>2. Stands(h, i - 1, cursor)
    BY <1>5, <1>8, <2>1 DEF Stands
  <2>3. h[i] \in ToSet(cursor[i]) /\ i \in DOMAIN cursor
    BY <1>7, <1>8
  <2> QED BY <1>1, <1>8, <2>2, <2>3 DEF ScanOK
<1>9. /\ IsInjective(out) /\ \A h \in ToSet(out) : Found(h) /\ ~Ahead(h, cs)
      /\ \A h \in [DOMAIN stmt.from -> Rids] : Found(h) => h \in ToSet(out) \/ Ahead(h, cs)
  BY <1>1, <1>6 DEF ScanOK
<1> QED
  BY <1>1, <1>7, <1>8, <1>9, ScanStep

LEMMA ScanInit == Init => ScanOK
BY DEF Init, ScanOK

LEMMA ScanNext == Files /\ ScanOK /\ [Next]_vars => ScanOK'
<1> SUFFICES ASSUME Files, ScanOK, [Next]_vars PROVE ScanOK'
  OBVIOUS
<1>1. CASE \E s \in Statement : Start(s)
  BY <1>1, StartScan
<1>2. CASE BeginTable
  BY <1>2, BeginTableScan
<1>3. CASE TakeRow
  BY <1>3, TakeRowScan
<1>4. CASE BackUp
  BY <1>4, BackUpScan
<1>5. CASE EndScan
  BY <1>5 DEF EndScan, ScanOK
<1>6. CASE PutRecord
  BY <1>6 DEF PutRecord, ScanOK
<1>7. CASE PutEntry
  BY <1>7 DEF PutEntry, ScanOK
<1>8. CASE IndexedAll
  BY <1>8 DEF IndexedAll, ScanOK
<1>9. CASE NextRecord
  BY <1>9 DEF NextRecord, ScanOK
<1>10. CASE DropEntry
  BY <1>10 DEF DropEntry, ScanOK
<1>11. CASE Unindexed
  BY <1>11 DEF Unindexed, ScanOK
<1>12. CASE WriteRecord
  BY <1>12 DEF WriteRecord, ScanOK
<1>13. CASE EndRounds
  BY <1>13 DEF EndRounds, ScanOK
<1>14. CASE EraseRecord
  BY <1>14 DEF EraseRecord, ScanOK
<1>15. CASE Return
  BY <1>15 DEF Return, ScanOK
<1>16. CASE UNCHANGED vars
  <2>1. UNCHANGED <<recs, stmt>> /\ stmt' = stmt /\ pc' = pc /\ cursor' = cursor /\ out' = out
    BY <1>16 DEF vars
  <2> QED BY <2>1, SameRows DEF ScanOK
<1>17. CASE ColumnNotFound
  BY <1>17 DEF ColumnNotFound, ScanOK
<1> QED
  BY <1>1, <1>2, <1>3, <1>4, <1>5, <1>6, <1>7, <1>8, <1>9, <1>10, <1>11, <1>12, <1>13, <1>14,
     <1>15, <1>16, <1>17 DEF Next, Step

\* While a delete or an update with a condition on another table is looking for
\* rows, it has come to none.
StrayOK ==
  pc = "scan" /\ stmt.kind # "select" /\ Strays # {} =>
    cursor \in {<< >>, <<(<< >>)>>} /\ out = << >>

LEMMA StrayInit == Init => StrayOK
BY DEF Init, StrayOK

\* QlNodeTable has thrown unless every row fails a condition that is looked at before
\* the one on the other table.
LEMMA StrayBegun ==
  ASSUME ~ColumnMissing, Strays # {}
  PROVE  Begun(Target, FedConds(1)) = {}
<1>1. PICK j \in Strays : TRUE
  OBVIOUS
<1>2. \A r \in ToVisit(Target, FedConds(1)) :
        \E k \in DOMAIN FedConds(1) : ~EvalCond(FedConds(1)[k], recs[Target][r])
  BY <1>1 DEF ColumnMissing
<1> QED
  BY <1>2 DEF Begun

LEMMA StrayNext == Files /\ StrayOK /\ [Next]_vars => StrayOK'
<1> SUFFICES ASSUME Files, StrayOK, [Next]_vars, pc' = "scan", stmt'.kind # "select", Strays' # {}
             PROVE  cursor' \in {<< >>, <<(<< >>)>>} /\ out' = << >>
  BY DEF StrayOK
<1>1. CASE \E s \in Statement : Start(s)
  BY <1>1 DEF Start, Files, PlanOK, plan
<1>2. CASE BeginTable
  <2>1. pc = "scan" /\ stmt' = stmt /\ out' = out /\ stmt.kind # "select" /\ Strays # {}
    BY <1>2 DEF BeginTable, Strays
  <2>2. cursor \in Seq(Seq(Rids)) /\ Len(cursor) < Len(stmt.from) /\ Len(stmt.from) = 1
    BY <1>2, <2>1, ScanTypes, StatementTypes DEF BeginTable
  <2>3. cursor = << >> /\ Len(cursor) + 1 = 1
    BY <2>2
  <2>4. PICK rids \in Scans(Target, FedConds(1)) : cursor' = Append(cursor, rids)
    BY <1>2, <2>3 DEF BeginTable, Target
  <2>5. Begun(Target, FedConds(1)) = {}
    BY <1>2, <2>1, StrayBegun DEF BeginTable
  <2>6. Cardinality(Begun(Target, FedConds(1))) = 0
    BY <2>5, FS_EmptySet
  <2>7. rids \in [1 .. 0 -> {}]
    BY <2>4, <2>5, <2>6, ScansAre
  <2>8. rids = << >>
    BY <2>7
  <2> QED BY <2>1, <2>3, <2>4, <2>8 DEF StrayOK
<1>3. CASE TakeRow
  <2>1. pc = "scan" /\ stmt' = stmt /\ stmt.kind # "select" /\ Strays # {} /\ Last(cursor) # << >>
        /\ Len(cursor) = Len(stmt.from)
    BY <1>3 DEF TakeRow, Strays
  <2>2. Len(stmt.from) = 1
    BY <2>1, ScanTypes, StatementTypes
  <2>3. cursor = <<(<< >>)>>
    BY <2>1, <2>2 DEF StrayOK
  <2> QED BY <2>1, <2>3 DEF Last
<1>4. CASE BackUp
  <2>1. pc = "scan" /\ stmt' = stmt /\ stmt.kind # "select" /\ Strays # {} /\ Len(cursor) > 1
    BY <1>4 DEF BackUp, Strays
  <2>2. cursor = << >> \/ cursor = <<(<< >>)>>
    BY <2>1 DEF StrayOK
  <2>3. Len(<< >>) = 0 /\ Len(<<(<< >>)>>) = 1
    OBVIOUS
  <2>4. Len(cursor) = 0 \/ Len(cursor) = 1
    BY <2>2, <2>3
  <2>5. ASSUME NEW n, n = 0 \/ n = 1, n > 1 PROVE FALSE
    BY <2>5
  <2>6. FALSE
    BY <2>1, <2>4, <2>5
  <2> QED BY <2>6
<1>5. CASE UNCHANGED vars
  BY <1>5 DEF vars, Strays, StrayOK
<1>6. CASE EndScan \/ ColumnNotFound \/ PutRecord \/ PutEntry \/ IndexedAll \/ NextRecord
  BY <1>6 DEF EndScan, ColumnNotFound, PutRecord, PutEntry, IndexedAll, NextRecord
<1>7. CASE DropEntry \/ Unindexed \/ WriteRecord \/ EndRounds \/ EraseRecord \/ Return
  BY <1>7 DEF DropEntry, Unindexed, WriteRecord, EndRounds, EraseRecord, Return
<1> QED
  BY <1>1, <1>2, <1>3, <1>4, <1>5, <1>6, <1>7 DEF Next, Step

LEMMA ScanResult == Files /\ ScanOK /\ StrayOK /\ CondsPopped => ResultExact
<1> SUFFICES ASSUME Files, ScanOK, StrayOK, CondsPopped, PlanEnded
             PROVE  IsInjective(out) /\ ToSet(out) = Answers
  BY DEF ResultExact, Answers
<1>1. pc = "scan" /\ cursor = <<(<< >>)>>
  BY DEF PlanEnded
<1>2. ASSUME NEW h PROVE ~Ahead(h, cursor)
  <2>1. ToSet(<< >>) = {}
    BY DEF ToSet
  <2> QED BY <1>1, <2>1 DEF Ahead
<1>3. CASE Strays = {}
  <2>1. ASSUME NEW h PROVE h \in Answers <=> Found(h)
    BY <1>1, <1>3, AnswersAre DEF Found
  <2>2. \A h : Found(h) => h \in [DOMAIN stmt.from -> Rids]
    BY DEF Found, Combination
  <2> QED BY <1>1, <1>2, <2>1, <2>2 DEF ScanOK
<1>4. CASE Strays # {}
  <2>1. out = << >>
    BY <1>1, <1>4 DEF StrayOK, CondsPopped
  <2>2. ToSet(<< >>) = {} /\ IsInjective(<< >>)
    BY DEF ToSet, IsInjective
  <2> QED BY <1>1, <1>4, <2>1, <2>2, StrayAnswers
<1> QED
  BY <1>3, <1>4

\* As long as the assertion of select_from has not failed, QlNodeJoin and QlNodeTable
\* come, when they have no more rows, to every combination of records that satisfies
\* the conditions, once and to no other, whichever indexes the scans use.
THEOREM ResultIsAnswer == Spec /\ []CondsPopped => []ResultExact
<1>1. Init => ScanOK /\ StrayOK
  BY ScanInit, StrayInit
<1>2. Spec => []Files
  BY FilesHold
<1> QED
  BY <1>1, <1>2, ScanNext, StrayNext, ScanResult, PTL DEF Spec


-----------------------------------------------------------------------------
(* The statements implement those of TableStore.                           *)

\* The records a statement has updated are as it would make them again.
Updated ==
  pc \in {"round", "unindex", "index"} /\ stmt.kind = "update" =>
    \A r \in Matched \ (todo \cup (IF pc = "unindex" THEN {rid} ELSE {})) :
      AfterAll(recs[Target][r], stmt.sets) = recs[Target][r]

LEMMA AssignedTwice ==
  ASSUME Files, pc \in Changing, NEW r \in DOMAIN recs[Target]
  PROVE  /\ Assigned(recs[Target][r]) = AfterAll(recs[Target][r], stmt.sets)
         /\ AfterAll(Assigned(recs[Target][r]), stmt.sets) = Assigned(recs[Target][r])
<1>1. recs[Target][r] \in Row(Target) /\ stmt \in Statement /\ ~Refused(stmt)
  BY ChangeTypes
<1>2. Assigned(recs[Target][r]) \in Row(Target)
  BY <1>1, AssignedRow
<1>3. /\ Assigned(recs[Target][r]) = AfterAll(recs[Target][r], stmt.sets)
      /\ Assigned(Assigned(recs[Target][r])) = Assigned(recs[Target][r])
  BY <1>1, AssignedRow
<1>4. Assigned(Assigned(recs[Target][r])) = AfterAll(Assigned(recs[Target][r]), stmt.sets)
  BY <1>1, <1>2, AssignedRow
<1> QED
  BY <1>3, <1>4

\* What the record file of its table has when update_set has written a record.
LEMMA Written ==
  ASSUME Files, WriteRecord
  PROVE  /\ rid \in Matched /\ rid \in DOMAIN recs[Target] /\ DOMAIN recs'[Target] = DOMAIN recs[Target]
         /\ recs'[Target][rid] = AfterAll(recs[Target][rid], stmt.sets)
         /\ AfterAll(recs'[Target][rid], stmt.sets) = recs'[Target][rid]
         /\ \A r \in DOMAIN recs[Target] : r # rid => recs'[Target][r] = recs[Target][r]
         /\ \A t \in Tables : t # Target => recs'[t] = recs[t]
<1>1. /\ pc = "unindex" /\ stmt.kind = "update"
      /\ recs' = [recs EXCEPT ![Target][rid] = Assigned(@)]
  BY DEF WriteRecord
<1>2. rid \in Matched /\ rid \in DOMAIN recs[Target]
  BY <1>1 DEF Files, WorkOK, Changing
<1>3. /\ Assigned(recs[Target][rid]) = AfterAll(recs[Target][rid], stmt.sets)
      /\ AfterAll(Assigned(recs[Target][rid]), stmt.sets) = Assigned(recs[Target][rid])
  BY <1>1, <1>2, AssignedTwice DEF Changing
<1>4. Target \in Tables /\ recs = [t \in Tables |-> recs[t]]
      /\ recs[Target] \in [DOMAIN recs[Target] -> Row(Target)]
  BY <1>1, ChangeTypes DEF Changing
<1> DEFINE new == [recs[Target] EXCEPT ![rid] = Assigned(recs[Target][rid])]
<1>5. recs' = [recs EXCEPT ![Target] = new]
  BY <1>1
<1>6. recs'[Target] = new /\ \A t \in Tables : t # Target => recs'[t] = recs[t]
  BY <1>4, <1>5
<1>7. /\ DOMAIN new = DOMAIN recs[Target] /\ new[rid] = Assigned(recs[Target][rid])
      /\ \A r \in DOMAIN recs[Target] : r # rid => new[r] = recs[Target][r]
  BY <1>2, <1>4
<1> HIDE DEF new
<1> QED
  BY <1>2, <1>3, <1>6, <1>7

LEMMA UpdatedInit == Init => Updated
BY DEF Init, Updated

LEMMA UpdatedNext == Files /\ Updated /\ [Next]_vars => Updated'
<1> SUFFICES ASSUME Files, Updated, [Next]_vars PROVE Updated'
  OBVIOUS
<1>0. ASSUME UNCHANGED <<plan, stmt>> PROVE Matched' = Matched /\ Target' = Target
  BY <1>0 DEF plan, Matched, Target
<1>1. CASE \E s \in Statement : Start(s)
  BY <1>1 DEF Start, Updated
<1>2. CASE BeginTable
  BY <1>2 DEF BeginTable, Updated
<1>3. CASE TakeRow
  BY <1>3 DEF TakeRow, Updated
<1>4. CASE BackUp
  BY <1>4 DEF BackUp, Updated
<1>5. CASE EndScan
  <2>1. /\ pc' \in {"done", "round"} /\ UNCHANGED <<plan, stmt>>
        /\ pc' = "round" => todo' = Matched
    BY <1>5 DEF EndScan
  <2> QED BY <1>0, <2>1 DEF Updated
<1>6. CASE PutRecord
  <2>1. stmt'.kind = "insert"
    BY <1>6 DEF PutRecord, Files, PhaseOK
  <2> QED BY <2>1 DEF Updated
<1>7. CASE PutEntry
  <2>1. pc = "index" /\ pc' = pc /\ UNCHANGED <<recs, stmt, plan, todo, rid>> /\ stmt' = stmt
    BY <1>7 DEF PutEntry
  <2> QED BY <1>0, <2>1 DEF Updated
<1>8. CASE IndexedAll
  <2>1. /\ pc = "index" /\ pc' \in {"done", "round"} /\ UNCHANGED <<plan, stmt>> /\ stmt' = stmt
        /\ recs' = recs /\ todo' = todo
    BY <1>8 DEF IndexedAll, files
  <2> QED BY <1>0, <2>1 DEF Updated
<1>9. CASE NextRecord
  <2>1. /\ pc = "round" /\ pc' = "unindex" /\ UNCHANGED <<plan, stmt>> /\ stmt' = stmt /\ recs' = recs
        /\ rid' \in todo /\ todo' = todo \ {rid'}
    BY <1>9 DEF NextRecord, files
  <2>2. todo' \cup {rid'} = todo
    BY <2>1
  <2> QED BY <1>0, <2>1, <2>2 DEF Updated
<1>10. CASE DropEntry
  <2>1. pc = "unindex" /\ pc' = pc /\ UNCHANGED <<recs, stmt, plan, todo, rid>> /\ stmt' = stmt
    BY <1>10 DEF DropEntry
  <2> QED BY <1>0, <2>1 DEF Updated
<1>11. CASE Unindexed
  <2>1. stmt'.kind = "delete"
    BY <1>11 DEF Unindexed
  <2> QED BY <2>1 DEF Updated
<1>12. CASE WriteRecord
  <2>1. /\ pc = "unindex" /\ pc' = "index" /\ UNCHANGED <<plan, stmt>> /\ stmt' = stmt
        /\ todo' = todo /\ stmt.kind = "update"
    BY <1>12 DEF WriteRecord
  <2>2. Matched \subseteq DOMAIN recs[Target]
    BY <2>1 DEF Files, WorkOK, Changing
  <2>3. ASSUME NEW r \in Matched \ todo
        PROVE  AfterAll(recs'[Target][r], stmt.sets) = recs'[Target][r]
    <3>1. CASE r = rid
      BY <1>12, <3>1, Written
    <3>2. CASE r # rid
      <4>1. recs'[Target][r] = recs[Target][r]
        BY <1>12, <2>2, <3>2, Written
      <4>2. AfterAll(recs[Target][r], stmt.sets) = recs[Target][r]
        BY <2>1, <3>2 DEF Updated
      <4> QED BY <4>1, <4>2
    <3> QED BY <3>1, <3>2
  <2> QED BY <1>0, <2>1, <2>3 DEF Updated
<1>13. CASE EndRounds
  <2>1. pc' \in {"erase", "done"}
    BY <1>13 DEF EndRounds
  <2> QED BY <2>1 DEF Updated
<1>14. CASE EraseRecord
  <2>1. pc' = "erase"
    BY <1>14 DEF EraseRecord
  <2> QED BY <2>1 DEF Updated
<1>15. CASE Return
  BY <1>15 DEF Return, Updated
<1>16. CASE UNCHANGED vars
  BY <1>16 DEF vars, Updated, Matched, Target
<1>17. CASE ColumnNotFound
  BY <1>17 DEF ColumnNotFound, Updated
<1> QED
  BY <1>1, <1>2, <1>3, <1>4, <1>5, <1>6, <1>7, <1>8, <1>9, <1>10, <1>11, <1>12, <1>13, <1>14,
     <1>15, <1>16, <1>17 DEF Next, Step

\* The rows of a table when a statement has made all its changes.
Final(rows, s, matched) ==
  CASE s.kind = "delete" -> [r \in DOMAIN rows \ matched |-> rows[r]]
    [] s.kind = "update" ->
         [r \in DOMAIN rows |-> IF r \in matched THEN AfterAll(rows[r], s.sets) ELSE rows[r]]
    [] OTHER -> rows

Kept(t) == IF pc \in Changing /\ t = Target THEN Final(recs[t], stmt, Matched) ELSE recs[t]

\* What TableStore is given for its variables.
Rows == [t \in Tables |-> Settled(t)]
Doing == IF pc \in {"put", "scan"} \/ (pc = "done" /\ Refused(stmt)) THEN stmt ELSE NoStatement

LEMMA RowsAre == Files => Rows = [t \in Tables |-> Kept(t)]
<1> SUFFICES ASSUME Files, NEW t \in Tables PROVE Settled(t) = Kept(t)
  BY DEF Rows
<1>1. CASE pc \in Changing /\ t = Target
  <2>1. \A r \in DOMAIN recs[t] : Assigned(recs[t][r]) = AfterAll(recs[t][r], stmt.sets)
    BY <1>1, AssignedTwice
  <2>2. stmt.kind \in {"insert", "delete", "update"}
    BY <1>1, ChangeTypes
  <2>3. CASE stmt.kind = "update"
    <3>1. Settled(t) = [r \in DOMAIN recs[t] |->
                          IF r \in Matched THEN Assigned(recs[t][r]) ELSE recs[t][r]]
      BY <1>1, <2>3 DEF Settled, Changing
    <3>2. Kept(t) = [r \in DOMAIN recs[t] |->
                       IF r \in Matched THEN AfterAll(recs[t][r], stmt.sets) ELSE recs[t][r]]
      BY <1>1, <2>3 DEF Kept, Final
    <3> QED BY <2>1, <3>1, <3>2
  <2>4. CASE stmt.kind # "update"
    BY <1>1, <2>2, <2>4 DEF Settled, Kept, Final, Changing
  <2> QED BY <2>3, <2>4
<1>2. CASE ~(pc \in Changing /\ t = Target)
  BY <1>2 DEF Settled, Kept, Changing
<1> QED
  BY <1>1, <1>2


LEMMA StutterStep ==
  ASSUME Rows' = Rows, Doing' = Doing
  PROVE  [Store!Next]_(Store!vars)
BY DEF Store!vars, Rows, Doing

LEMMA RowsKept ==
  ASSUME Files, Files', \A t \in Tables : Kept(t)' = Kept(t)
  PROVE  Rows' = Rows
<1>1. (Files => Rows = [t \in Tables |-> Kept(t)])'
  BY RowsAre, PTL
<1>2. Rows = [t \in Tables |-> Kept(t)]
  BY RowsAre
<1> QED
  BY <1>1, <1>2

\* The set clauses, in TableStore.
LEMMA StoreAssigned ==
  ASSUME NEW s \in Statement, ~Refused(s), NEW t, NEW row \in Row(t)
  PROVE  Store!Assigned(row, s.sets) = AfterAll(row, s.sets)
<1> DEFINE sets == s.sets
           n == Len(s.sets)
<1>1. n \in Nat /\ DOMAIN sets = 1 .. n
  BY SetClauses
<1>2. row = [c \in ToSet(Cols[t]) |-> row[c]]
  BY DEF Row
<1> HIDE DEF sets, n
<1> DEFINE g == [p \in SUBSET DOMAIN sets |-> After(row, sets, p)]
<1>3. IsFold(g, row, sets)
  <2>1. ASSUME NEW p \in SUBSET DOMAIN sets
        PROVE  g[p] = IF p = {} THEN row ELSE Put(g[p \ {Max(p)}], sets[Max(p)])
    BY <1>1, <1>2, AfterStep
  <2> QED BY <2>1 DEF IsFold
<1>4. IsFold(CHOOSE f : IsFold(f, row, sets), row, sets)
  BY <1>3
<1>5. Store!Assigned(row, sets) = (CHOOSE f : IsFold(f, row, sets))[DOMAIN sets]
  BY Zenon DEF Store!Assigned, Store!FoldLeft, Store!MapThenFoldSet, Store!Max, Max, IsFold, Put
<1> QED
  BY <1>1, <1>2, <1>4, <1>5, FoldIsAfter DEF AfterAll, sets

LEMMA StartRefines ==
  ASSUME Files, Files', NEW s \in Statement, Start(s)
  PROVE  [Store!Next]_(Store!vars)
<1>1. /\ pc = "idle" /\ recs' = recs /\ stmt' = s
      /\ pc' = IF Refused(s) THEN "done" ELSE IF s.kind = "insert" THEN "put" ELSE "scan"
  BY DEF Start, files
<1>2. Rows' = Rows
  <2>1. ASSUME NEW t \in Tables PROVE Kept(t)' = Kept(t)
    BY <1>1 DEF Kept, Changing
  <2> QED BY <2>1, RowsKept
<1>3. Doing = NoStatement /\ Doing' = s
  BY <1>1 DEF Doing
<1>4. Store!Begin
  BY <1>2, <1>3 DEF Store!Begin, Rows, Doing
<1> QED
  BY <1>4 DEF Store!Next

\* The record ids of the rows that satisfy the conditions.
LEMMA MatchedIs ==
  ASSUME Files, ScanOK, StrayOK, CondsPopped, PlanEnded
  PROVE  Matched = Store!Matching(stmt)
<1>1. ToSet(out) = Answers
  BY ScanResult DEF ResultExact, Answers
<1> QED
  BY <1>1 DEF Matched, Store!Matching, Answers

LEMMA EndScanRefines ==
  ASSUME Files, Files', ScanOK, StrayOK, CondsPopped, EndScan
  PROVE  [Store!Next]_(Store!vars)
<1> DEFINE T == stmt.from[1]
           new == Final(recs[T], stmt, Matched)
<1>1. /\ pc = "scan" /\ PlanEnded /\ recs' = recs /\ stmt' = stmt /\ UNCHANGED <<plan, stmt>>
      /\ pc' = IF stmt.kind = "select" THEN "done" ELSE "round"
  BY DEF EndScan, files, PlanEnded
<1>2. /\ stmt \in Statement /\ ~Refused(stmt) /\ T \in Tables /\ stmt # NoStatement
      /\ stmt.kind \in {"delete", "update", "select"}
  BY <1>1, ScanTypes, StatementTypes, StatementTables
<1>3. Doing = stmt /\ Doing' = NoStatement
  BY <1>1, <1>2 DEF Doing
<1>4. Rows = [t \in Tables |-> recs[t]]
  BY <1>1, RowsAre DEF Kept, Changing
<1>5. CASE stmt.kind = "select"
  <2>1. ASSUME NEW t \in Tables PROVE Kept(t)' = Kept(t)
    BY <1>1, <1>5 DEF Kept, Changing
  <2>2. Rows' = Rows
    BY <2>1, RowsKept
  <2>3. Store!Return /\ Doing # NoStatement
    BY <1>2, <1>3, <2>2 DEF Store!Return, Rows, Doing
  <2> QED BY <2>3 DEF Store!Next, Doing
<1>6. CASE stmt.kind # "select"
  <2>1. Rows' = [t \in Tables |-> Kept(t)']
    <3>1. (Files => Rows = [t \in Tables |-> Kept(t)])'
      BY RowsAre, PTL
    <3> QED BY <3>1
  <2>2. Matched' = Matched /\ Target' = T
    BY <1>1 DEF plan, Matched, Target
  <2>3. ASSUME NEW t \in Tables PROVE Kept(t)' = IF t = T THEN new ELSE recs[t]
    BY <1>1, <1>6, <2>2 DEF Kept, Changing
  <2>4. Rows' = [Rows EXCEPT ![Doing.from[1]] = new]
    <3> HIDE DEF new
    <3> QED BY <1>2, <1>3, <1>4, <2>1, <2>3
  <2>5. Matched = Store!Matching(Doing)
    BY <1>1, <1>3, MatchedIs
  <2>6. Store!Effect(new)
    BY <1>3, <2>4 DEF Store!Effect, Rows, Doing
  <2>7. Rows[T] = recs[T]
    BY <1>2, <1>4
  <2>8. CASE stmt.kind = "delete"
    <3>1. new = [r \in DOMAIN Rows[T] \ Store!Matching(Doing) |-> Rows[T][r]]
      BY <2>5, <2>7, <2>8 DEF Final
    <3>2. Store!Delete
      <4>1. Store!Delete <=>
              /\ Doing.kind = "delete"
              /\ Store!Effect([r \in DOMAIN Rows[Doing.from[1]] \ Store!Matching(Doing) |->
                                 Rows[Doing.from[1]][r]])
        BY Zenon DEF Store!Delete, Rows, Doing
      <4>2. [r \in DOMAIN Rows[Doing.from[1]] \ Store!Matching(Doing) |-> Rows[Doing.from[1]][r]] = new
        BY <1>3, <3>1
      <4> HIDE DEF new
      <4> QED BY <1>3, <2>6, <2>8, <4>1, <4>2
    <3> QED BY <1>2, <1>3, <3>2 DEF Store!Next, Doing
  <2>9. CASE stmt.kind = "update"
    <3>1. \A r \in DOMAIN recs[T] : recs[T][r] \in Row(T)
      BY <1>2 DEF Files, RecsOK
    <3>2. \A r \in DOMAIN recs[T] : Store!Assigned(recs[T][r], stmt.sets) = AfterAll(recs[T][r], stmt.sets)
      BY <1>2, <3>1, StoreAssigned
    <3>3. new = [r \in DOMAIN Rows[T] |->
                   IF r \in Store!Matching(Doing) THEN Store!Assigned(Rows[T][r], Doing.sets) ELSE Rows[T][r]]
      BY <1>3, <2>5, <2>7, <2>9, <3>2 DEF Final
    <3>4. Store!Update
      <4> HIDE DEF new
      <4> QED BY <1>3, <2>6, <2>9, <3>3 DEF Store!Update, Rows, Doing
    <3> QED BY <1>2, <1>3, <3>4 DEF Store!Next, Doing
  <2> QED BY <1>2, <1>6, <2>8, <2>9
<1> QED
  BY <1>5, <1>6

LEMMA PutRecordRefines ==
  ASSUME Files, Files', PutRecord
  PROVE  [Store!Next]_(Store!vars)
<1>1. pc = "put" /\ pc' = "index" /\ stmt' = stmt /\ UNCHANGED plan
  BY DEF PutRecord
<1>2. PICK r \in Room[Target] \ DOMAIN recs[Target] :
        recs' = [recs EXCEPT ![Target] =
                   [q \in DOMAIN @ \cup {r} |->
                      IF q = r THEN RecordOf(Target, stmt.row) ELSE @[q]]]
  BY DEF PutRecord
<1> DEFINE T == stmt.from[1]
           row == RecordOf(T, stmt.row)
           new == [q \in DOMAIN recs[T] \cup {r} |-> IF q = r THEN row ELSE recs[T][q]]
<1>3. /\ stmt \in Statement /\ ~Refused(stmt) /\ stmt # NoStatement /\ stmt.kind = "insert"
      /\ T \in Tables /\ recs = [t \in Tables |-> recs[t]]
      /\ Len(stmt.row) = Len(Cols[T]) /\ ToSet(stmt.row) \subseteq Value
  BY <1>1, ChangeTypes, StatementTypes, InsertedRow DEF Files, PhaseOK, Target
<1>4. Doing = stmt /\ Doing' = NoStatement
  BY <1>1 DEF Doing
<1>5. Rows = [t \in Tables |-> recs[t]]
  BY <1>1, RowsAre DEF Kept, Changing
<1>6. Rows' = [t \in Tables |-> recs'[t]]
  <2>1. (Files => Rows = [t \in Tables |-> Kept(t)])'
    BY RowsAre, PTL
  <2>2. \A t \in Tables : Kept(t)' = recs'[t]
    BY <1>1, <1>3 DEF Kept, Final
  <2> QED BY <2>1, <2>2
<1>7. recs' = [recs EXCEPT ![T] = new]
  BY <1>2 DEF Target
<1>8. Rows' = [Rows EXCEPT ![Doing.from[1]] = new]
  <2> HIDE DEF new
  <2> QED BY <1>3, <1>4, <1>5, <1>6, <1>7
<1>9. Store!Effect(new)
  BY <1>4, <1>8 DEF Store!Effect, Rows, Doing
<1>10. Rows[T] = recs[T] /\ r \in Room[T] \ DOMAIN recs[T]
  BY <1>2, <1>3, <1>5 DEF Target
<1>11. Store!ToSet(stmt.row) \subseteq Value /\ Store!RecordOf(T, stmt.row) = row
  BY <1>3 DEF Store!RecordOf, RecordOf, Store!ToSet, ToSet
<1>12. new = [q \in DOMAIN Rows[T] \cup {r} |->
                IF q = r THEN Store!RecordOf(T, Doing.row) ELSE Rows[T][q]]
  BY <1>4, <1>10, <1>11
<1>13. Store!Insert
  <2> HIDE DEF new, row
  <2> QED BY <1>3, <1>4, <1>9, <1>10, <1>11, <1>12 DEF Store!Insert, Rows, Doing
<1> QED
  BY <1>3, <1>4, <1>13 DEF Store!Next, Doing


\* The other steps are ones that TableStore does not see.
LEMMA QuietRefines ==
  ASSUME Files, Files', UNCHANGED <<recs, stmt>>, pc \in Changing <=> pc' \in Changing,
         pc \in Changing => UNCHANGED plan, Doing' = Doing
  PROVE  [Store!Next]_(Store!vars)
<1>1. ASSUME NEW t \in Tables PROVE Kept(t)' = Kept(t)
  <2>1. recs' = recs /\ stmt' = stmt /\ Target' = Target
    BY DEF Target
  <2>2. pc \in Changing => Matched' = Matched
    BY DEF plan, Matched
  <2> QED BY <2>1, <2>2 DEF Kept
<1>2. Rows' = Rows
  BY <1>1, RowsKept
<1> QED
  BY <1>2, StutterStep

LEMMA ScanRefines ==
  ASSUME Files, Files', BeginTable \/ TakeRow \/ BackUp
  PROVE  [Store!Next]_(Store!vars)
<1>1. pc = "scan" /\ pc' = "scan" /\ UNCHANGED <<recs, stmt>> /\ stmt' = stmt
  BY DEF BeginTable, TakeRow, BackUp, files
<1>2. Doing' = Doing
  BY <1>1 DEF Doing
<1> QED
  BY <1>1, <1>2, QuietRefines DEF Changing

\* For TableStore, a statement that QlNodeTable throws for returns and changes nothing.
LEMMA ThrowRefines ==
  ASSUME Files, Files', ColumnNotFound
  PROVE  [Store!Next]_(Store!vars)
<1>1. pc = "scan" /\ pc' = "done" /\ recs' = recs /\ stmt' = stmt
  BY DEF ColumnNotFound, files
<1>2. stmt # NoStatement /\ ~Refused(stmt)
  BY <1>1, ScanTypes, StatementTypes
<1>3. Doing = stmt /\ Doing' = NoStatement
  BY <1>1, <1>2 DEF Doing
<1>4. ASSUME NEW t \in Tables PROVE Kept(t)' = Kept(t)
  BY <1>1 DEF Kept, Changing
<1>5. Rows' = Rows
  BY <1>4, RowsKept
<1>6. Store!Return
  BY <1>3, <1>5 DEF Store!Return, Rows, Doing
<1> QED
  BY <1>2, <1>3, <1>6 DEF Store!Next, Doing

LEMMA EntriesRefine ==
  ASSUME Files, Files', PutEntry \/ DropEntry \/ NextRecord \/ Unindexed
  PROVE  [Store!Next]_(Store!vars)
<1>1. /\ pc \in Changing /\ pc' \in Changing /\ UNCHANGED <<recs, stmt>> /\ UNCHANGED plan
  BY DEF PutEntry, DropEntry, NextRecord, Unindexed, files, Changing
<1>2. Doing' = Doing
  BY <1>1 DEF Doing, Changing
<1> QED
  BY <1>1, <1>2, QuietRefines

LEMMA IndexedAllRefines ==
  ASSUME Files, Files', IndexedAll
  PROVE  [Store!Next]_(Store!vars)
<1>1. /\ pc = "index" /\ UNCHANGED <<recs, stmt>> /\ UNCHANGED plan /\ recs' = recs /\ stmt' = stmt
      /\ pc' = IF stmt.kind = "insert" THEN "done" ELSE "round"
  BY DEF IndexedAll, files
<1>2. ~Refused(stmt)
  BY <1>1 DEF Files, PhaseOK
<1>3. Doing' = Doing
  BY <1>1, <1>2 DEF Doing
<1>4. CASE stmt.kind = "insert"
  <2>1. ASSUME NEW t \in Tables PROVE Kept(t)' = Kept(t)
    BY <1>1, <1>4 DEF Kept, Final, Changing
  <2> QED BY <1>3, <2>1, RowsKept, StutterStep
<1>5. CASE stmt.kind # "insert"
  <2>1. pc \in Changing /\ pc' \in Changing
    BY <1>1, <1>5 DEF Changing
  <2> QED BY <1>1, <1>3, <2>1, QuietRefines
<1> QED
  BY <1>4, <1>5

LEMMA WriteRecordRefines ==
  ASSUME Files, Files', WriteRecord
  PROVE  [Store!Next]_(Store!vars)
<1>1. /\ pc = "unindex" /\ pc' = "index" /\ UNCHANGED <<plan, stmt>> /\ stmt' = stmt
      /\ stmt.kind = "update"
  BY DEF WriteRecord
<1>2. Matched' = Matched /\ Target' = Target
  BY <1>1 DEF plan, Matched, Target
<1>3. ASSUME NEW t \in Tables PROVE Kept(t)' = Kept(t)
  <2>1. CASE t # Target
    BY <1>1, <1>2, <2>1, Written DEF Kept
  <2>2. CASE t = Target
    <3>1. Kept(t) = [r \in DOMAIN recs[t] |->
                       IF r \in Matched THEN AfterAll(recs[t][r], stmt.sets) ELSE recs[t][r]]
      BY <1>1, <2>2 DEF Kept, Final, Changing
    <3>2. Kept(t)' = [r \in DOMAIN recs'[t] |->
                        IF r \in Matched THEN AfterAll(recs'[t][r], stmt.sets) ELSE recs'[t][r]]
      BY <1>1, <1>2, <2>2 DEF Kept, Final, Changing
    <3>3. DOMAIN recs'[t] = DOMAIN recs[t]
      BY <2>2, Written
    <3>4. ASSUME NEW r \in DOMAIN recs[t], r \in Matched
          PROVE  AfterAll(recs'[t][r], stmt.sets) = AfterAll(recs[t][r], stmt.sets)
      <4>1. CASE r = rid
        BY <2>2, <4>1, Written
      <4>2. CASE r # rid
        <5>1. recs'[t][r] = recs[t][r]
          BY <2>2, <4>2, Written
        <5> QED BY <5>1
      <4> QED BY <4>1, <4>2
    <3>5. ASSUME NEW r \in DOMAIN recs[t], r \notin Matched PROVE recs'[t][r] = recs[t][r]
      BY <2>2, <3>5, Written
    <3> QED BY <3>1, <3>2, <3>3, <3>4, <3>5
  <2> QED BY <2>1, <2>2
<1>4. Doing' = Doing
  BY <1>1 DEF Doing
<1> QED
  BY <1>3, <1>4, RowsKept, StutterStep

LEMMA EndRoundsRefines ==
  ASSUME Files, Files', Updated, EndRounds
  PROVE  [Store!Next]_(Store!vars)
<1>1. /\ pc = "round" /\ todo = {} /\ UNCHANGED <<recs, stmt>> /\ UNCHANGED plan
      /\ recs' = recs /\ stmt' = stmt
      /\ pc' = IF stmt.kind = "delete" THEN "erase" ELSE "done"
  BY DEF EndRounds, files
<1>2. ~Refused(stmt) /\ stmt.kind \in {"delete", "update"} /\ Target \in Tables
  BY <1>1, ChangeTypes DEF Files, PhaseOK, Changing
<1>3. Doing' = Doing
  BY <1>1, <1>2 DEF Doing
<1>4. CASE stmt.kind = "delete"
  <2>1. pc \in Changing /\ pc' \in Changing
    BY <1>1, <1>4 DEF Changing
  <2> QED BY <1>1, <1>3, <2>1, QuietRefines
<1>5. CASE stmt.kind = "update"
  <2>1. ASSUME NEW t \in Tables PROVE Kept(t) = recs[t]
    <3>1. CASE t # Target
      BY <3>1 DEF Kept
    <3>2. CASE t = Target
      <4>1. \A r \in Matched : AfterAll(recs[t][r], stmt.sets) = recs[t][r]
        BY <1>1, <1>5, <3>2 DEF Updated
      <4>2. Kept(t) = [r \in DOMAIN recs[t] |->
                         IF r \in Matched THEN AfterAll(recs[t][r], stmt.sets) ELSE recs[t][r]]
        BY <1>1, <1>5, <3>2 DEF Kept, Final, Changing
      <4>3. recs[t] = [r \in DOMAIN recs[t] |-> recs[t][r]]
        BY DEF Files, RecsOK
      <4> QED BY <4>1, <4>2, <4>3
    <3> QED BY <3>1, <3>2
  <2>2. ASSUME NEW t \in Tables PROVE Kept(t)' = recs[t]
    BY <1>1, <1>5 DEF Kept, Changing
  <2> QED BY <1>3, <2>1, <2>2, RowsKept, StutterStep
<1> QED
  BY <1>2, <1>4, <1>5

LEMMA EraseRecordRefines ==
  ASSUME Files, Files', EraseRecord
  PROVE  [Store!Next]_(Store!vars)
<1>1. pc = "erase" /\ pc' = "erase" /\ UNCHANGED <<plan, stmt>> /\ stmt' = stmt
  BY DEF EraseRecord
<1>2. PICK r \in todo : recs' = [recs EXCEPT ![Target] = [q \in DOMAIN @ \ {r} |-> @[q]]]
  BY DEF EraseRecord
<1>3. stmt.kind = "delete" /\ todo \subseteq Matched
  BY <1>1 DEF Files, PhaseOK, WorkOK, Changing
<1>4. Target \in Tables /\ recs = [t \in Tables |-> recs[t]]
  BY <1>1, ChangeTypes DEF Changing
<1>5. /\ recs'[Target] = [q \in DOMAIN recs[Target] \ {r} |-> recs[Target][q]]
      /\ \A t \in Tables : t # Target => recs'[t] = recs[t]
  BY <1>2, <1>4
<1>6. Matched' = Matched /\ Target' = Target
  BY <1>1 DEF plan, Matched, Target
<1>7. ASSUME NEW t \in Tables PROVE Kept(t)' = Kept(t)
  <2>1. CASE t # Target
    BY <1>1, <1>5, <1>6, <2>1 DEF Kept
  <2>2. CASE t = Target
    <3>1. Kept(t) = [q \in DOMAIN recs[t] \ Matched |-> recs[t][q]]
      BY <1>1, <1>3, <2>2 DEF Kept, Final, Changing
    <3>2. Kept(t)' = [q \in DOMAIN recs'[t] \ Matched |-> recs'[t][q]]
      BY <1>1, <1>3, <1>6, <2>2 DEF Kept, Final, Changing
    <3>3. DOMAIN recs'[t] \ Matched = DOMAIN recs[t] \ Matched
      BY <1>3, <1>5, <2>2
    <3>4. \A q \in DOMAIN recs[t] \ Matched : recs'[t][q] = recs[t][q]
      BY <1>3, <1>5, <2>2
    <3> QED BY <3>1, <3>2, <3>3, <3>4
  <2> QED BY <2>1, <2>2
<1>8. Doing' = Doing
  BY <1>1 DEF Doing
<1> QED
  BY <1>7, <1>8, RowsKept, StutterStep

LEMMA ReturnRefines ==
  ASSUME Files, Files', Return
  PROVE  [Store!Next]_(Store!vars)
<1>1. /\ pc = "done" \/ (pc = "erase" /\ todo = {})
      /\ pc' = "idle" /\ stmt' = NoStatement /\ recs' = recs
  BY DEF Return, files
<1>2. Doing' = NoStatement
  BY <1>1 DEF Doing
<1>3. ASSUME NEW t \in Tables PROVE Kept(t) = recs[t]
  <2>1. CASE pc = "done" \/ t # Target
    BY <2>1 DEF Kept, Changing
  <2>2. CASE pc = "erase" /\ t = Target
    <3>1. Matched \cap DOMAIN recs[t] = {} /\ stmt.kind = "delete"
      BY <1>1, <2>2 DEF Files, WorkOK, PhaseOK
    <3>2. Kept(t) = [q \in DOMAIN recs[t] \ Matched |-> recs[t][q]]
      BY <2>2, <3>1 DEF Kept, Final, Changing
    <3>3. recs[t] = [q \in DOMAIN recs[t] |-> recs[t][q]] /\ DOMAIN recs[t] \ Matched = DOMAIN recs[t]
      BY <3>1 DEF Files, RecsOK
    <3> QED BY <3>2, <3>3
  <2> QED BY <1>1, <2>1, <2>2
<1>4. ASSUME NEW t \in Tables PROVE Kept(t)' = recs[t]
  BY <1>1 DEF Kept, Changing
<1>5. Rows' = Rows
  BY <1>3, <1>4, RowsKept
<1>6. CASE Doing = NoStatement
  BY <1>2, <1>5, <1>6, StutterStep
<1>7. CASE Doing # NoStatement
  <2>1. Store!Return
    BY <1>2, <1>5 DEF Store!Return, Rows, Doing
  <2> QED BY <1>7, <2>1 DEF Store!Next, Doing
<1> QED
  BY <1>6, <1>7

LEMMA NextRefines ==
  Files /\ ScanOK /\ StrayOK /\ Updated /\ CondsPopped /\ Files' /\ [Next]_vars
    => [Store!Next]_(Store!vars)
<1> SUFFICES ASSUME Files, ScanOK, StrayOK, Updated, CondsPopped, Files', [Next]_vars
             PROVE  [Store!Next]_(Store!vars)
  OBVIOUS
<1>1. CASE \E s \in Statement : Start(s)
  BY <1>1, StartRefines
<1>2. CASE BeginTable \/ TakeRow \/ BackUp
  BY <1>2, ScanRefines
<1>3. CASE EndScan
  BY <1>3, EndScanRefines
<1>4. CASE PutRecord
  BY <1>4, PutRecordRefines
<1>5. CASE PutEntry \/ DropEntry \/ NextRecord \/ Unindexed
  BY <1>5, EntriesRefine
<1>6. CASE IndexedAll
  BY <1>6, IndexedAllRefines
<1>7. CASE WriteRecord
  BY <1>7, WriteRecordRefines
<1>8. CASE EndRounds
  BY <1>8, EndRoundsRefines
<1>9. CASE EraseRecord
  BY <1>9, EraseRecordRefines
<1>10. CASE Return
  BY <1>10, ReturnRefines
<1>11. CASE UNCHANGED vars
  <2>1. recs' = recs /\ stmt' = stmt /\ pc' = pc /\ UNCHANGED plan /\ UNCHANGED <<recs, stmt>>
    BY <1>11 DEF vars, plan
  <2>2. Doing' = Doing
    BY <2>1 DEF Doing
  <2> QED BY <2>1, <2>2, QuietRefines
<1>12. CASE ColumnNotFound
  BY <1>12, ThrowRefines
<1> QED
  BY <1>1, <1>2, <1>3, <1>4, <1>5, <1>6, <1>7, <1>8, <1>9, <1>10, <1>11, <1>12 DEF Next, Step

-----------------------------------------------------------------------------
(* The assertion of select_from.                                           *)

\* No query has a condition on a table that is not in its FROM.
OwnConditions ==
  \A s \in Statement : s.kind = "select" =>
    \A j \in DOMAIN s.conds :
      /\ Own(s.from, s.conds[j].lhs)
      /\ ~s.conds[j].is_rhs_val => Own(s.from, s.conds[j].rhs)

LEMMA FilesPop == OwnConditions /\ Files => CondsPopped
<1> SUFFICES ASSUME OwnConditions, Files, pc = "scan", stmt.kind = "select" PROVE Strays = {}
  BY DEF CondsPopped
<1>1. stmt \in Statement /\ ~Refused(stmt)
  BY DEF Files, PhaseOK
<1> QED
  BY <1>1, OwnNear, StraysAre DEF OwnConditions

\* The assertion of select_from, ql_manager.cpp:256, that pop_conds has given every
\* condition to a table of the plan, can fail only by a condition on a table that the
\* statement does not have in its FROM.
THEOREM ConditionsGiven == OwnConditions => (Spec => []CondsPopped)
<1>1. Spec => []Files
  BY FilesHold
<1>2. CASE OwnConditions
  <2>1. Files => CondsPopped
    BY <1>2, FilesPop
  <2> QED BY <1>1, <2>1, PTL
<1> QED
  BY <1>2

\* As long as the assertion of select_from has not failed, every statement is refused
\* and changes nothing, or takes effect as a whole on exactly the rows its conditions
\* ask for: delete_from and update_set neither miss a row nor meet one again that they
\* have changed, whichever index they look for the rows in.
THEOREM ImplementsStore == Spec /\ []CondsPopped => Implements
<1>1. Init => Store!Init
  <2>1. Init => Rows = [t \in Tables |-> << >>] /\ Doing = NoStatement
    BY DEF Init, Rows, Doing, Settled
  <2> QED BY <2>1 DEF Store!Init, Rows, Doing, Store!Tables, Tables
<1>2. Init => ScanOK /\ StrayOK /\ Updated
  BY ScanInit, StrayInit, UpdatedInit
<1>3. Spec => []Files
  BY FilesHold
<1> QED
  BY <1>1, <1>2, <1>3, ScanNext, StrayNext, UpdatedNext, NextRefines, PTL DEF Spec, Implements, Store!Spec
=============================================================================
