----------------------------- MODULE LegacyProofs -----------------------------
(***************************************************************************)
(* Theorems about LegacyMigration, for any snapshots, instruments, users   *)
(* and runs of the scripts.  An import is three loops over the rows of its *)
(* source; what a loop keeps is proved by the least number of rows after   *)
(* which it would be lost.                                                 *)
(***************************************************************************)
EXTENDS LegacyMigration, FiniteSetTheorems, NaturalsInduction, WellFoundedInduction, TLAPS

-----------------------------------------------------------------------------
(* Loops                                                                   *)

LEMMA Least ==
    ASSUME NEW S, S \subseteq Nat, S # {}
    PROVE  \E m \in S : \A k \in S : m <= k
<1>1. PICK m \in S : \A k \in S : <<k, m>> \notin OpToRel(<, Nat)
  BY WFMin, NatLessThanWellFounded
<1>2. \A k \in S : ~(k < m)
  BY <1>1 DEF OpToRel
<1> QED
  BY <1>2

\* A recursion over the subsets of S, each less the element that ch chooses of it.
Chooses(ch, S) == \A s \in (SUBSET S) \ {{}} : ch[s] \in s
Folding(S, base, step, ch, g) ==
    \A s \in SUBSET S : g[s] = IF s = {} THEN base ELSE step[<<ch[s], g[s \ {ch[s]}]>>]

\* Over a finite set it has a solution.
LEMMA RecursionExists ==
    ASSUME NEW S, IsFiniteSet(S), NEW A, NEW base \in A, NEW step \in [S \X A -> A],
           NEW ch, Chooses(ch, S)
    PROVE  \E g \in [SUBSET S -> A] : Folding(S, base, step, ch, g)
<1> DEFINE Again(g) == [s \in SUBSET S |-> IF s = {} THEN base ELSE step[<<ch[s], g[s \ {ch[s]}]>>]]
           Unfolds(g, n) == \A s \in SUBSET S : Cardinality(s) <= n => g[s] = Again(g)[s]
           Bad == {n \in Nat : ~ \E g \in [SUBSET S -> A] : Unfolds(g, n)}
<1>1. \A g \in [SUBSET S -> A] : Again(g) \in [SUBSET S -> A]
  BY DEF Chooses
<1>2. \A s \in SUBSET S : IsFiniteSet(s) /\ Cardinality(s) \in Nat
  BY FS_Subset, FS_CardinalityType
<1>3. ASSUME NEW g \in [SUBSET S -> A], NEW n \in Nat, Unfolds(g, n)
      PROVE  Unfolds(Again(g), n + 1)
  <2> SUFFICES ASSUME NEW s \in SUBSET S, Cardinality(s) <= n + 1
               PROVE  Again(g)[s] = Again(Again(g))[s]
    OBVIOUS
  <2>1. CASE s = {}
    BY <2>1
  <2>2. CASE s # {}
    <3> DEFINE u == s \ {ch[s]}
    <3>1. ch[s] \in s /\ u \in SUBSET S
      BY <2>2 DEF Chooses
    <3>2. Cardinality(u) = Cardinality(s) - 1
      BY <1>2, <3>1, FS_RemoveElement
    <3>3. Cardinality(u) <= n
      BY <1>2, <3>2
    <3>4. g[u] = Again(g)[u]
      BY <1>3, <3>1, <3>3
    <3> HIDE DEF u
    <3>5. Again(g)[s] = step[<<ch[s], g[u]>>]
      BY <2>2 DEF u
    <3>6. Again(Again(g))[s] = step[<<ch[s], Again(g)[u]>>]
      BY <2>2 DEF u
    <3> HIDE DEF Again
    <3> QED
      BY <3>4, <3>5, <3>6
  <2> QED
    BY <2>1, <2>2
<1>4. 0 \notin Bad
  <2> DEFINE g == [s \in SUBSET S |-> base]
  <2>1. \A s \in SUBSET S : Cardinality(s) <= 0 => s = {}
    <3> SUFFICES ASSUME NEW s \in SUBSET S, Cardinality(s) <= 0 PROVE s = {}
      OBVIOUS
    <3>1. Cardinality(s) = 0
      BY <1>2
    <3> QED
      BY <1>2, <3>1, FS_EmptySet
  <2>2. g \in [SUBSET S -> A] /\ Unfolds(g, 0)
    BY <2>1
  <2> QED
    BY <2>2
<1>5. Bad = {}
  <2> SUFFICES ASSUME Bad # {} PROVE FALSE
    OBVIOUS
  <2>1. Bad \subseteq Nat
    OBVIOUS
  <2> HIDE DEF Bad
  <2>2. PICK m \in Bad : \A k \in Bad : m <= k
    BY <2>1, Least
  <2>3. m \in Nat /\ m # 0 /\ m - 1 \in Nat /\ ~(m <= m - 1) /\ (m - 1) + 1 = m
    BY <1>4, <2>1, <2>2
  <2>4. m - 1 \notin Bad
    BY <2>2, <2>3
  <2>5. PICK g \in [SUBSET S -> A] : Unfolds(g, m - 1)
    BY <2>3, <2>4 DEF Bad
  <2>6. Again(g) \in [SUBSET S -> A]
    BY <1>1
  <2> HIDE DEF Again, Unfolds
  <2>7. Unfolds(Again(g), (m - 1) + 1)
    BY <1>3, <2>3, <2>5
  <2>8. Unfolds(Again(g), m)
    BY <2>3, <2>7
  <2>9. m \notin Bad
    BY <2>6, <2>8 DEF Bad
  <2> QED
    BY <2>2, <2>9
<1>6. Cardinality(S) \in Nat
  BY FS_CardinalityType
<1>7. PICK g \in [SUBSET S -> A] : Unfolds(g, Cardinality(S))
  BY <1>5, <1>6
<1>8. \A s \in SUBSET S : Cardinality(s) <= Cardinality(S)
  BY FS_Subset
<1>9. \A s \in SUBSET S : g[s] = Again(g)[s]
  BY <1>7, <1>8
<1> QED
  BY <1>9 DEF Folding

\* What the beginning has and each turn hands on, all turns together have.
LEMMA FoldingStays ==
    ASSUME NEW S, IsFiniteSet(S), NEW base, NEW step, NEW ch, Chooses(ch, S),
           NEW I, base \in I[{}],
           \A s \in (SUBSET S) \ {{}} : \A a \in I[s \ {ch[s]}] : step[<<ch[s], a>>] \in I[s],
           NEW g, Folding(S, base, step, ch, g)
    PROVE  g[S] \in I[S]
<1> DEFINE Odd == {s \in SUBSET S : g[s] \notin I[s]}
           Sizes == {Cardinality(s) : s \in Odd}
<1>1. SUFFICES ASSUME Odd # {} PROVE FALSE
  OBVIOUS
<1>2. \A s \in SUBSET S : IsFiniteSet(s) /\ Cardinality(s) \in Nat
  BY FS_Subset, FS_CardinalityType
<1>3. Sizes \subseteq Nat /\ Sizes # {}
  BY <1>1, <1>2
<1> HIDE DEF Sizes
<1>4. PICK m \in Sizes : \A k \in Sizes : m <= k
  BY <1>3, Least
<1>5. PICK s \in Odd : m = Cardinality(s)
  BY <1>4 DEF Sizes
<1>6. s \in SUBSET S /\ g[s] \notin I[s]
  BY <1>5
<1>7. s # {}
  BY <1>6 DEF Folding
<1> DEFINE u == s \ {ch[s]}
<1>8. ch[s] \in s /\ u \in SUBSET S
  BY <1>6, <1>7 DEF Chooses
<1>9. Cardinality(u) = Cardinality(s) - 1
  BY <1>2, <1>6, <1>8, FS_RemoveElement
<1>10. Cardinality(u) \in Nat /\ ~(m <= Cardinality(u))
  BY <1>2, <1>5, <1>8, <1>9
<1>11. u \notin Odd
  BY <1>4, <1>10 DEF Sizes
<1>12. g[u] \in I[u]
  BY <1>8, <1>11
<1>13. g[s] = step[<<ch[s], g[u]>>]
  BY <1>6, <1>7 DEF Folding
<1> QED
  BY <1>6, <1>7, <1>12, <1>13

\* A loop over a sequence takes the last row of those before it.
LEMMA LastRow ==
    ASSUME NEW n \in Nat
    PROVE  /\ IsFiniteSet(1 .. n)
           /\ \A s \in (SUBSET (1 .. n)) \ {{}} : Max(s) \in s /\ \A k \in s : k <= Max(s)
<1>1. IsFiniteSet(1 .. n)
  BY FS_Interval
<1>2. ASSUME NEW s \in (SUBSET (1 .. n)) \ {{}}
      PROVE  \E x \in s : \A y \in s : x >= y
  <2> DEFINE U == {n - k : k \in s}
  <2>1. U \subseteq Nat /\ U # {}
    OBVIOUS
  <2>2. PICK m \in U : \A h \in U : m <= h
    <3> HIDE DEF U
    <3> QED
      BY <2>1, Least
  <2>3. PICK x \in s : m = n - x
    OBVIOUS
  <2>4. \A y \in s : n - x <= n - y
    BY <2>2, <2>3
  <2> QED
    BY <2>4
<1>3. ASSUME NEW s \in (SUBSET (1 .. n)) \ {{}}
      PROVE  Max(s) \in s /\ \A y \in s : Max(s) >= y
  BY <1>2 DEF Max
<1> QED
  BY <1>1, <1>3

\* What the three loops start from.
StocksAtFirst ==
    [items |-> watch, pairs |-> [k \in Present(watch) |-> watch[k]], clash |-> FALSE]
LotsAtFirst ==
    [items |-> positions,
     pairs |-> [k \in {p \in Present(positions) : positions[p].owner = Admin} |->
                  positions[k].inst],
     used |-> {}, clash |-> FALSE]
TasksAtFirst == [items |-> tasks, claimed |-> {}]

\* What holds of the watchlist before the stocks and after each holds after all.
LEMMA WatchedStays ==
    ASSUME NEW s \in Snapshots, NEW table,
           NEW A, StocksAtFirst \in A,
           \A a \in A : \A k \in DOMAIN Source[s].stocks : WatchRow(a, Source[s].stocks[k], table) \in A
    PROVE  Watched(s, table) \in A
<1> DEFINE rows == Source[s].stocks
           D == DOMAIN rows
           base == StocksAtFirst
           Op(a, r) == WatchRow(a, r, table)
           P(g) == g = [t \in SUBSET D |-> IF t = {} THEN base
                                           ELSE Op(g[t \ {Max(t)}], rows[Max(t)])]
           G == CHOOSE g : P(g)
           top == [t \in SUBSET D |-> Max(t)]
           turn == [p \in D \X A |-> Op(p[2], rows[p[1]])]
           B == A \cup {G[t] : t \in SUBSET D}
           step == [p \in D \X B |-> Op(p[2], rows[p[1]])]
           I == [t \in SUBSET D |-> A]
<1>1. IsFiniteSet(D) /\ Chooses(top, D)
  <2>1. D = 1 .. Len(rows) /\ Len(rows) \in Nat
    BY SourceAssumption
  <2> QED
    BY <2>1, LastRow DEF Chooses
<1>2. turn \in [D \X A -> A]
  OBVIOUS
<1>3. PICK g \in [SUBSET D -> A] : Folding(D, base, turn, top, g)
  <2>1. base \in A
    OBVIOUS
  <2> HIDE DEF turn, top, base, D, Op
  <2> QED
    BY <1>1, <1>2, <2>1, RecursionExists
<1>4. P(g)
  <2>1. ASSUME NEW t \in SUBSET D, t # {}
        PROVE  turn[<<top[t], g[t \ {top[t]}]>>] = Op(g[t \ {Max(t)}], rows[Max(t)])
    <3>1. top[t] = Max(t) /\ Max(t) \in D
      BY <1>1, <2>1 DEF Chooses
    <3>2. g[t \ {Max(t)}] \in A
      BY <1>3
    <3> HIDE DEF top, Op, D
    <3> QED
      BY <3>1, <3>2
  <2>2. \A t \in SUBSET D : g[t] = IF t = {} THEN base ELSE Op(g[t \ {Max(t)}], rows[Max(t)])
    <3> HIDE DEF turn, top, base, Op, D
    <3> QED
      BY <1>3, <2>1 DEF Folding
  <2> HIDE DEF turn, top, base, Op, D
  <2> QED
    BY <1>3, <2>2
<1>5. P(G)
  <2> HIDE DEF P
  <2> QED
    BY <1>4
<1>6. Watched(s, table) = G[D]
  BY DEF Watched, StocksAtFirst, FoldLeft, MapThenFoldSet
<1>7. Folding(D, base, step, top, G)
  <2>1. \A t \in SUBSET D : G[t] = IF t = {} THEN base ELSE Op(G[t \ {Max(t)}], rows[Max(t)])
    <3> HIDE DEF G, base, Op, D
    <3> QED
      BY <1>5
  <2>2. \A t \in SUBSET D : G[t] \in B
    <3> HIDE DEF G, D
    <3> QED
      OBVIOUS
  <2>3. ASSUME NEW t \in SUBSET D, t # {}
        PROVE  step[<<top[t], G[t \ {top[t]}]>>] = Op(G[t \ {Max(t)}], rows[Max(t)])
    <3>1. top[t] = Max(t) /\ Max(t) \in D
      BY <1>1, <2>3 DEF Chooses
    <3>2. G[t \ {Max(t)}] \in B
      BY <2>2, <3>1
    <3> HIDE DEF top, Op, D, G, B
    <3> QED
      BY <3>1, <3>2
  <2> HIDE DEF step, top, base, Op, D, G
  <2> QED
    BY <2>1, <2>3 DEF Folding
<1>8. ASSUME NEW t \in (SUBSET D) \ {{}}, NEW a \in I[t \ {top[t]}]
      PROVE  step[<<top[t], a>>] \in I[t]
  <2>1. top[t] = Max(t) /\ Max(t) \in D
    BY <1>1, <1>8 DEF Chooses
  <2>2. a \in A /\ Op(a, rows[Max(t)]) \in I[t]
    BY <1>8, <2>1
  <2>3. a \in B
    BY <2>2
  <2> HIDE DEF top, Op, D, B, I
  <2> QED
    BY <2>1, <2>2, <2>3
<1>9. base \in I[{}]
  OBVIOUS
<1>10. G[D] \in I[D]
  <2> HIDE DEF step, top, base, D, G, I
  <2> QED
    BY <1>1, <1>7, <1>8, <1>9, FoldingStays
<1> QED
  BY <1>6, <1>10

\* The same of the positions; here what holds may depend on the rows done.
LEMMA HeldStays ==
    ASSUME NEW s \in Snapshots, NEW table,
           NEW A, LotsAtFirst \in A,
           \A a \in A : \A k \in DOMAIN Source[s].positions :
             PositionStep(a, Source[s].positions[k], table) \in A,
           NEW I \in [SUBSET DOMAIN Source[s].positions -> SUBSET A],
           LotsAtFirst \in I[{}],
           \A t \in (SUBSET DOMAIN Source[s].positions) \ {{}} : \A a \in I[t \ {Max(t)}] :
             PositionStep(a, Source[s].positions[Max(t)], table) \in I[t]
    PROVE  Held(s, table) \in I[DOMAIN Source[s].positions]
<1> DEFINE rows == Source[s].positions
           D == DOMAIN rows
           base == LotsAtFirst
           Op(a, r) == PositionStep(a, r, table)
           P(g) == g = [t \in SUBSET D |-> IF t = {} THEN base
                                           ELSE Op(g[t \ {Max(t)}], rows[Max(t)])]
           G == CHOOSE g : P(g)
           top == [t \in SUBSET D |-> Max(t)]
           turn == [p \in D \X A |-> Op(p[2], rows[p[1]])]
           B == A \cup {G[t] : t \in SUBSET D}
           step == [p \in D \X B |-> Op(p[2], rows[p[1]])]
<1>1. IsFiniteSet(D) /\ Chooses(top, D)
  <2>1. D = 1 .. Len(rows) /\ Len(rows) \in Nat
    BY SourceAssumption
  <2> QED
    BY <2>1, LastRow DEF Chooses
<1>2. turn \in [D \X A -> A]
  OBVIOUS
<1>3. PICK g \in [SUBSET D -> A] : Folding(D, base, turn, top, g)
  <2>1. base \in A
    OBVIOUS
  <2> HIDE DEF turn, top, base, D, Op
  <2> QED
    BY <1>1, <1>2, <2>1, RecursionExists
<1>4. P(g)
  <2>1. ASSUME NEW t \in SUBSET D, t # {}
        PROVE  turn[<<top[t], g[t \ {top[t]}]>>] = Op(g[t \ {Max(t)}], rows[Max(t)])
    <3>1. top[t] = Max(t) /\ Max(t) \in D
      BY <1>1, <2>1 DEF Chooses
    <3>2. g[t \ {Max(t)}] \in A
      BY <1>3
    <3> HIDE DEF top, Op, D
    <3> QED
      BY <3>1, <3>2
  <2>2. \A t \in SUBSET D : g[t] = IF t = {} THEN base ELSE Op(g[t \ {Max(t)}], rows[Max(t)])
    <3> HIDE DEF turn, top, base, Op, D
    <3> QED
      BY <1>3, <2>1 DEF Folding
  <2> HIDE DEF turn, top, base, Op, D
  <2> QED
    BY <1>3, <2>2
<1>5. P(G)
  <2> HIDE DEF P
  <2> QED
    BY <1>4
<1>6. Held(s, table) = G[D]
  BY DEF Held, LotsAtFirst, FoldLeft, MapThenFoldSet
<1>7. Folding(D, base, step, top, G)
  <2>1. \A t \in SUBSET D : G[t] = IF t = {} THEN base ELSE Op(G[t \ {Max(t)}], rows[Max(t)])
    <3> HIDE DEF G, base, Op, D
    <3> QED
      BY <1>5
  <2>2. \A t \in SUBSET D : G[t] \in B
    <3> HIDE DEF G, D
    <3> QED
      OBVIOUS
  <2>3. ASSUME NEW t \in SUBSET D, t # {}
        PROVE  step[<<top[t], G[t \ {top[t]}]>>] = Op(G[t \ {Max(t)}], rows[Max(t)])
    <3>1. top[t] = Max(t) /\ Max(t) \in D
      BY <1>1, <2>3 DEF Chooses
    <3>2. G[t \ {Max(t)}] \in B
      BY <2>2, <3>1
    <3> HIDE DEF top, Op, D, G, B
    <3> QED
      BY <3>1, <3>2
  <2> HIDE DEF step, top, base, Op, D, G
  <2> QED
    BY <2>1, <2>3 DEF Folding
<1>8. ASSUME NEW t \in (SUBSET D) \ {{}}, NEW a \in I[t \ {top[t]}]
      PROVE  step[<<top[t], a>>] \in I[t]
  <2>1. top[t] = Max(t) /\ Max(t) \in D
    BY <1>1, <1>8 DEF Chooses
  <2>2. a \in A /\ Op(a, rows[Max(t)]) \in I[t]
    BY <1>8, <2>1
  <2>3. a \in B
    BY <2>2
  <2> HIDE DEF top, Op, D, B
  <2> QED
    BY <2>1, <2>2, <2>3
<1>9. base \in I[{}]
  OBVIOUS
<1>10. G[D] \in I[D]
  <2> HIDE DEF step, top, base, D, G
  <2> QED
    BY <1>1, <1>7, <1>8, <1>9, FoldingStays
<1> QED
  BY <1>6, <1>10

\* The same of the tasks.
LEMMA ScheduledStays ==
    ASSUME NEW s \in Snapshots, NEW A, TasksAtFirst \in A,
           \A a \in A : \A k \in DOMAIN Source[s].tasks : TaskRowStep(a, Source[s].tasks[k]) \in A
    PROVE  Scheduled(s) \in {a.items : a \in A}
<1> DEFINE rows == Source[s].tasks
           D == DOMAIN rows
           base == TasksAtFirst
           Op(a, r) == TaskRowStep(a, r)
           P(g) == g = [t \in SUBSET D |-> IF t = {} THEN base
                                           ELSE Op(g[t \ {Max(t)}], rows[Max(t)])]
           G == CHOOSE g : P(g)
           top == [t \in SUBSET D |-> Max(t)]
           turn == [p \in D \X A |-> Op(p[2], rows[p[1]])]
           B == A \cup {G[t] : t \in SUBSET D}
           step == [p \in D \X B |-> Op(p[2], rows[p[1]])]
           I == [t \in SUBSET D |-> A]
<1>1. IsFiniteSet(D) /\ Chooses(top, D)
  <2>1. D = 1 .. Len(rows) /\ Len(rows) \in Nat
    BY SourceAssumption
  <2> QED
    BY <2>1, LastRow DEF Chooses
<1>2. turn \in [D \X A -> A]
  OBVIOUS
<1>3. PICK g \in [SUBSET D -> A] : Folding(D, base, turn, top, g)
  <2>1. base \in A
    OBVIOUS
  <2> HIDE DEF turn, top, base, D, Op
  <2> QED
    BY <1>1, <1>2, <2>1, RecursionExists
<1>4. P(g)
  <2>1. ASSUME NEW t \in SUBSET D, t # {}
        PROVE  turn[<<top[t], g[t \ {top[t]}]>>] = Op(g[t \ {Max(t)}], rows[Max(t)])
    <3>1. top[t] = Max(t) /\ Max(t) \in D
      BY <1>1, <2>1 DEF Chooses
    <3>2. g[t \ {Max(t)}] \in A
      BY <1>3
    <3> HIDE DEF top, Op, D
    <3> QED
      BY <3>1, <3>2
  <2>2. \A t \in SUBSET D : g[t] = IF t = {} THEN base ELSE Op(g[t \ {Max(t)}], rows[Max(t)])
    <3> HIDE DEF turn, top, base, Op, D
    <3> QED
      BY <1>3, <2>1 DEF Folding
  <2> HIDE DEF turn, top, base, Op, D
  <2> QED
    BY <1>3, <2>2
<1>5. P(G)
  <2> HIDE DEF P
  <2> QED
    BY <1>4
<1>6. FoldLeft(TaskRowStep, TasksAtFirst, rows) = G[D]
  BY DEF TasksAtFirst, FoldLeft, MapThenFoldSet
<1>7. Folding(D, base, step, top, G)
  <2>1. \A t \in SUBSET D : G[t] = IF t = {} THEN base ELSE Op(G[t \ {Max(t)}], rows[Max(t)])
    <3> HIDE DEF G, base, Op, D
    <3> QED
      BY <1>5
  <2>2. \A t \in SUBSET D : G[t] \in B
    <3> HIDE DEF G, D
    <3> QED
      OBVIOUS
  <2>3. ASSUME NEW t \in SUBSET D, t # {}
        PROVE  step[<<top[t], G[t \ {top[t]}]>>] = Op(G[t \ {Max(t)}], rows[Max(t)])
    <3>1. top[t] = Max(t) /\ Max(t) \in D
      BY <1>1, <2>3 DEF Chooses
    <3>2. G[t \ {Max(t)}] \in B
      BY <2>2, <3>1
    <3> HIDE DEF top, Op, D, G, B
    <3> QED
      BY <3>1, <3>2
  <2> HIDE DEF step, top, base, Op, D, G
  <2> QED
    BY <2>1, <2>3 DEF Folding
<1>8. ASSUME NEW t \in (SUBSET D) \ {{}}, NEW a \in I[t \ {top[t]}]
      PROVE  step[<<top[t], a>>] \in I[t]
  <2>1. top[t] = Max(t) /\ Max(t) \in D
    BY <1>1, <1>8 DEF Chooses
  <2>2. a \in A /\ Op(a, rows[Max(t)]) \in I[t]
    BY <1>8, <2>1
  <2>3. a \in B
    BY <2>2
  <2> HIDE DEF top, Op, D, B, I
  <2> QED
    BY <2>1, <2>2, <2>3
<1>9. base \in I[{}]
  OBVIOUS
<1>10. G[D] \in I[D]
  <2> HIDE DEF step, top, base, D, G, I
  <2> QED
    BY <1>1, <1>7, <1>8, <1>9, FoldingStays
<1> QED
  BY <1>6, <1>10 DEF Scheduled, TasksAtFirst

-----------------------------------------------------------------------------
(* The inductive invariant                                                 *)

\* A file is listed while no row names it.
ListedBefore == \A r \in listed : reports[r] # NoRow => r \in raced

\* What only the scripts wrote: no instrument of a user, one item a symbol
\* under an id that an instrument of that symbol has, positions of Admin.
OneItemASymbol ==
    /\ \A v, w \in Present(watch) : Symbol[watch[v]] = Symbol[watch[w]] => v = w
    /\ \A w \in Present(watch) : \E i \in Identities :
         w = <<i, "migration">> /\ Symbol[i] = Symbol[watch[w]]

OnlyScripts ==
    touched \/ /\ \A i \in Identities : instruments[i] # "user"
               /\ \A p \in Present(positions) : positions[p].owner = Admin
               /\ OneItemASymbol

LegacyInv == RowsAndFilesAgree /\ ListedBefore /\ OnlyScripts

\* References, table by table.
LEMMA Refers ==
    ASSUME NEW w \in [WatchIds -> Identities \cup {NoRow}],
           NEW p \in [PositionIds -> PositionRow \cup {NoRow}], NEW table
    PROVE  (\A i \in Referenced(w, p) : table[i] # NoRow)
             <=> /\ \A k \in WatchIds : w[k] # NoRow => table[w[k]] # NoRow
                 /\ \A k \in PositionIds : p[k] # NoRow => table[p[k].inst] # NoRow
                 /\ \A i \in linked : table[i] # NoRow
  BY DEF Referenced, Present

LEMMA RefersNext ==
    TypeOK' => (NothingDangles' <=>
      /\ \A k \in WatchIds : watch'[k] # NoRow => instruments'[watch'[k]] # NoRow
      /\ \A k \in PositionIds : positions'[k] # NoRow => instruments'[positions'[k].inst] # NoRow
      /\ \A i \in linked' : instruments'[i] # NoRow)
  BY DEF TypeOK, NothingDangles, Referenced, Present

LEMMA RefersNow ==
    TypeOK => (NothingDangles <=>
      /\ \A k \in WatchIds : watch[k] # NoRow => instruments[watch[k]] # NoRow
      /\ \A k \in PositionIds : positions[k] # NoRow => instruments[positions[k].inst] # NoRow
      /\ \A i \in linked : instruments[i] # NoRow)
  BY DEF TypeOK, NothingDangles, Referenced, Present

LEMMA LegacyBegins == Init => LegacyInv
<1> SUFFICES ASSUME Init PROVE LegacyInv
  OBVIOUS
<1>1. TypeOK
  <2>1. place \in [Reports -> {"none", "reports", "data", "orphaned"}]
    BY DEF Init
  <2>2. imports + repairs <= MaxScripts /\ edits \in 0 .. MaxEdits
    BY MigrationAssumption DEF Init
  <2> QED
    BY <2>1, <2>2 DEF Init, TypeOK
<1>2. NothingDangles
  BY <1>1, RefersNow DEF Init
<1>3. QuarantineSparesReports /\ ListedBefore /\ OnlyScripts
  BY MigrationAssumption
     DEF Init, QuarantineSparesReports, ListedBefore, OnlyScripts, OneItemASymbol, Present
<1> QED
  BY <1>1, <1>2, <1>3 DEF LegacyInv, RowsAndFilesAgree

-----------------------------------------------------------------------------
(* The steps of users and of the quarantine                                *)

\* The tables of holdings stay: so does what is said of them.
LEMMA HoldingsStay ==
    ASSUME TypeOK', LegacyInv, UNCHANGED <<holdings, touched>>
    PROVE  NothingDangles' /\ OnlyScripts'
<1>1. NothingDangles
  BY DEF LegacyInv, RowsAndFilesAgree
<1>2. NothingDangles'
  BY <1>1 DEF NothingDangles, Referenced, Present, holdings
<1>3. OnlyScripts'
  BY DEF LegacyInv, OnlyScripts, OneItemASymbol, Present, holdings
<1> QED
  BY <1>2, <1>3

LEMMA PapersStay ==
    ASSUME LegacyInv, UNCHANGED papers
    PROVE  QuarantineSparesReports' /\ ListedBefore'
  BY DEF LegacyInv, RowsAndFilesAgree, QuarantineSparesReports, ListedBefore, OnDisk, Present, papers

LEMMA AddPositionKeeps ==
    ASSUME LegacyInv, NEW o \in Owners, NEW p \in PositionIds, NEW i \in Identities,
           NEW a \in Amounts, AddPosition(o, p, i, a)
    PROVE  LegacyInv'
<1>0. TypeOK /\ NothingDangles
  BY DEF LegacyInv, RowsAndFilesAgree
<1>1. [owner |-> o, inst |-> i, amount |-> a] \in PositionRow
  BY DEF PositionRow
<1>2. TypeOK'
  BY <1>0, <1>1, MigrationAssumption
     DEF AddPosition, Edit, Known, TypeOK, papers, scripts
<1>3. \A j \in Identities : instruments[j] # NoRow => instruments'[j] # NoRow
  BY <1>0 DEF AddPosition, Known, TypeOK
<1>4. instruments'[i] # NoRow
  BY <1>0, MigrationAssumption DEF AddPosition, Known, TypeOK
<1>5. \A k \in WatchIds : watch'[k] # NoRow => instruments'[watch'[k]] # NoRow
  BY <1>0, <1>3, RefersNow DEF AddPosition, TypeOK
<1>6. \A k \in PositionIds : positions'[k] # NoRow => instruments'[positions'[k].inst] # NoRow
  <2> SUFFICES ASSUME NEW k \in PositionIds, positions'[k] # NoRow
               PROVE  instruments'[positions'[k].inst] # NoRow
    OBVIOUS
  <2>1. CASE k = p
    <3>1. positions'[k] = [owner |-> o, inst |-> i, amount |-> a]
      BY <1>0, <2>1 DEF AddPosition, TypeOK
    <3> QED
      BY <1>4, <3>1
  <2>2. CASE k # p
    <3>1. positions'[k] = positions[k]
      BY <1>0, <2>2 DEF AddPosition, TypeOK
    <3>2. positions[k] \in PositionRow
      BY <1>0, <3>1 DEF TypeOK
    <3> QED
      BY <1>0, <1>3, <3>1, <3>2, RefersNow DEF PositionRow
  <2> QED
    BY <2>1, <2>2
<1>7. \A j \in linked' : instruments'[j] # NoRow
  BY <1>0, <1>3, RefersNow DEF AddPosition, TypeOK
<1>8. NothingDangles'
  BY <1>2, <1>5, <1>6, <1>7, RefersNext
<1>9. OnlyScripts'
  BY DEF AddPosition, OnlyScripts
<1>10. QuarantineSparesReports' /\ ListedBefore'
  BY PapersStay DEF AddPosition
<1> QED
  BY <1>2, <1>8, <1>9, <1>10 DEF LegacyInv, RowsAndFilesAgree

LEMMA AddWatchKeeps ==
    ASSUME LegacyInv, NEW w \in NewWatchIds, NEW i \in Identities, AddWatch(w, i)
    PROVE  LegacyInv'
<1>0. TypeOK /\ NothingDangles /\ w \in WatchIds
  BY DEF LegacyInv, RowsAndFilesAgree, WatchIds
<1>2. TypeOK'
  BY <1>0, MigrationAssumption DEF AddWatch, Edit, Known, TypeOK, papers, scripts
<1>3. \A j \in Identities : instruments[j] # NoRow => instruments'[j] # NoRow
  BY <1>0 DEF AddWatch, Known, TypeOK
<1>4. instruments'[i] # NoRow
  BY <1>0, MigrationAssumption DEF AddWatch, Known, TypeOK
<1>5. \A k \in WatchIds : watch'[k] # NoRow => instruments'[watch'[k]] # NoRow
  BY <1>0, <1>3, <1>4, RefersNow DEF AddWatch, TypeOK
<1>6. \A k \in PositionIds : positions'[k] # NoRow => instruments'[positions'[k].inst] # NoRow
  BY <1>0, <1>3, RefersNow DEF AddWatch, TypeOK, PositionRow
<1>7. \A j \in linked' : instruments'[j] # NoRow
  BY <1>0, <1>3, RefersNow DEF AddWatch, TypeOK
<1>8. NothingDangles'
  BY <1>2, <1>5, <1>6, <1>7, RefersNext
<1>9. OnlyScripts'
  BY DEF AddWatch, OnlyScripts
<1>10. QuarantineSparesReports' /\ ListedBefore'
  BY PapersStay DEF AddWatch
<1> QED
  BY <1>2, <1>8, <1>9, <1>10 DEF LegacyInv, RowsAndFilesAgree

LEMMA EditPositionKeeps ==
    ASSUME LegacyInv, NEW p \in PositionIds, NEW a \in Amounts, EditPosition(p, a)
    PROVE  LegacyInv'
<1>0. TypeOK /\ NothingDangles
  BY DEF LegacyInv, RowsAndFilesAgree
<1>1. positions[p] \in PositionRow
  BY <1>0 DEF EditPosition, TypeOK
<1>2. [positions[p] EXCEPT !.amount = a] \in PositionRow
      /\ [positions[p] EXCEPT !.amount = a].inst = positions[p].inst
  BY <1>1 DEF PositionRow
<1>3. positions' = [positions EXCEPT ![p] = [positions[p] EXCEPT !.amount = a]]
  BY DEF EditPosition
<1>4. TypeOK'
  BY <1>0, <1>2, <1>3, MigrationAssumption DEF EditPosition, Edit, TypeOK, papers, scripts
<1>5. \A k \in PositionIds : positions'[k] # NoRow => instruments'[positions'[k].inst] # NoRow
  <2> SUFFICES ASSUME NEW k \in PositionIds, positions'[k] # NoRow
               PROVE  instruments'[positions'[k].inst] # NoRow
    OBVIOUS
  <2>1. positions[k] # NoRow /\ positions'[k].inst = positions[k].inst
    BY <1>0, <1>2, <1>3 DEF TypeOK, EditPosition
  <2> QED
    BY <1>0, <2>1, RefersNow DEF EditPosition
<1>6. NothingDangles'
  BY <1>0, <1>4, <1>5, RefersNow, RefersNext DEF EditPosition
<1>7. OnlyScripts'
  BY DEF EditPosition, OnlyScripts
<1>8. QuarantineSparesReports' /\ ListedBefore'
  BY PapersStay DEF EditPosition
<1> QED
  BY <1>4, <1>6, <1>7, <1>8 DEF LegacyInv, RowsAndFilesAgree

LEMMA DeletePositionKeeps ==
    ASSUME LegacyInv, NEW p \in PositionIds, DeletePosition(p)
    PROVE  LegacyInv'
<1>0. TypeOK /\ NothingDangles
  BY DEF LegacyInv, RowsAndFilesAgree
<1>1. TypeOK'
  BY <1>0, MigrationAssumption DEF DeletePosition, Edit, TypeOK, papers, scripts
<1>2. \A k \in PositionIds : positions'[k] # NoRow => positions'[k] = positions[k]
  BY <1>0 DEF DeletePosition, TypeOK
<1>3. NothingDangles'
  BY <1>0, <1>1, <1>2, RefersNow, RefersNext DEF DeletePosition
<1>4. OnlyScripts'
  BY DEF DeletePosition, OnlyScripts
<1>5. QuarantineSparesReports' /\ ListedBefore'
  BY PapersStay DEF DeletePosition
<1> QED
  BY <1>1, <1>3, <1>4, <1>5 DEF LegacyInv, RowsAndFilesAgree

LEMMA DeleteWatchKeeps ==
    ASSUME LegacyInv, NEW w \in WatchIds, DeleteWatch(w)
    PROVE  LegacyInv'
<1>0. TypeOK /\ NothingDangles /\ OnlyScripts
  BY DEF LegacyInv, RowsAndFilesAgree
<1>1. TypeOK'
  BY <1>0, MigrationAssumption DEF DeleteWatch, Edit, TypeOK, papers, scripts
<1>2. \A k \in WatchIds : watch'[k] # NoRow => watch'[k] = watch[k]
  BY <1>0 DEF DeleteWatch, TypeOK
<1>3. NothingDangles'
  BY <1>0, <1>1, <1>2, RefersNow, RefersNext DEF DeleteWatch
<1>4. Present(watch') \subseteq Present(watch) /\ \A k \in Present(watch') : watch'[k] = watch[k]
  BY <1>0, <1>1, <1>2 DEF TypeOK, Present
<1>5. OneItemASymbol => OneItemASymbol'
  BY <1>4 DEF OneItemASymbol
<1>6. OnlyScripts'
  BY <1>0, <1>5 DEF DeleteWatch, OnlyScripts, Present
<1>7. QuarantineSparesReports' /\ ListedBefore'
  BY PapersStay DEF DeleteWatch
<1> QED
  BY <1>1, <1>3, <1>6, <1>7 DEF LegacyInv, RowsAndFilesAgree

LEMMA LinkKeeps ==
    ASSUME LegacyInv, NEW i \in Identities, Link(i)
    PROVE  LegacyInv'
<1>0. TypeOK /\ NothingDangles
  BY DEF LegacyInv, RowsAndFilesAgree
<1>1. TypeOK'
  BY <1>0, MigrationAssumption DEF Link, Edit, TypeOK, papers, scripts
<1>2. NothingDangles'
  BY <1>0, <1>1, RefersNow, RefersNext DEF Link
<1>3. OnlyScripts'
  BY DEF LegacyInv, Link, OnlyScripts, OneItemASymbol, Present
<1>4. QuarantineSparesReports' /\ ListedBefore'
  BY PapersStay DEF Link
<1> QED
  BY <1>1, <1>2, <1>3, <1>4 DEF LegacyInv, RowsAndFilesAgree

LEMMA PutTaskKeeps ==
    ASSUME LegacyInv, NEW t \in TaskIds, NEW row \in TaskRow, PutTask(t, row)
    PROVE  LegacyInv'
<1>1. TypeOK'
  BY MigrationAssumption
     DEF LegacyInv, RowsAndFilesAgree, PutTask, Edit, TypeOK, holdings, papers, scripts
<1>2. UNCHANGED <<holdings, touched>> /\ UNCHANGED papers
  BY DEF PutTask
<1> QED
  BY <1>1, <1>2, HoldingsStay, PapersStay DEF LegacyInv, RowsAndFilesAgree

LEMMA StartSaveKeeps ==
    ASSUME LegacyInv, NEW r \in Reports, StartSave(r)
    PROVE  LegacyInv'
<1>0. TypeOK /\ QuarantineSparesReports
  BY DEF LegacyInv, RowsAndFilesAgree
<1>1. TypeOK'
  BY <1>0, MigrationAssumption DEF StartSave, Edit, TypeOK, holdings, scripts
<1>2. UNCHANGED <<holdings, touched>>
  BY DEF StartSave
<1>3. \A q \in Reports : OnDisk(q) => OnDisk(q)'
  BY <1>0 DEF StartSave, OnDisk, TypeOK
<1>4. QuarantineSparesReports'
  BY <1>0, <1>3 DEF StartSave, QuarantineSparesReports, Present, TypeOK
<1>5. ListedBefore'
  BY DEF LegacyInv, StartSave, ListedBefore
<1> QED
  BY <1>1, <1>2, <1>4, <1>5, HoldingsStay DEF LegacyInv, RowsAndFilesAgree

LEMMA FinishSaveKeeps ==
    ASSUME LegacyInv, NEW r \in Reports, NEW o \in Owners, FinishSave(r, o)
    PROVE  LegacyInv'
<1>0. TypeOK /\ QuarantineSparesReports /\ ListedBefore
  BY DEF LegacyInv, RowsAndFilesAgree
<1>1. PICK shared \in {FALSE, o = Admin} :
        reports' = [reports EXCEPT ![r] = [owner |-> o, shared |-> shared, ok |-> TRUE]]
  BY DEF FinishSave
<1>2. [owner |-> o, shared |-> shared, ok |-> TRUE] \in ReportRow
  BY DEF ReportRow
<1>3. TypeOK'
  BY <1>0, <1>1, <1>2 DEF FinishSave, TypeOK, holdings, scripts
<1>4. UNCHANGED <<holdings, touched>>
  BY DEF FinishSave
<1>5. \A q \in Reports : q # r => reports'[q] = reports[q] /\ (q \in raced' <=> q \in raced)
  BY <1>0, <1>1 DEF FinishSave, TypeOK
<1>6. \A q \in Reports : OnDisk(q)' <=> OnDisk(q)
  BY DEF FinishSave, OnDisk
<1>7. OnDisk(r) \/ r \in raced'
  BY DEF FinishSave, OnDisk
<1>8. QuarantineSparesReports'
  <2> SUFFICES ASSUME NEW q \in Reports, reports'[q] # NoRow, reports'[q].ok, ~OnDisk(q)'
               PROVE  q \in raced'
    BY <1>3 DEF QuarantineSparesReports, Present, TypeOK
  <2> QED
    BY <1>0, <1>5, <1>6, <1>7 DEF QuarantineSparesReports, Present, TypeOK
<1>9. ListedBefore'
  <2> SUFFICES ASSUME NEW q \in listed, reports'[q] # NoRow PROVE q \in raced'
    BY DEF ListedBefore, FinishSave
  <2>1. CASE q = r
    BY <2>1 DEF FinishSave
  <2>2. CASE q # r
    BY <1>0, <1>5, <2>2 DEF ListedBefore, TypeOK
  <2> QED
    BY <2>1, <2>2
<1> QED
  BY <1>3, <1>4, <1>8, <1>9, HoldingsStay DEF LegacyInv, RowsAndFilesAgree

LEMMA DeleteReportKeeps ==
    ASSUME LegacyInv, NEW r \in Reports, DeleteReport(r)
    PROVE  LegacyInv'
<1>0. TypeOK /\ QuarantineSparesReports /\ ListedBefore
  BY DEF LegacyInv, RowsAndFilesAgree
<1>1. TypeOK'
  BY <1>0, MigrationAssumption DEF DeleteReport, Edit, TypeOK, holdings, scripts
<1>2. UNCHANGED <<holdings, touched>>
  BY DEF DeleteReport
<1>3. \A q \in Reports : reports'[q] # NoRow => reports'[q] = reports[q] /\ place'[q] = place[q]
  BY <1>0 DEF DeleteReport, TypeOK
<1>4. QuarantineSparesReports' /\ ListedBefore'
  BY <1>0, <1>1, <1>3
     DEF DeleteReport, QuarantineSparesReports, ListedBefore, OnDisk, Present, TypeOK
<1> QED
  BY <1>1, <1>2, <1>4, HoldingsStay DEF LegacyInv, RowsAndFilesAgree

LEMMA UsersKeep ==
    ASSUME LegacyInv, Users PROVE LegacyInv'
  BY AddPositionKeeps, EditPositionKeeps, DeletePositionKeeps, AddWatchKeeps, DeleteWatchKeeps,
     LinkKeeps, PutTaskKeeps, StartSaveKeeps, FinishSaveKeeps, DeleteReportKeeps DEF Users

LEMMA QuarantineKeeps ==
    ASSUME LegacyInv, Quarantine PROVE LegacyInv'
<1>0. TypeOK /\ QuarantineSparesReports /\ ListedBefore
  BY DEF LegacyInv, RowsAndFilesAgree
<1>1. TypeOK'
  BY <1>0 DEF Quarantine, TypeOK, holdings, scripts
<1>2. UNCHANGED <<holdings, touched>>
  BY DEF Quarantine
<1>3. \A q \in Reports \ listed : place'[q] = place[q]
  BY <1>0 DEF Quarantine, TypeOK
<1>4. QuarantineSparesReports'
  BY <1>0, <1>1, <1>3
     DEF Quarantine, QuarantineSparesReports, ListedBefore, OnDisk, Present, TypeOK
<1>5. ListedBefore'
  BY DEF Quarantine, ListedBefore
<1> QED
  BY <1>1, <1>2, <1>4, <1>5, HoldingsStay DEF LegacyInv, RowsAndFilesAgree

-----------------------------------------------------------------------------
(* The loop over the stocks                                                *)

Tables == [Identities -> {NoRow, "migration", "user"}]

LEMMA MatchFacts ==
    ASSUME NEW candidates, NEW exact, exact \subseteq candidates
    PROVE  /\ Match(candidates, exact) \subseteq candidates
           /\ exact # {} => Match(candidates, exact) \subseteq exact /\ Match(candidates, exact) # {}
           /\ exact = {} /\ Cardinality(candidates) = 1 => Match(candidates, exact) = candidates
  BY DEF Match

LEMMA RowOf ==
    ASSUME NEW R, NEW rows \in Seq(R), NEW k \in DOMAIN rows PROVE rows[k] \in R
OBVIOUS

\* Every item has its pair, and the instrument it is bound to.
StockLoop(table) ==
    {a \in [items: [WatchIds -> Identities \cup {NoRow}],
            pairs: UNION {[D -> Identities] : D \in SUBSET WatchIds}, clash: BOOLEAN] :
       /\ DOMAIN a.pairs = Present(a.items)
       /\ \A k \in Present(a.items) : table[a.items[k]] # NoRow}

LEMMA PairsGrow ==
    ASSUME NEW Ids, NEW f \in UNION {[D -> Identities] : D \in SUBSET Ids}, NEW id \in Ids,
           NEW i \in Identities
    PROVE  /\ Paired(f, id, i) \in UNION {[D -> Identities] : D \in SUBSET Ids}
           /\ DOMAIN Paired(f, id, i) = DOMAIN f \cup {id}
           /\ \A k \in DOMAIN f : Paired(f, id, i)[k] = f[k]
           /\ id \notin DOMAIN f => Paired(f, id, i)[id] = i
<1>1. PICK D \in SUBSET Ids : f \in [D -> Identities]
  OBVIOUS
<1>2. Paired(f, id, i) \in [DOMAIN f \cup {id} -> Identities]
  BY <1>1 DEF Paired
<1>3. DOMAIN f \cup {id} \in SUBSET Ids
  BY <1>1
<1>4. /\ \A k \in DOMAIN f : Paired(f, id, i)[k] = f[k]
      /\ id \notin DOMAIN f => Paired(f, id, i)[id] = i
  BY DEF Paired
<1> QED
  BY <1>2, <1>3, <1>4

\* What one stock does.
WatchMatch(acc, row, table) ==
    LET candidates == Candidates(acc.pairs, row.inst, table)
    IN Match(candidates, {k \in candidates : acc.items[k] = row.inst})

WatchTurn(acc, row, table, id, clash) ==
    LET stable == <<row.inst, table[row.inst]>> IN
    /\ IF WatchMatch(acc, row, table) # {}
       THEN id \in WatchMatch(acc, row, table) /\ id \in DOMAIN acc.pairs
       ELSE id = stable
    /\ clash = (acc.clash \/ (WatchMatch(acc, row, table) = {} /\ acc.items[stable] # NoRow))
    /\ WatchRow(acc, row, table) =
         [items |-> [acc.items EXCEPT ![id] = row.inst],
          pairs |-> Paired(acc.pairs, id, row.inst), clash |-> clash]

LEMMA WatchRowIs ==
    ASSUME NEW table \in Tables, NEW acc \in StockLoop(table),
           NEW row \in [inst: Identities \cup {Unresolved}],
           row.inst # Unresolved, table[row.inst] # NoRow
    PROVE  \E id \in WatchIds, clash \in BOOLEAN : WatchTurn(acc, row, table, id, clash)
<1> DEFINE candidates == Candidates(acc.pairs, row.inst, table)
           match  == WatchMatch(acc, row, table)
           stable == <<row.inst, table[row.inst]>>
           id     == IF match # {} THEN CHOOSE k \in match : TRUE ELSE stable
           clash  == acc.clash \/ (match = {} /\ acc.items[stable] # NoRow)
<1>1. DOMAIN acc.pairs \subseteq WatchIds
  BY DEF StockLoop
<1>2. candidates \subseteq DOMAIN acc.pairs
  BY DEF Candidates
<1>3. match \subseteq candidates
  BY MatchFacts DEF WatchMatch
<1>4. stable \in WatchIds
  BY DEF Tables, WatchIds
<1>5. WatchRow(acc, row, table) =
        [items |-> [acc.items EXCEPT ![id] = row.inst],
         pairs |-> Paired(acc.pairs, id, row.inst),
         clash |-> clash]
  BY DEF WatchRow, WatchMatch
<1>6. match # {} => id \in match /\ id \in DOMAIN acc.pairs
  <2> HIDE DEF match, candidates
  <2> QED
    BY <1>2, <1>3
<1>7. match = {} => id = stable
  OBVIOUS
<1>8. id \in WatchIds
  <2> HIDE DEF match, stable, id
  <2> QED
    BY <1>1, <1>4, <1>6, <1>7
<1>9. clash \in BOOLEAN
  OBVIOUS
<1> HIDE DEF id, clash
<1> QED
  BY <1>5, <1>6, <1>7, <1>8, <1>9 DEF clash, WatchTurn

LEMMA WatchRowKeeps ==
    ASSUME NEW table \in Tables, NEW acc \in StockLoop(table),
           NEW row \in [inst: Identities \cup {Unresolved}],
           row.inst # Unresolved => table[row.inst] # NoRow
    PROVE  WatchRow(acc, row, table) \in StockLoop(table)
<1>1. CASE row.inst = Unresolved
  BY <1>1 DEF WatchRow
<1>2. CASE row.inst # Unresolved
  <2> DEFINE next == WatchRow(acc, row, table)
  <2>1. PICK id \in WatchIds, clash \in BOOLEAN :
           next = [items |-> [acc.items EXCEPT ![id] = row.inst],
                   pairs |-> Paired(acc.pairs, id, row.inst),
                   clash |-> clash]
    <3>1. \E id \in WatchIds, clash \in BOOLEAN : WatchTurn(acc, row, table, id, clash)
      BY <1>2, WatchRowIs
    <3> QED
      BY <3>1 DEF WatchTurn
  <2> HIDE DEF next
  <2>2. acc.items \in [WatchIds -> Identities \cup {NoRow}] /\ row.inst \in Identities
        /\ acc.pairs \in UNION {[D -> Identities] : D \in SUBSET WatchIds}
        /\ DOMAIN acc.pairs = Present(acc.items)
    BY <1>2 DEF StockLoop
  <2>3. next.items \in [WatchIds -> Identities \cup {NoRow}]
    BY <2>1, <2>2
  <2>4. next.pairs \in UNION {[D -> Identities] : D \in SUBSET WatchIds}
    BY <2>1, <2>2, PairsGrow
  <2>5. next \in [items: [WatchIds -> Identities \cup {NoRow}],
                  pairs: UNION {[D -> Identities] : D \in SUBSET WatchIds}, clash: BOOLEAN]
    BY <2>1, <2>3, <2>4
  <2>6. Present(next.items) = Present(acc.items) \cup {id}
    BY <2>1, <2>2, MigrationAssumption DEF Present
  <2>7. DOMAIN next.pairs = DOMAIN acc.pairs \cup {id}
    <3>1. next.pairs = Paired(acc.pairs, id, row.inst)
      BY <2>1
    <3> QED
      BY <3>1 DEF Paired
  <2>8. \A k \in Present(next.items) : table[next.items[k]] # NoRow
    <3> SUFFICES ASSUME NEW k \in Present(next.items) PROVE table[next.items[k]] # NoRow
      OBVIOUS
    <3>1. CASE k = id
      BY <1>2, <2>1, <2>2, <3>1
    <3>2. CASE k # id
      BY <2>1, <2>2, <2>6, <3>2 DEF StockLoop
    <3> QED
      BY <3>1, <3>2
  <2>9. DOMAIN next.pairs = Present(next.items)
    BY <2>2, <2>6, <2>7
  <2>10. next \in StockLoop(table)
    BY <2>5, <2>8, <2>9 DEF StockLoop
  <2> QED
    BY <2>10 DEF next
<1> QED
  BY <1>1, <1>2

\* ensure() leaves no row of the snapshot without an instrument.
LEMMA EnsuredFacts ==
    ASSUME TypeOK, NEW s \in Snapshots
    PROVE  /\ Ensured(s) \in Tables
           /\ \A i \in Identities : /\ instruments[i] # NoRow => Ensured(s)[i] = instruments[i]
                                   /\ Ensured(s)[i] \in {instruments[i], "migration"}
           /\ \A k \in DOMAIN Source[s].stocks :
                LET row == Source[s].stocks[k] IN
                /\ row \in [inst: Identities \cup {Unresolved}]
                /\ row.inst # Unresolved => Ensured(s)[row.inst] # NoRow
           /\ \A k \in DOMAIN Source[s].positions :
                LET row == Source[s].positions[k] IN
                /\ row \in [id: PositionIds, inst: Identities \cup {Unresolved}, amount: Amounts]
                /\ row.inst # Unresolved => Ensured(s)[row.inst] # NoRow
<1>1. Ensured(s) \in Tables
      /\ \A i \in Identities : /\ instruments[i] # NoRow => Ensured(s)[i] = instruments[i]
                              /\ Ensured(s)[i] \in {instruments[i], "migration"}
  BY DEF Ensured, Tables, TypeOK
<1>2. \A i \in Identities :
        i \in InstrumentsOf(Source[s].stocks) \cup InstrumentsOf(Source[s].positions)
          => Ensured(s)[i] # NoRow
  BY MigrationAssumption DEF Ensured, TypeOK
<1>3. ASSUME NEW k \in DOMAIN Source[s].stocks
      PROVE  LET row == Source[s].stocks[k] IN
             /\ row \in [inst: Identities \cup {Unresolved}]
             /\ row.inst # Unresolved => Ensured(s)[row.inst] # NoRow
  <2>1. Source[s].stocks[k] \in [inst: Identities \cup {Unresolved}]
    BY SourceAssumption, RowOf
  <2>2. Source[s].stocks[k].inst # Unresolved
          => Source[s].stocks[k].inst \in InstrumentsOf(Source[s].stocks)
    BY DEF InstrumentsOf
  <2> QED
    BY <1>2, <2>1, <2>2
<1>4. ASSUME NEW k \in DOMAIN Source[s].positions
      PROVE  LET row == Source[s].positions[k] IN
             /\ row \in [id: PositionIds, inst: Identities \cup {Unresolved}, amount: Amounts]
             /\ row.inst # Unresolved => Ensured(s)[row.inst] # NoRow
  <2>1. Source[s].positions[k] \in
          [id: PositionIds, inst: Identities \cup {Unresolved}, amount: Amounts]
    BY SourceAssumption, RowOf
  <2>2. Source[s].positions[k].inst # Unresolved
          => Source[s].positions[k].inst \in InstrumentsOf(Source[s].positions)
    BY DEF InstrumentsOf
  <2> QED
    BY <1>2, <2>1, <2>2
<1> QED
  BY <1>1, <1>3, <1>4

LEMMA WatchedFacts ==
    ASSUME TypeOK, NothingDangles, NEW s \in Snapshots
    PROVE  Watched(s, Ensured(s)) \in StockLoop(Ensured(s))
<1> DEFINE table == Ensured(s)
           A == StockLoop(table)
<1>1. table \in Tables
  BY EnsuredFacts
<1>2. StocksAtFirst \in A
  <2>1. watch \in [WatchIds -> Identities \cup {NoRow}]
    BY DEF TypeOK
  <2>2. Present(watch) \subseteq WatchIds /\ \A k \in Present(watch) : watch[k] \in Identities
    BY <2>1 DEF Present
  <2>3. [k \in Present(watch) |-> watch[k]] \in [Present(watch) -> Identities]
    BY <2>2
  <2>4. \A k \in Present(watch) : table[watch[k]] # NoRow
    BY <2>1, <2>2, RefersNow, EnsuredFacts DEF Present
  <2> HIDE DEF table
  <2> QED
    BY <2>1, <2>2, <2>3, <2>4 DEF StocksAtFirst, StockLoop
<1>3. ASSUME NEW a \in A, NEW k \in DOMAIN Source[s].stocks
      PROVE  WatchRow(a, Source[s].stocks[k], table) \in A
  BY <1>1, EnsuredFacts, WatchRowKeeps
<1> HIDE DEF A, table
<1>4. Watched(s, table) \in A
  BY <1>2, <1>3, WatchedStays
<1> QED
  BY <1>4 DEF A, table

-----------------------------------------------------------------------------
(* The stocks while only the scripts write                                 *)

Untouched(table) == \A i \in Identities : table[i] # "user"

QuietStocks(table) ==
    {a \in StockLoop(table) :
       /\ ~a.clash
       /\ \A k \in DOMAIN a.pairs : /\ table[a.pairs[k]] = "migration"
                                    /\ Symbol[a.pairs[k]] = Symbol[a.items[k]]
       /\ \A v, w \in Present(a.items) : Symbol[a.items[w]] = Symbol[a.items[v]] => v = w
       /\ \A w \in Present(a.items) : \E i \in Identities :
            w = <<i, "migration">> /\ Symbol[i] = Symbol[a.items[w]]}

\* The item of the symbol is rebound, and where there is none the stable id
\* is free: it was taken by an instrument of the same symbol only.
LEMMA WatchRowKeepsQuiet ==
    ASSUME NEW table \in Tables, Untouched(table), NEW acc \in QuietStocks(table),
           NEW row \in [inst: Identities \cup {Unresolved}],
           row.inst # Unresolved => table[row.inst] # NoRow
    PROVE  WatchRow(acc, row, table) \in QuietStocks(table)
<1>1. CASE row.inst = Unresolved
  BY <1>1 DEF WatchRow
<1>2. CASE row.inst # Unresolved
  <2> DEFINE next == WatchRow(acc, row, table)
             match == WatchMatch(acc, row, table)
             candidates == Candidates(acc.pairs, row.inst, table)
             stable == <<row.inst, "migration">>
  <2>1. acc \in StockLoop(table) /\ next \in StockLoop(table)
    BY WatchRowKeeps DEF QuietStocks
  <2>2. row.inst \in Identities /\ table[row.inst] = "migration"
    BY <1>2 DEF Tables, Untouched
  <2>3. PICK id \in WatchIds, clash \in BOOLEAN : WatchTurn(acc, row, table, id, clash)
    BY <1>2, <2>1, WatchRowIs
  <2>4. /\ match # {} => id \in match
        /\ match = {} => id = stable
        /\ clash = (acc.clash \/ (match = {} /\ acc.items[stable] # NoRow))
        /\ next = [items |-> [acc.items EXCEPT ![id] = row.inst],
                   pairs |-> Paired(acc.pairs, id, row.inst), clash |-> clash]
    BY <2>2, <2>3 DEF WatchTurn
  <2>5. match \subseteq candidates
    BY MatchFacts DEF WatchMatch
  <2>6. \A k : k \in candidates <=> k \in Present(acc.items)
                                    /\ Symbol[acc.items[k]] = Symbol[row.inst]
    BY <2>1 DEF Candidates, QuietStocks, StockLoop
  <2>7. \A j, k \in candidates : j = k
    BY <2>6 DEF QuietStocks
  <2>8. candidates # {} => match # {}
    <3> SUFFICES ASSUME NEW c \in candidates PROVE match # {}
      OBVIOUS
    <3> DEFINE exact == {k \in candidates : acc.items[k] = row.inst}
    <3>1. candidates = {c}
      BY <2>7
    <3>2. Cardinality(candidates) = 1
      <4> HIDE DEF candidates
      <4> QED
        BY <3>1, FS_Singleton
    <3>3. match = Match(candidates, exact)
      BY DEF WatchMatch
    <3>4. exact \subseteq candidates
      OBVIOUS
    <3> HIDE DEF candidates, exact, match
    <3> QED
      BY <3>2, <3>3, <3>4, MatchFacts
  <2>9. match = {} => acc.items[stable] = NoRow
    <3> SUFFICES ASSUME match = {}, acc.items[stable] # NoRow PROVE FALSE
      OBVIOUS
    <3>1. stable \in WatchIds
      BY <2>2 DEF WatchIds
    <3>2. stable \in Present(acc.items)
      BY <2>1, <3>1 DEF Present, StockLoop
    <3>3. PICK i \in Identities :
             stable = <<i, "migration">> /\ Symbol[i] = Symbol[acc.items[stable]]
      BY <3>2 DEF QuietStocks
    <3>4. i = row.inst
      BY <3>3
    <3>5. stable \in candidates
      BY <2>6, <3>2, <3>3, <3>4
    <3> QED
      BY <2>8, <3>5
  <2>10. ~clash
    BY <2>4, <2>9 DEF QuietStocks
  <2> HIDE DEF next, match, candidates, stable
  <2>11. acc.items \in [WatchIds -> Identities \cup {NoRow}]
         /\ acc.pairs \in UNION {[D -> Identities] : D \in SUBSET WatchIds}
         /\ DOMAIN acc.pairs = Present(acc.items)
    BY <2>1 DEF StockLoop
  <2>12. /\ next.items[id] = row.inst
         /\ \A k \in WatchIds : k # id => next.items[k] = acc.items[k]
         /\ Present(next.items) = Present(acc.items) \cup {id}
    BY <2>2, <2>4, <2>11, MigrationAssumption DEF Present
  <2>13. Present(acc.items) \subseteq WatchIds
    BY <2>11 DEF Present
  \* The item written is the only one of its symbol.
  <2>14. \A k \in Present(acc.items) : Symbol[acc.items[k]] = Symbol[row.inst] => k = id
    <3> SUFFICES ASSUME NEW k \in Present(acc.items), Symbol[acc.items[k]] = Symbol[row.inst]
                 PROVE  k = id
      OBVIOUS
    <3>1. k \in candidates
      BY <2>6
    <3>2. id \in candidates
      BY <2>4, <2>5, <2>8, <3>1
    <3> QED
      BY <2>7, <3>1, <3>2
  <2>15. id \in Present(acc.items) => Symbol[acc.items[id]] = Symbol[row.inst]
    <3> SUFFICES ASSUME id \in Present(acc.items) PROVE Symbol[acc.items[id]] = Symbol[row.inst]
      OBVIOUS
    <3>1. CASE match = {}
      BY <2>4, <2>9, <3>1 DEF Present
    <3>2. CASE match # {}
      BY <2>4, <2>5, <2>6, <3>2
    <3> QED
      BY <3>1, <3>2
  <2>16. \A v, w \in Present(next.items) : Symbol[next.items[w]] = Symbol[next.items[v]] => v = w
    <3> SUFFICES ASSUME NEW v \in Present(next.items), NEW w \in Present(next.items),
                        Symbol[next.items[w]] = Symbol[next.items[v]]
                 PROVE  v = w
      OBVIOUS
    <3>1. CASE v = id /\ w # id
      BY <2>12, <2>13, <2>14, <3>1
    <3>2. CASE v # id /\ w = id
      BY <2>12, <2>13, <2>14, <3>2
    <3>3. CASE v # id /\ w # id
      BY <2>12, <2>13, <3>3 DEF QuietStocks
    <3> QED
      BY <3>1, <3>2, <3>3
  <2>17. ASSUME NEW w \in Present(next.items)
         PROVE  \E i \in Identities : w = <<i, "migration">> /\ Symbol[i] = Symbol[next.items[w]]
    <3>1. CASE w \in Present(acc.items)
      <4>1. PICK i \in Identities : w = <<i, "migration">> /\ Symbol[i] = Symbol[acc.items[w]]
        BY <3>1 DEF QuietStocks
      <4>2. Symbol[next.items[w]] = Symbol[acc.items[w]]
        BY <2>12, <2>13, <2>15, <3>1
      <4> QED
        BY <4>1, <4>2
    <3>2. CASE w \notin Present(acc.items)
      <4>1. w = id /\ match = {}
        BY <2>4, <2>5, <2>6, <2>12, <3>2
      <4> QED
        BY <2>2, <2>4, <2>12, <4>1 DEF stable
    <3> QED
      BY <3>1, <3>2
  <2>18. next.pairs = Paired(acc.pairs, id, row.inst) /\ next.clash = clash
    BY <2>4
  <2>19. ASSUME NEW k \in DOMAIN next.pairs
         PROVE  table[next.pairs[k]] = "migration" /\ Symbol[next.pairs[k]] = Symbol[next.items[k]]
    <3>1. CASE k \in DOMAIN acc.pairs
      <4>1. next.pairs[k] = acc.pairs[k]
        BY <2>18, <3>1 DEF Paired
      <4>2. Symbol[next.items[k]] = Symbol[acc.items[k]]
        BY <2>11, <2>12, <2>13, <2>15, <3>1
      <4> QED
        BY <3>1, <4>1, <4>2 DEF QuietStocks
    <3>2. CASE k \notin DOMAIN acc.pairs
      <4>1. k = id /\ next.pairs[k] = row.inst
        BY <2>18, <2>19, <3>2 DEF Paired
      <4> QED
        BY <2>2, <2>12, <4>1
    <3> QED
      BY <3>1, <3>2
  <2>20. next \in StockLoop(table)
    BY <2>1 DEF next
  <2>21. next \in QuietStocks(table)
    BY <2>10, <2>16, <2>17, <2>18, <2>19, <2>20 DEF QuietStocks
  <2> QED
    BY <2>21 DEF next
<1> QED
  BY <1>1, <1>2

LEMMA WatchedQuiet ==
    ASSUME LegacyInv, ~touched, NEW s \in Snapshots
    PROVE  /\ Untouched(Ensured(s))
           /\ Watched(s, Ensured(s)) \in QuietStocks(Ensured(s))
<1> DEFINE table == Ensured(s)
           A == QuietStocks(table)
<1>1. TypeOK /\ NothingDangles /\ OneItemASymbol /\ \A i \in Identities : instruments[i] # "user"
  BY DEF LegacyInv, RowsAndFilesAgree, OnlyScripts
<1>2. table \in Tables /\ Untouched(table)
  BY <1>1, EnsuredFacts DEF Untouched
<1>3. StocksAtFirst \in A
  <2>1. watch \in [WatchIds -> Identities \cup {NoRow}]
    BY <1>1 DEF TypeOK
  <2>2. Present(watch) \subseteq WatchIds /\ \A k \in Present(watch) : watch[k] \in Identities
    BY <2>1 DEF Present
  <2>3. [k \in Present(watch) |-> watch[k]] \in [Present(watch) -> Identities]
    BY <2>2
  <2>4. \A k \in Present(watch) : table[watch[k]] # NoRow
    BY <1>1, <2>1, <2>2, RefersNow, EnsuredFacts DEF Present
  <2>5. \A k \in Present(watch) : table[watch[k]] = "migration"
    BY <1>2, <2>2, <2>4 DEF Tables, Untouched
  <2> HIDE DEF table
  <2>6. StocksAtFirst \in StockLoop(table)
    BY <2>1, <2>2, <2>3, <2>4 DEF StocksAtFirst, StockLoop
  <2>7. StocksAtFirst.items = watch /\ ~StocksAtFirst.clash
        /\ DOMAIN StocksAtFirst.pairs = Present(watch)
        /\ \A k \in Present(watch) : StocksAtFirst.pairs[k] = watch[k]
    BY DEF StocksAtFirst
  <2> QED
    BY <1>1, <2>5, <2>6, <2>7 DEF QuietStocks, OneItemASymbol
<1>4. ASSUME NEW a \in A, NEW k \in DOMAIN Source[s].stocks
      PROVE  WatchRow(a, Source[s].stocks[k], table) \in A
  BY <1>1, <1>2, EnsuredFacts, WatchRowKeepsQuiet
<1> HIDE DEF A, table
<1>5. Watched(s, table) \in A
  BY <1>3, <1>4, WatchedStays
<1> QED
  BY <1>2, <1>5 DEF A, table

-----------------------------------------------------------------------------
(* The loop over the positions                                             *)

LotLoop(table) ==
    {a \in [items: [PositionIds -> PositionRow \cup {NoRow}],
            pairs: UNION {[D -> Identities] : D \in SUBSET PositionIds},
            used: SUBSET PositionIds, clash: BOOLEAN] :
       /\ DOMAIN a.pairs \subseteq Present(a.items)
       /\ a.used \subseteq Present(a.items)
       /\ \A k \in Present(a.items) : table[a.items[k].inst] # NoRow}

LotCandidates(acc, row, table) ==
    {k \in Candidates(acc.pairs, row.inst, table) \ acc.used : acc.items[k].amount = row.amount}
OnRow(acc, row, table) == {k \in LotCandidates(acc, row, table) : acc.items[k].inst = row.inst}
LotMatch(acc, row, table) == Match(LotCandidates(acc, row, table), OnRow(acc, row, table))

Lot(row) == [owner |-> Admin, inst |-> row.inst, amount |-> row.amount]

LotTurn(acc, row, table, id, clash) ==
    /\ IF LotMatch(acc, row, table) # {} THEN id \in LotMatch(acc, row, table) ELSE id = row.id
    /\ clash = (acc.clash \/ (LotMatch(acc, row, table) = {} /\ acc.items[row.id] # NoRow))
    /\ PositionStep(acc, row, table) =
         [items |-> [acc.items EXCEPT ![id] = Lot(row)], pairs |-> Paired(acc.pairs, id, row.inst),
          used |-> acc.used \cup {id}, clash |-> clash]

SourceLot == [id: PositionIds, inst: Identities \cup {Unresolved}, amount: Amounts]

LEMMA LotMatchFacts ==
    ASSUME NEW table, NEW acc, NEW row
    PROVE  /\ LotMatch(acc, row, table) \subseteq LotCandidates(acc, row, table)
           /\ \A k \in LotCandidates(acc, row, table) :
                /\ k \in DOMAIN acc.pairs /\ k \notin acc.used
                /\ Symbol[acc.pairs[k]] = Symbol[row.inst] /\ table[acc.pairs[k]] = "migration"
                /\ acc.items[k].amount = row.amount
  BY MatchFacts DEF LotMatch, OnRow, LotCandidates, Candidates

LEMMA PositionStepIs ==
    ASSUME NEW table \in Tables, NEW acc \in LotLoop(table), NEW row \in SourceLot,
           row.inst # Unresolved
    PROVE  \E id \in PositionIds, clash \in BOOLEAN : LotTurn(acc, row, table, id, clash)
<1> DEFINE match == LotMatch(acc, row, table)
           id    == IF match # {} THEN CHOOSE k \in match : TRUE ELSE row.id
           clash == acc.clash \/ (match = {} /\ acc.items[row.id] # NoRow)
<1>1. DOMAIN acc.pairs \subseteq PositionIds
  BY DEF LotLoop, Present
<1>2. match \subseteq DOMAIN acc.pairs
  BY LotMatchFacts
<1>3. PositionStep(acc, row, table) =
        [items |-> [acc.items EXCEPT ![id] = Lot(row)], pairs |-> Paired(acc.pairs, id, row.inst),
         used |-> acc.used \cup {id}, clash |-> clash]
  BY DEF PositionStep, LotMatch, OnRow, LotCandidates, Lot
<1>4. match # {} => id \in match
  <2> HIDE DEF match
  <2> QED
    OBVIOUS
<1>5. match = {} => id = row.id
  OBVIOUS
<1>6. row.id \in PositionIds
  BY DEF SourceLot
<1>7. id \in PositionIds
  <2> HIDE DEF match, id
  <2> QED
    BY <1>1, <1>2, <1>4, <1>5, <1>6
<1>8. clash \in BOOLEAN
  OBVIOUS
<1> HIDE DEF id, clash
<1> QED
  BY <1>3, <1>4, <1>5, <1>7, <1>8 DEF clash, LotTurn

LEMMA PositionStepKeeps ==
    ASSUME NEW table \in Tables, NEW acc \in LotLoop(table), NEW row \in SourceLot,
           row.inst # Unresolved => table[row.inst] # NoRow
    PROVE  PositionStep(acc, row, table) \in LotLoop(table)
<1>1. CASE row.inst = Unresolved
  BY <1>1 DEF PositionStep
<1>2. CASE row.inst # Unresolved
  <2> DEFINE next == PositionStep(acc, row, table)
  <2>1. PICK id \in PositionIds, clash \in BOOLEAN : LotTurn(acc, row, table, id, clash)
    BY <1>2, PositionStepIs
  <2>2. next = [items |-> [acc.items EXCEPT ![id] = Lot(row)],
                pairs |-> Paired(acc.pairs, id, row.inst),
                used |-> acc.used \cup {id}, clash |-> clash]
    BY <2>1 DEF LotTurn
  <2> HIDE DEF next
  <2>3. acc.items \in [PositionIds -> PositionRow \cup {NoRow}]
        /\ acc.pairs \in UNION {[D -> Identities] : D \in SUBSET PositionIds}
        /\ acc.used \in SUBSET PositionIds
        /\ DOMAIN acc.pairs \subseteq Present(acc.items) /\ acc.used \subseteq Present(acc.items)
    BY DEF LotLoop
  <2>4. row.inst \in Identities /\ Lot(row) \in PositionRow /\ Lot(row).inst = row.inst
    BY <1>2 DEF SourceLot, Lot, PositionRow, Owners
  <2>5. next.items \in [PositionIds -> PositionRow \cup {NoRow}]
    BY <2>2, <2>3, <2>4
  <2>6. next.pairs = Paired(acc.pairs, id, row.inst) /\ next.used = acc.used \cup {id}
    BY <2>2
  <2>7. next.pairs \in UNION {[D -> Identities] : D \in SUBSET PositionIds}
        /\ DOMAIN next.pairs = DOMAIN acc.pairs \cup {id}
    <3>1. next.pairs \in UNION {[D -> Identities] : D \in SUBSET PositionIds}
      <4>1. acc.pairs \in UNION {[D -> Identities] : D \in SUBSET PositionIds}
            /\ row.inst \in Identities
        BY <2>3, <2>4
      <4>2. Paired(acc.pairs, id, row.inst) \in UNION {[D -> Identities] : D \in SUBSET PositionIds}
        BY <4>1, PairsGrow
      <4> QED
        BY <2>6, <4>2
    <3> QED
      BY <2>6, <3>1 DEF Paired
  <2>8. next \in [items: [PositionIds -> PositionRow \cup {NoRow}],
                  pairs: UNION {[D -> Identities] : D \in SUBSET PositionIds},
                  used: SUBSET PositionIds, clash: BOOLEAN]
    BY <2>2, <2>3, <2>5, <2>7
  <2>9. /\ next.items[id] = Lot(row)
        /\ \A k \in PositionIds : k # id => next.items[k] = acc.items[k]
        /\ Present(next.items) = Present(acc.items) \cup {id}
    BY <2>2, <2>3, <2>4, MigrationAssumption DEF Present
  <2>10. \A k \in Present(next.items) : table[next.items[k].inst] # NoRow
    <3> SUFFICES ASSUME NEW k \in Present(next.items) PROVE table[next.items[k].inst] # NoRow
      OBVIOUS
    <3>1. CASE k = id
      BY <1>2, <2>4, <2>9, <3>1
    <3>2. CASE k # id
      BY <2>3, <2>9, <3>2 DEF LotLoop, Present
    <3> QED
      BY <3>1, <3>2
  <2>11. DOMAIN next.pairs \subseteq Present(next.items) /\ next.used \subseteq Present(next.items)
    BY <2>3, <2>6, <2>7, <2>9
  <2>12. next \in LotLoop(table)
    BY <2>8, <2>10, <2>11 DEF LotLoop
  <2> QED
    BY <2>12 DEF next
<1> QED
  BY <1>1, <1>2

\* After the rows of t: what is used, and by which row; what is left alone;
\* and if an insert met its id, a lot was in the way.
LotsSoFar(s, t, a) ==
    /\ \A p \in PositionIds \ a.used : a.items[p] = positions[p]
    /\ \A p \in Present(positions) : positions[p].owner = Admin => p \in DOMAIN a.pairs
    /\ \A p \in DOMAIN a.pairs : ~a.clash /\ positions[p] # NoRow
         => positions[p].owner = Admin /\ a.pairs[p] = positions[p].inst
    /\ \A p \in a.used : ~a.clash /\ positions[p] # NoRow => Brought(p, s)
    /\ \A p \in a.used : ~a.clash => \E m \in t :
         /\ Source[s].positions[m].inst # Unresolved
         /\ \/ Source[s].positions[m].id = p
            \/ positions[p] # NoRow /\ SameLot(Source[s].positions[m], positions[p])
    /\ touched \/ \A p \in Present(a.items) : a.items[p].owner = Admin
    /\ touched \/ (a.clash => InTheWay(s))

\* An insert that meets its id, the first of the loop.
LEMMA MetInTheWay ==
    ASSUME LegacyInv, ~touched, NEW s \in Snapshots,
           NEW table \in Tables, Untouched(table),
           \A i \in Identities : instruments[i] # NoRow => table[i] # NoRow,
           NEW t \in SUBSET DOMAIN Source[s].positions,
           NEW k \in DOMAIN Source[s].positions, \A m \in t : m < k,
           NEW a \in LotLoop(table), LotsSoFar(s, t, a), ~a.clash,
           Source[s].positions[k].inst # Unresolved,
           LotMatch(a, Source[s].positions[k], table) = {},
           a.items[Source[s].positions[k].id] # NoRow
    PROVE  InTheWay(s)
<1> DEFINE row == Source[s].positions[k]
           p == row.id
           candidates == LotCandidates(a, row, table)
<1>1. /\ TypeOK /\ NothingDangles
      /\ \A q \in Present(positions) : positions[q].owner = Admin
  BY DEF LegacyInv, RowsAndFilesAgree, OnlyScripts
<1>2. row \in SourceLot /\ p \in PositionIds /\ row.inst \in Identities
  <2>1. Source[s].positions \in Seq(SourceLot)
    BY SourceAssumption DEF SourceLot
  <2>2. row \in SourceLot
    BY <2>1, RowOf
  <2> QED
    BY <2>2 DEF SourceLot
<1>3. positions[p] # NoRow
  <2>1. CASE p \notin a.used
    BY <1>2, <2>1 DEF LotsSoFar
  <2>2. CASE p \in a.used
    <3> SUFFICES ASSUME positions[p] = NoRow PROVE FALSE
      OBVIOUS
    <3>1. PICK m \in t : Source[s].positions[m].id = p
      BY <2>2 DEF LotsSoFar
    <3>2. m = k
      BY <3>1, SourceAssumption
    <3>3. k \in Nat /\ m < k
      BY SourceAssumption
    <3> QED
      BY <3>2, <3>3
  <2> QED
    BY <2>1, <2>2
<1>4. p \in Present(positions) /\ positions[p] \in PositionRow
  BY <1>1, <1>2, <1>3 DEF TypeOK, Present
<1>5. CASE ~SameLot(row, positions[p])
  BY <1>2, <1>3, <1>5 DEF InTheWay
<1>6. CASE SameLot(row, positions[p]) /\ p \in a.used
  <2>1. PICK m \in t :
          /\ Source[s].positions[m].inst # Unresolved
          /\ \/ Source[s].positions[m].id = p
             \/ SameLot(Source[s].positions[m], positions[p])
    BY <1>6 DEF LotsSoFar
  <2>2. m < k /\ m \in DOMAIN Source[s].positions
    OBVIOUS
  <2>3. Source[s].positions[m].id # p
    <3>1. k \in Nat
      BY SourceAssumption
    <3> QED
      BY <2>2, <3>1, SourceAssumption
  <2>4. SameLot(row, Source[s].positions[m])
    BY <1>6, <2>1, <2>3 DEF SameLot
  <2>5. m \in 1 .. k - 1
    <3>1. DOMAIN Source[s].positions = 1 .. Len(Source[s].positions)
          /\ Len(Source[s].positions) \in Nat
      BY SourceAssumption
    <3> QED
      BY <2>2, <3>1
  <2> QED
    BY <1>2, <1>3, <2>1, <2>4, <2>5 DEF InTheWay
<1>7. CASE SameLot(row, positions[p]) /\ p \notin a.used
  <2>1. \A q \in DOMAIN a.pairs : q \in PositionIds /\ q \in Present(a.items)
    BY DEF LotLoop, Present
  <2>2. p \in DOMAIN a.pairs /\ a.pairs[p] = positions[p].inst /\ a.items[p] = positions[p]
    BY <1>1, <1>2, <1>3, <1>4, <1>7 DEF LotsSoFar
  <2>3. table[positions[p].inst] # NoRow /\ positions[p].inst \in Identities
    BY <1>1, <1>2, <1>3, <1>4, RefersNow DEF PositionRow
  <2>4. table[a.pairs[p]] = "migration"
    BY <2>2, <2>3 DEF Tables, Untouched
  <2>5. p \in candidates
    BY <1>7, <2>2, <2>4 DEF LotCandidates, Candidates, SameLot
  <2>6. OnRow(a, row, table) = {} /\ Cardinality(candidates) # 1
    <3>1. OnRow(a, row, table) \subseteq candidates
      BY DEF OnRow
    <3>2. Match(candidates, OnRow(a, row, table)) = {}
      BY DEF LotMatch
    <3> HIDE DEF candidates
    <3> QED
      BY <2>5, <3>1, <3>2, MatchFacts
  <2>7. candidates # {p}
    <3> HIDE DEF candidates, p
    <3> QED
      BY <2>6, FS_Singleton
  <2>8. PICK q \in candidates : q # p
    BY <2>5, <2>7
  <2>9. q \in DOMAIN a.pairs /\ q \notin a.used /\ Symbol[a.pairs[q]] = Symbol[row.inst]
        /\ a.items[q].amount = row.amount
    BY LotMatchFacts
  <2>10. a.items[q] = positions[q] /\ q \in Present(positions)
    <3>1. a.items[q] = positions[q] /\ a.items[q] # NoRow /\ q \in PositionIds
      BY <2>1, <2>9 DEF LotsSoFar, Present
    <3> QED
      BY <1>1, <3>1 DEF TypeOK, Present
  <2>11. a.pairs[q] = positions[q].inst
    BY <2>9, <2>10 DEF LotsSoFar, Present
  <2>12. SameLot(row, positions[q])
    BY <2>9, <2>10, <2>11 DEF SameLot
  <2>13. row.inst # positions[q].inst /\ row.inst # positions[p].inst
    BY <2>2, <2>5, <2>6, <2>10 DEF OnRow
  <2> QED
    BY <1>2, <1>3, <1>4, <1>7, <2>8, <2>10, <2>12, <2>13 DEF InTheWay
<1> QED
  BY <1>5, <1>6, <1>7

\* What holds after the rows before k holds after k.
LEMMA LotsGoOn ==
    ASSUME LegacyInv, NEW s \in Snapshots,
           NEW table \in Tables, ~touched => Untouched(table),
           \A i \in Identities : instruments[i] # NoRow => table[i] # NoRow,
           NEW t \in SUBSET DOMAIN Source[s].positions,
           NEW k \in DOMAIN Source[s].positions, \A m \in t : m < k,
           NEW a \in LotLoop(table), LotsSoFar(s, t, a)
    PROVE  LotsSoFar(s, t \cup {k}, PositionStep(a, Source[s].positions[k], table))
<1> DEFINE row == Source[s].positions[k]
           next == PositionStep(a, row, table)
           match == LotMatch(a, row, table)
<1>1. row \in SourceLot
  <2>1. Source[s].positions \in Seq(SourceLot)
    BY SourceAssumption DEF SourceLot
  <2> QED
    BY <2>1, RowOf
<1>2. CASE row.inst = Unresolved
  <2>1. next = a
    BY <1>2 DEF PositionStep
  <2>2. LotsSoFar(s, t \cup {k}, a)
    BY DEF LotsSoFar
  <2> QED
    BY <2>1, <2>2
<1>3. CASE row.inst # Unresolved
  <2>1. PICK id \in PositionIds, clash \in BOOLEAN : LotTurn(a, row, table, id, clash)
    BY <1>1, <1>3, PositionStepIs
  <2>2. /\ match # {} => id \in match
        /\ match = {} => id = row.id
        /\ clash = (a.clash \/ (match = {} /\ a.items[row.id] # NoRow))
        /\ next = [items |-> [a.items EXCEPT ![id] = Lot(row)],
                   pairs |-> Paired(a.pairs, id, row.inst),
                   used |-> a.used \cup {id}, clash |-> clash]
    BY <2>1 DEF LotTurn
  <2>3. /\ next.items = [a.items EXCEPT ![id] = Lot(row)]
        /\ next.pairs = Paired(a.pairs, id, row.inst)
        /\ next.used = a.used \cup {id} /\ next.clash = clash
    BY <2>2
  <2>4. a.items \in [PositionIds -> PositionRow \cup {NoRow}]
        /\ DOMAIN a.pairs \subseteq Present(a.items) /\ a.used \subseteq Present(a.items)
        /\ a.clash \in BOOLEAN
    BY DEF LotLoop
  <2>5. match # {} =>
          /\ id \in DOMAIN a.pairs /\ id \notin a.used
          /\ Symbol[a.pairs[id]] = Symbol[row.inst] /\ a.items[id].amount = row.amount
    BY <2>2, LotMatchFacts
  <2> HIDE DEF next, match, row
  <2>6. next.items[id] = Lot(row) /\ \A p \in PositionIds : p # id => next.items[p] = a.items[p]
    BY <2>3, <2>4
  <2>7. a.clash => clash
    BY <2>2, <2>4
  <2>8. ASSUME match # {}, ~clash, positions[id] # NoRow
        PROVE  Brought(id, s) /\ SameLot(row, positions[id])
    <3>1. id \in DOMAIN a.pairs /\ id \notin a.used /\ ~a.clash
      BY <2>5, <2>7, <2>8
    <3>2. positions[id].owner = Admin /\ a.pairs[id] = positions[id].inst
      BY <2>8, <3>1 DEF LotsSoFar
    <3>3. a.items[id] = positions[id]
      BY <3>1 DEF LotsSoFar
    <3>4. positions[id].amount = row.amount /\ Symbol[positions[id].inst] = Symbol[row.inst]
      BY <2>5, <2>8, <3>2, <3>3
    <3> QED
      BY <3>2, <3>4 DEF Brought, SameLot, row
  <2>9. ASSUME match = {}, ~clash PROVE positions[id] = NoRow /\ id \notin DOMAIN a.pairs
    <3>1. a.items[id] = NoRow /\ id = row.id
      BY <2>2, <2>9
    <3>2. id \notin Present(a.items)
      BY <3>1 DEF Present
    <3> QED
      BY <2>4, <3>1, <3>2 DEF LotsSoFar
  <2>10. \A p \in PositionIds \ next.used : next.items[p] = positions[p]
    BY <2>3, <2>6 DEF LotsSoFar
  <2>11. \A p \in Present(positions) : positions[p].owner = Admin => p \in DOMAIN next.pairs
    BY <2>3 DEF LotsSoFar, Paired
  <2>12. ASSUME NEW p \in DOMAIN next.pairs
         PROVE  ~next.clash /\ positions[p] # NoRow
                  => positions[p].owner = Admin /\ next.pairs[p] = positions[p].inst
    <3>1. CASE p \in DOMAIN a.pairs
      <4>1. next.pairs[p] = a.pairs[p]
        BY <2>3, <3>1 DEF Paired
      <4> QED
        BY <2>3, <2>7, <3>1, <4>1 DEF LotsSoFar
    <3>2. CASE p \notin DOMAIN a.pairs
      <4>1. p = id
        BY <2>3, <2>12, <3>2 DEF Paired
      <4>2. match = {}
        BY <2>5, <3>2, <4>1
      <4>3. ~clash => positions[p] = NoRow
        BY <2>9, <4>1, <4>2
      <4> QED
        BY <2>3, <4>3
    <3> QED
      BY <3>1, <3>2
  <2>13. \A p \in next.used : ~next.clash /\ positions[p] # NoRow => Brought(p, s)
    BY <2>3, <2>7, <2>8, <2>9 DEF LotsSoFar
  <2>14. ASSUME NEW p \in next.used
         PROVE  ~next.clash => \E m \in t \cup {k} :
                  /\ Source[s].positions[m].inst # Unresolved
                  /\ \/ Source[s].positions[m].id = p
                     \/ positions[p] # NoRow /\ SameLot(Source[s].positions[m], positions[p])
    <3>1. CASE p \in a.used
      BY <2>3, <2>7, <3>1 DEF LotsSoFar
    <3>2. CASE p = id /\ match = {}
      BY <1>3, <2>2, <3>2 DEF row
    <3>3. CASE p = id /\ match # {}
      <4>1. clash \/ positions[id] # NoRow
        <5> SUFFICES ASSUME ~clash PROVE positions[id] # NoRow
          OBVIOUS
        <5>1. id \notin a.used /\ id \in Present(a.items)
          BY <2>4, <2>5, <3>3
        <5> QED
          BY <5>1 DEF LotsSoFar, Present
      <4> QED
        BY <1>3, <2>3, <2>8, <3>3, <4>1 DEF row
    <3> QED
      BY <2>3, <2>14, <3>1, <3>2, <3>3
  <2>15. touched \/ \A p \in Present(next.items) : next.items[p].owner = Admin
    <3> SUFFICES ASSUME ~touched, NEW p \in Present(next.items)
                 PROVE  next.items[p].owner = Admin
      OBVIOUS
    <3>1. CASE p = id
      BY <2>6, <3>1 DEF Lot
    <3>2. CASE p # id
      <4>1. p \in Present(a.items) /\ next.items[p] = a.items[p]
        BY <2>3, <2>4, <2>6, <3>2 DEF Present
      <4> QED
        BY <4>1 DEF LotsSoFar
    <3> QED
      BY <3>1, <3>2
  <2>16. touched \/ (next.clash => InTheWay(s))
    <3> SUFFICES ASSUME ~touched, clash PROVE InTheWay(s)
      BY <2>3
    <3>1. CASE a.clash
      BY <3>1 DEF LotsSoFar
    <3>2. CASE ~a.clash
      <4>1. match = {} /\ a.items[row.id] # NoRow
        BY <2>2, <3>2
      <4> QED
        BY <1>3, <3>2, <4>1, MetInTheWay DEF row, match
    <3> QED
      BY <3>1, <3>2
  <2>17. LotsSoFar(s, t \cup {k}, next)
    BY <2>10, <2>11, <2>12, <2>13, <2>14, <2>15, <2>16 DEF LotsSoFar
  <2> QED
    BY <2>17 DEF next, row
<1> QED
  BY <1>2, <1>3

LEMMA HeldFacts ==
    ASSUME LegacyInv, NEW s \in Snapshots
    PROVE  /\ Held(s, Ensured(s)) \in LotLoop(Ensured(s))
           /\ LotsSoFar(s, DOMAIN Source[s].positions, Held(s, Ensured(s)))
<1> DEFINE table == Ensured(s)
           D == DOMAIN Source[s].positions
           A == LotLoop(table)
           I == [t \in SUBSET D |-> {a \in A : LotsSoFar(s, t, a)}]
<1>1. TypeOK /\ NothingDangles
      /\ (touched \/ /\ \A i \in Identities : instruments[i] # "user"
                     /\ \A p \in Present(positions) : positions[p].owner = Admin)
  BY DEF LegacyInv, RowsAndFilesAgree, OnlyScripts
<1>2. table \in Tables /\ \A i \in Identities : instruments[i] # NoRow => table[i] # NoRow
  BY <1>1, EnsuredFacts
<1>3. ~touched => Untouched(table)
  BY <1>1, EnsuredFacts DEF Untouched
<1>4. LotsAtFirst \in A
  <2> DEFINE mine == {p \in Present(positions) : positions[p].owner = Admin}
  <2>1. positions \in [PositionIds -> PositionRow \cup {NoRow}]
    BY <1>1 DEF TypeOK
  <2>2. Present(positions) \subseteq PositionIds
        /\ \A k \in Present(positions) : positions[k].inst \in Identities
    BY <2>1 DEF Present, PositionRow
  <2>3. [k \in mine |-> positions[k].inst] \in [mine -> Identities] /\ mine \in SUBSET PositionIds
    BY <2>2
  <2>4. \A k \in Present(positions) : table[positions[k].inst] # NoRow
    BY <1>1, <1>2, <2>2, RefersNow DEF Present
  <2> HIDE DEF table
  <2>5. [k \in mine |-> positions[k].inst] \in UNION {[E -> Identities] : E \in SUBSET PositionIds}
    BY <2>3
  <2>6. LotsAtFirst \in [items: [PositionIds -> PositionRow \cup {NoRow}],
                         pairs: UNION {[E -> Identities] : E \in SUBSET PositionIds},
                         used: SUBSET PositionIds, clash: BOOLEAN]
    BY <2>1, <2>5 DEF LotsAtFirst
  <2> QED
    BY <2>4, <2>6 DEF LotsAtFirst, LotLoop
<1>5. LotsSoFar(s, {}, LotsAtFirst)
  <2>1. /\ LotsAtFirst.items = positions /\ LotsAtFirst.used = {} /\ ~LotsAtFirst.clash
        /\ DOMAIN LotsAtFirst.pairs = {p \in Present(positions) : positions[p].owner = Admin}
        /\ \A p \in DOMAIN LotsAtFirst.pairs : LotsAtFirst.pairs[p] = positions[p].inst
    BY DEF LotsAtFirst
  <2> QED
    BY <1>1, <2>1 DEF LotsSoFar
<1>6. ASSUME NEW a \in A, NEW k \in D
      PROVE  PositionStep(a, Source[s].positions[k], table) \in A
  <2>1. Source[s].positions[k] \in SourceLot
        /\ (Source[s].positions[k].inst # Unresolved => table[Source[s].positions[k].inst] # NoRow)
    BY <1>1, EnsuredFacts DEF SourceLot
  <2> QED
    BY <1>2, <2>1, PositionStepKeeps
<1>7. LotsAtFirst \in I[{}] /\ I \in [SUBSET D -> SUBSET A]
  BY <1>4, <1>5
<1>8. ASSUME NEW t \in (SUBSET D) \ {{}}, NEW a \in I[t \ {Max(t)}]
      PROVE  PositionStep(a, Source[s].positions[Max(t)], table) \in I[t]
  <2>1. Max(t) \in t /\ \A m \in t : m <= Max(t)
    <3>1. D = 1 .. Len(Source[s].positions) /\ Len(Source[s].positions) \in Nat
      BY SourceAssumption
    <3> QED
      BY <3>1, LastRow
  <2>2. D \subseteq Nat
    BY SourceAssumption
  <2> DEFINE u == t \ {Max(t)}
             k == Max(t)
  <2>3. u \in SUBSET D /\ k \in D /\ u \cup {k} = t /\ \A m \in u : m < k
    BY <2>1, <2>2
  <2>4. a \in A /\ LotsSoFar(s, u, a)
    BY <1>8, <2>3
  <2> HIDE DEF u, k, D, table
  <2>5. LotsSoFar(s, u \cup {k}, PositionStep(a, Source[s].positions[k], table))
    BY <1>2, <1>3, <2>3, <2>4, LotsGoOn DEF D
  <2> QED
    BY <1>6, <2>3, <2>4, <2>5 DEF k
<1> HIDE DEF A, I, table
<1>9. Held(s, table) \in I[D]
  BY <1>4, <1>6, <1>7, <1>8, HeldStays
<1> QED
  BY <1>9 DEF I, A, table

-----------------------------------------------------------------------------
(* The loop over the tasks, and the import                                 *)

LEMMA ScheduledFacts ==
    ASSUME TypeOK, NEW s \in Snapshots
    PROVE  Scheduled(s) \in [TaskIds -> TaskRow \cup {NoRow}]
<1> DEFINE A == [items: [TaskIds -> TaskRow \cup {NoRow}], claimed: SUBSET TaskIds]
<1>1. TasksAtFirst \in A
  BY DEF TasksAtFirst, TypeOK
<1>2. ASSUME NEW a \in A, NEW k \in DOMAIN Source[s].tasks
      PROVE  TaskRowStep(a, Source[s].tasks[k]) \in A
  <2> DEFINE row == Source[s].tasks[k]
             named == {t \in Present(a.items) \ a.claimed : a.items[t].name = row.name}
             id == IF a.items[row.id] # NoRow THEN row.id
                   ELSE IF Cardinality(named) = 1 THEN CHOOSE t \in named : TRUE
                   ELSE row.id
  <2>1. row \in TaskSource
    BY SourceAssumption, RowOf
  <2>2. row.id \in TaskIds /\ [name |-> row.name, def |-> row.def] \in TaskRow
    BY <2>1 DEF TaskSource, TaskRow
  <2>3. named \subseteq TaskIds
    BY DEF Present
  <2>4. Cardinality(named) = 1 => named # {}
    <3> HIDE DEF named
    <3> QED
      BY FS_EmptySet
  <2>5. id \in TaskIds
    <3> HIDE DEF named, row
    <3> QED
      BY <2>2, <2>3, <2>4
  <2>6. TaskRowStep(a, row) =
          [items |-> IF a.items[id] # NoRow THEN a.items
                     ELSE [a.items EXCEPT ![id] = [name |-> row.name, def |-> row.def]],
           claimed |-> a.claimed \cup {id}]
    BY DEF TaskRowStep
  <2> HIDE DEF id, row
  <2>7. TaskRowStep(a, row) \in A
    BY <2>2, <2>5, <2>6
  <2> QED
    BY <2>7 DEF row
<1> HIDE DEF A
<1>3. PICK a \in A : Scheduled(s) = a.items
  <2>1. Scheduled(s) \in {a.items : a \in A}
    BY <1>1, <1>2, ScheduledStays
  <2> QED
    BY <2>1
<1> QED
  BY <1>3 DEF A

\* The clean-up takes no instrument anything refers to.
LEMMA ImportKeepsTypes ==
    ASSUME LegacyInv, NEW s \in Snapshots, Import(s)
    PROVE  TypeOK' /\ NothingDangles'
<1> DEFINE table == Ensured(s)
           w == Watched(s, table).items
           p == Held(s, table).items
<1>1. TypeOK /\ NothingDangles
  BY DEF LegacyInv, RowsAndFilesAgree
<1>2. /\ instruments' = Swept(table, w, p) /\ watch' = w /\ positions' = p
      /\ reports' = Merged(s) /\ tasks' = Scheduled(s)
      /\ listed' \in {Orphans(Merged(s), s), {}}
      /\ last' = s /\ imports' = imports + 1 /\ imports + repairs < MaxScripts
      /\ UNCHANGED <<linked, place, writing, raced, touched, byHand, edits, repairs>>
  BY DEF Import, Script
<1>3. table \in Tables
  BY <1>1, EnsuredFacts
<1>4. w \in [WatchIds -> Identities \cup {NoRow}] /\ \A k \in Present(w) : table[w[k]] # NoRow
  BY <1>1, WatchedFacts DEF StockLoop
<1>5. p \in [PositionIds -> PositionRow \cup {NoRow}]
      /\ \A k \in Present(p) : table[p[k].inst] # NoRow
  BY HeldFacts DEF LotLoop
<1>6. \A i \in linked : i \in Identities /\ table[i] # NoRow
  BY <1>1, RefersNow, EnsuredFacts DEF TypeOK
<1> HIDE DEF table, w, p
<1>7. instruments' \in Tables
      /\ \A i \in Identities : i \in Referenced(w, p) => instruments'[i] = table[i]
  BY <1>2, <1>3 DEF Swept, Tables
<1>8. reports' \in [Reports -> ReportRow \cup {NoRow}]
  <2>1. \A r \in Reports : [owner |-> Admin, shared |-> TRUE, ok |-> OnDisk(r)] \in ReportRow
    BY DEF ReportRow, Owners, OnDisk
  <2> QED
    BY <1>1, <1>2, <2>1 DEF Merged, TypeOK
<1>9. tasks' \in [TaskIds -> TaskRow \cup {NoRow}]
  BY <1>1, <1>2, ScheduledFacts
<1>10. listed' \subseteq Reports
  BY <1>2 DEF Orphans
<1>11. imports' \in Nat /\ repairs' \in Nat /\ imports' + repairs' <= MaxScripts
  BY <1>1, <1>2, MigrationAssumption DEF TypeOK
<1>12. TypeOK'
  BY <1>1, <1>2, <1>4, <1>5, <1>7, <1>8, <1>9, <1>10, <1>11 DEF TypeOK, Tables
<1>13. NothingDangles'
  <2>1. \A k \in WatchIds : w[k] # NoRow => w[k] \in Identities /\ w[k] \in Referenced(w, p)
    BY <1>4 DEF Referenced, Present
  <2>2. \A k \in PositionIds : p[k] # NoRow => p[k].inst \in Identities /\ p[k].inst \in Referenced(w, p)
    BY <1>5 DEF Referenced, Present, PositionRow
  <2>3. \A i \in linked : i \in Referenced(w, p)
    BY DEF Referenced
  <2>4. \A k \in WatchIds : w[k] # NoRow => instruments'[w[k]] # NoRow
    BY <1>4, <1>7, <2>1 DEF Present
  <2>5. \A k \in PositionIds : p[k] # NoRow => instruments'[p[k].inst] # NoRow
    BY <1>5, <1>7, <2>2 DEF Present
  <2>6. \A i \in linked : instruments'[i] # NoRow
    BY <1>6, <1>7, <2>3
  <2> QED
    BY <1>2, <1>12, <2>4, <2>5, <2>6, RefersNext
<1> QED
  BY <1>12, <1>13

LEMMA ImportKeeps ==
    ASSUME LegacyInv, NEW s \in Snapshots, Import(s)
    PROVE  LegacyInv'
<1>1. TypeOK' /\ NothingDangles'
  BY ImportKeepsTypes
<1>2. TypeOK /\ QuarantineSparesReports /\ listed = {}
  BY DEF LegacyInv, RowsAndFilesAgree, Import
<1>3. \A r \in Reports : OnDisk(r)' <=> OnDisk(r)
  BY DEF Import, OnDisk
<1>4. QuarantineSparesReports'
  <2> SUFFICES ASSUME NEW r \in Reports, reports'[r] # NoRow, reports'[r].ok, ~OnDisk(r)
               PROVE  r \in raced'
    BY <1>1, <1>3 DEF QuarantineSparesReports, Present, TypeOK
  <2>1. CASE r \in Source[s].reports
    BY <2>1 DEF Import, Merged
  <2>2. CASE r \notin Source[s].reports
    BY <1>2, <2>2 DEF Import, Merged, QuarantineSparesReports, Present, TypeOK
  <2> QED
    BY <2>1, <2>2
<1>5. ListedBefore'
  BY DEF Import, ListedBefore, Orphans
<1>6. OnlyScripts'
  <2> SUFFICES ASSUME ~touched
               PROVE  /\ \A i \in Identities : instruments'[i] # "user"
                      /\ \A p \in Present(positions') : positions'[p].owner = Admin
                      /\ OneItemASymbol'
    BY DEF OnlyScripts, Import
  <2> DEFINE table == Ensured(s)
             w == Watched(s, table)
             p == Held(s, table)
  <2>1. Untouched(table) /\ w \in QuietStocks(table) /\ LotsSoFar(s, DOMAIN Source[s].positions, p)
    BY WatchedQuiet, HeldFacts
  <2>2. instruments' = Swept(table, w.items, p.items) /\ watch' = w.items /\ positions' = p.items
    BY DEF Import
  <2> HIDE DEF table, w, p
  <2>3. \A i \in Identities : instruments'[i] # "user"
    BY <2>1, <2>2, MigrationAssumption DEF Swept, Untouched
  <2>4. \A q \in Present(positions') : positions'[q].owner = Admin
    BY <2>1, <2>2 DEF LotsSoFar
  <2>5. OneItemASymbol'
    BY <2>1, <2>2 DEF OneItemASymbol, QuietStocks, Present
  <2> QED
    BY <2>3, <2>4, <2>5
<1> QED
  BY <1>1, <1>4, <1>5, <1>6 DEF LegacyInv, RowsAndFilesAgree

LEMMA RepairKeeps ==
    ASSUME LegacyInv, NEW s \in Snapshots, Repair(s)
    PROVE  LegacyInv'
<1> DEFINE rows == [r \in Reports |->
                      IF reports[r] # NoRow /\ reports[r].owner = Tester THEN NoRow
                      ELSE reports[r]]
           p == WithoutTests(positions)
           tested == {positions[k].inst : k \in {q \in Present(positions) :
                                                   positions[q].owner = Tester}}
<1>1. TypeOK /\ NothingDangles /\ OnlyScripts
  BY DEF LegacyInv, RowsAndFilesAgree
<1>2. /\ positions' = p
      /\ instruments' = [i \in Identities |->
                           IF i \in tested \ Referenced(watch, p) THEN NoRow ELSE instruments[i]]
      /\ reports' = [r \in Reports |->
                       IF rows[r] = NoRow THEN NoRow
                       ELSE [owner  |-> IF r \in Source[s].reports THEN Admin ELSE rows[r].owner,
                             shared |-> r \in Source[s].reports \/ rows[r].shared,
                             ok     |-> place[r] = "reports"]]
      /\ tasks' \in [TaskIds -> TaskRow \cup {NoRow}]
      /\ last' = NoSnapshot /\ repairs' = repairs + 1 /\ imports + repairs < MaxScripts
      /\ UNCHANGED <<watch, linked, writing, listed, raced, touched, byHand, edits, imports>>
      /\ listed = {}
  BY DEF Repair, Script
<1>3. PICK deleted \in BOOLEAN :
         place' = [r \in Reports |->
                     IF deleted /\ rows[r] # reports[r] /\ place[r] = "reports"
                     THEN "none" ELSE place[r]]
  BY DEF Repair
<1>4. \A k \in PositionIds : p[k] \in {positions[k], NoRow}
  BY DEF WithoutTests
<1>5. p \in [PositionIds -> PositionRow \cup {NoRow}]
  BY <1>1, <1>4 DEF WithoutTests, TypeOK
<1>6. \A r \in Reports : rows[r] = NoRow \/ (rows[r] = reports[r] /\ rows[r] \in ReportRow)
  BY <1>1 DEF TypeOK
<1> HIDE DEF p, rows, tested
<1>7. reports' \in [Reports -> ReportRow \cup {NoRow}]
  <2> SUFFICES ASSUME NEW r \in Reports, rows[r] # NoRow
               PROVE  [owner  |-> IF r \in Source[s].reports THEN Admin ELSE rows[r].owner,
                       shared |-> r \in Source[s].reports \/ rows[r].shared,
                       ok     |-> place[r] = "reports"] \in ReportRow
    BY <1>2
  <2>1. rows[r].owner \in Owners /\ rows[r].shared \in BOOLEAN
    BY <1>6 DEF ReportRow
  <2> QED
    BY <2>1 DEF ReportRow, Owners
<1>8. instruments' \in [Identities -> {NoRow, "migration", "user"}]
  BY <1>1, <1>2 DEF TypeOK
<1>9. place' \in [Reports -> {"none", "reports", "data", "orphaned"}]
  BY <1>1, <1>3 DEF TypeOK
<1>10. imports' \in Nat /\ repairs' \in Nat /\ imports' + repairs' <= MaxScripts
  BY <1>1, <1>2, MigrationAssumption DEF TypeOK
<1>11. TypeOK'
  BY <1>1, <1>2, <1>5, <1>7, <1>8, <1>9, <1>10 DEF TypeOK
<1>12. NothingDangles'
  <2>1. \A i \in Identities : i \in Referenced(watch, p) => instruments'[i] = instruments[i]
    BY <1>2
  <2>2. \A k \in WatchIds : watch[k] # NoRow => watch[k] \in Identities /\ watch[k] \in Referenced(watch, p)
    BY <1>1 DEF Referenced, Present, TypeOK
  <2>3. \A k \in PositionIds : p[k] # NoRow =>
          p[k] = positions[k] /\ p[k].inst \in Identities /\ p[k].inst \in Referenced(watch, p)
    BY <1>4, <1>5 DEF Referenced, Present, PositionRow
  <2>4. \A i \in linked : i \in Identities /\ i \in Referenced(watch, p)
    BY <1>1 DEF Referenced, TypeOK
  <2>5. \A k \in WatchIds : watch[k] # NoRow => instruments'[watch[k]] # NoRow
    BY <1>1, <2>1, <2>2, RefersNow
  <2>6. \A k \in PositionIds : p[k] # NoRow => instruments'[p[k].inst] # NoRow
    BY <1>1, <2>1, <2>3, RefersNow
  <2>7. \A i \in linked : instruments'[i] # NoRow
    BY <1>1, <2>1, <2>4, RefersNow
  <2> QED
    BY <1>2, <1>11, <2>5, <2>6, <2>7, RefersNext
<1>13. QuarantineSparesReports'
  <2> SUFFICES ASSUME NEW r \in Reports, reports'[r] # NoRow, reports'[r].ok
               PROVE  OnDisk(r)'
    BY <1>11 DEF QuarantineSparesReports, Present, TypeOK
  <2>1. rows[r] # NoRow /\ place[r] = "reports"
    BY <1>2
  <2>2. rows[r] = reports[r]
    BY <1>6, <2>1
  <2> QED
    BY <1>3, <2>1, <2>2 DEF OnDisk
<1>14. ListedBefore'
  BY <1>2 DEF ListedBefore
<1>15. OnlyScripts'
  <2> SUFFICES ASSUME ~touched
               PROVE  /\ \A i \in Identities : instruments'[i] # "user"
                      /\ \A k \in Present(positions') : positions'[k].owner = Admin
                      /\ OneItemASymbol'
    BY <1>2 DEF OnlyScripts
  <2>1. OneItemASymbol'
    BY <1>1, <1>2 DEF OnlyScripts, OneItemASymbol, Present
  <2>2. \A i \in Identities : instruments'[i] # "user"
    BY <1>1, <1>2, MigrationAssumption DEF OnlyScripts
  <2>3. \A k \in Present(positions') : positions'[k].owner = Admin
    BY <1>1, <1>2, <1>4, <1>5 DEF OnlyScripts, Present, TypeOK
  <2> QED
    BY <2>1, <2>2, <2>3
<1> QED
  BY <1>11, <1>12, <1>13, <1>14, <1>15 DEF LegacyInv, RowsAndFilesAgree

-----------------------------------------------------------------------------
(* Theorems                                                                *)

LEMMA LegacyStep == LegacyInv /\ [Next]_vars => LegacyInv'
<1> SUFFICES ASSUME LegacyInv, [Next]_vars PROVE LegacyInv'
  OBVIOUS
<1>1. CASE Users
  BY <1>1, UsersKeep
<1>2. CASE \E s \in Snapshots : Import(s) \/ Repair(s)
  BY <1>2, ImportKeeps, RepairKeeps
<1>3. CASE Quarantine
  BY <1>3, QuarantineKeeps
<1>4. CASE UNCHANGED vars
  <2>1. TypeOK'
    BY <1>4 DEF LegacyInv, RowsAndFilesAgree, TypeOK, vars
  <2>2. UNCHANGED <<holdings, touched>> /\ UNCHANGED papers
    BY <1>4 DEF vars, holdings, papers
  <2> QED
    BY <2>1, <2>2, HoldingsStay, PapersStay DEF LegacyInv, RowsAndFilesAgree
<1> QED
  BY <1>1, <1>2, <1>3, <1>4 DEF Next

\* The invariant of the migration: what the tables, the files and the list of
\* the quarantine keep, and what holds as long as only the scripts wrote.
THEOREM LegacySafety == Spec => []LegacyInv
<1> QED
  BY LegacyBegins, LegacyStep, PTL DEF Spec

\* Whatever imports, repairs and users did, in any order: every row refers to
\* an instrument that exists (the clean-up of import_sqlite.py), and no file of
\* a report was quarantined unless its row was committed while it was listed.
THEOREM LegacyRowsAndFiles == Spec => []RowsAndFilesAgree
<1>1. LegacyInv => RowsAndFilesAgree
  BY DEF LegacyInv
<1> QED
  BY <1>1, LegacySafety, PTL

\* As long as users leave positions alone and enter no symbol by hand, the
\* unique indexes of watchlist and positions refuse no import, except where a
\* lot brought before is in the way of a row.
THEOREM LegacyOnlyUsersBlock == Spec => []OnlyUsersBlockImports
<1>1. LegacyInv => OnlyUsersBlockImports
  <2> SUFFICES ASSUME LegacyInv, ~touched, NEW s \in Snapshots, Clash(s) PROVE InTheWay(s)
    BY DEF OnlyUsersBlockImports
  <2> DEFINE table == Ensured(s)
             w == Watched(s, table)
  <2>1. w \in QuietStocks(table)
    BY WatchedQuiet
  <2>2. LotsSoFar(s, DOMAIN Source[s].positions, Held(s, table))
    BY HeldFacts
  <2>3. w.clash \/ Held(s, table).clash
          \/ \E k, m \in Present(w.items) : k # m /\ w.items[k] = w.items[m]
    BY DEF Clash
  <2> HIDE DEF table, w
  <2> QED
    BY <2>1, <2>2, <2>3 DEF QuietStocks, LotsSoFar
<1> QED
  BY <1>1, LegacySafety, PTL

-----------------------------------------------------------------------------
(* What the scripts leave alone                                            *)

\* A stock moves an item only from an instrument the scripts brought.
StocksSoFar(a, table) ==
    \A w \in Present(watch) :
      /\ w \in DOMAIN a.pairs /\ a.pairs[w] = watch[w]
      /\ ~a.clash /\ a.items[w] # watch[w]
           => table[watch[w]] = "migration" /\ Symbol[a.items[w]] = Symbol[watch[w]]

LEMMA StocksGoOn ==
    ASSUME TypeOK, NEW table \in Tables, NEW acc \in StockLoop(table), StocksSoFar(acc, table),
           NEW row \in [inst: Identities \cup {Unresolved}],
           row.inst # Unresolved => table[row.inst] # NoRow
    PROVE  StocksSoFar(WatchRow(acc, row, table), table)
<1>1. CASE row.inst = Unresolved
  BY <1>1 DEF WatchRow
<1>2. CASE row.inst # Unresolved
  <2> DEFINE next == WatchRow(acc, row, table)
             match == WatchMatch(acc, row, table)
             stable == <<row.inst, table[row.inst]>>
  <2>1. PICK id \in WatchIds, clash \in BOOLEAN : WatchTurn(acc, row, table, id, clash)
    BY <1>2, WatchRowIs
  <2>2. /\ match # {} => id \in match /\ id \in DOMAIN acc.pairs
        /\ match = {} => id = stable
        /\ clash = (acc.clash \/ (match = {} /\ acc.items[stable] # NoRow))
        /\ next = [items |-> [acc.items EXCEPT ![id] = row.inst],
                   pairs |-> Paired(acc.pairs, id, row.inst), clash |-> clash]
    BY <2>1 DEF WatchTurn
  <2>3. match # {} => table[acc.pairs[id]] = "migration" /\ Symbol[acc.pairs[id]] = Symbol[row.inst]
    BY <2>2, MatchFacts DEF WatchMatch, Candidates
  <2>4. /\ next.items = [acc.items EXCEPT ![id] = row.inst]
        /\ next.pairs = Paired(acc.pairs, id, row.inst) /\ next.clash = clash
    BY <2>2
  <2>5. acc.items \in [WatchIds -> Identities \cup {NoRow}] /\ DOMAIN acc.pairs = Present(acc.items)
        /\ acc.clash \in BOOLEAN /\ Present(watch) \subseteq WatchIds
    BY DEF StockLoop, Present, TypeOK
  <2> HIDE DEF next, match, stable
  <2>6. ASSUME NEW w \in Present(watch)
        PROVE  /\ w \in DOMAIN next.pairs /\ next.pairs[w] = watch[w]
               /\ ~next.clash /\ next.items[w] # watch[w]
                    => table[watch[w]] = "migration" /\ Symbol[next.items[w]] = Symbol[watch[w]]
    <3>1. w \in DOMAIN acc.pairs /\ acc.pairs[w] = watch[w] /\ w \in WatchIds
      BY <2>5, <2>6 DEF StocksSoFar
    <3>2. w \in DOMAIN next.pairs /\ next.pairs[w] = watch[w]
      BY <2>4, <3>1 DEF Paired
    <3>3. CASE w # id
      <4>1. next.items[w] = acc.items[w]
        BY <2>4, <2>5, <3>1, <3>3
      <4>2. acc.clash => next.clash
        BY <2>2, <2>4, <2>5
      <4> QED
        BY <2>6, <3>2, <4>1, <4>2 DEF StocksSoFar
    <3>4. CASE w = id /\ match # {}
      <4>1. next.items[w] = row.inst
        BY <2>4, <2>5, <3>4
      <4> QED
        BY <2>3, <3>1, <3>2, <3>4, <4>1
    <3>5. CASE w = id /\ match = {}
      <4>1. acc.items[w] # NoRow /\ w = stable
        BY <2>2, <2>5, <3>1, <3>5 DEF Present
      <4>2. next.clash
        BY <2>2, <2>4, <3>5, <4>1
      <4> QED
        BY <3>2, <4>2
    <3> QED
      BY <3>3, <3>4, <3>5
  <2>7. StocksSoFar(next, table)
    BY <2>6 DEF StocksSoFar
  <2> QED
    BY <2>7 DEF next
<1> QED
  BY <1>1, <1>2

LEMMA ImportSpares ==
    ASSUME LegacyInv, NEW s \in Snapshots, Import(s)
    PROVE  /\ \A p \in Present(positions) : positions'[p] = positions[p] \/ Brought(p, s)
           /\ \A w \in Present(watch) : watch'[w] = watch[w] \/
                /\ instruments[watch[w]] = "migration"
                /\ watch'[w] # NoRow /\ Symbol[watch'[w]] = Symbol[watch[w]]
<1> DEFINE table == Ensured(s)
           A == {a \in StockLoop(table) : StocksSoFar(a, table)}
           w == Watched(s, table)
           p == Held(s, table)
<1>1. TypeOK /\ NothingDangles
  BY DEF LegacyInv, RowsAndFilesAgree
<1>2. table \in Tables /\ \A i \in Identities : instruments[i] # NoRow => table[i] = instruments[i]
  BY <1>1, EnsuredFacts
<1>3. watch' = w.items /\ positions' = p.items /\ ~w.clash /\ ~p.clash
  BY DEF Import, Clash
<1>4. p \in LotLoop(table) /\ LotsSoFar(s, DOMAIN Source[s].positions, p)
  BY HeldFacts
<1>5. ASSUME NEW q \in Present(positions)
      PROVE  positions'[q] = positions[q] \/ Brought(q, s)
  <2>1. q \in PositionIds /\ positions[q] # NoRow
    BY <1>1 DEF Present, TypeOK
  <2> HIDE DEF p, table
  <2> QED
    BY <1>3, <1>4, <2>1 DEF LotsSoFar
<1>6. StocksAtFirst \in A
  <2>1. watch \in [WatchIds -> Identities \cup {NoRow}]
    BY <1>1 DEF TypeOK
  <2>2. Present(watch) \subseteq WatchIds /\ \A k \in Present(watch) : watch[k] \in Identities
    BY <2>1 DEF Present
  <2>3. [k \in Present(watch) |-> watch[k]] \in [Present(watch) -> Identities]
    BY <2>2
  <2>4. \A k \in Present(watch) : table[watch[k]] # NoRow
    BY <1>1, <1>2, <2>1, <2>2, RefersNow DEF Present
  <2> HIDE DEF table
  <2>5. StocksAtFirst \in StockLoop(table)
    BY <2>1, <2>2, <2>3, <2>4 DEF StocksAtFirst, StockLoop
  <2>6. StocksSoFar(StocksAtFirst, table)
    BY DEF StocksAtFirst, StocksSoFar
  <2> QED
    BY <2>5, <2>6
<1>7. ASSUME NEW a \in A, NEW k \in DOMAIN Source[s].stocks
      PROVE  WatchRow(a, Source[s].stocks[k], table) \in A
  <2>1. Source[s].stocks[k] \in [inst: Identities \cup {Unresolved}]
        /\ (Source[s].stocks[k].inst # Unresolved => table[Source[s].stocks[k].inst] # NoRow)
    BY <1>1, EnsuredFacts
  <2> HIDE DEF table
  <2> QED
    BY <1>1, <1>2, <2>1, WatchRowKeeps, StocksGoOn
<1>8. w \in A
  <2> HIDE DEF A, table
  <2> QED
    BY <1>6, <1>7, WatchedStays
<1>9. ASSUME NEW k \in Present(watch)
      PROVE  watch'[k] = watch[k] \/
               /\ instruments[watch[k]] = "migration"
               /\ watch'[k] # NoRow /\ Symbol[watch'[k]] = Symbol[watch[k]]
  <2>1. watch[k] \in Identities /\ instruments[watch[k]] # NoRow
    BY <1>1, RefersNow DEF Present, TypeOK
  <2>2. table[watch[k]] = instruments[watch[k]]
    BY <1>2, <2>1
  <2> HIDE DEF table, w
  <2>3. k \in DOMAIN w.pairs /\ DOMAIN w.pairs = Present(w.items)
        /\ (w.items[k] = watch[k]
              \/ (table[watch[k]] = "migration" /\ Symbol[w.items[k]] = Symbol[watch[k]]))
    BY <1>3, <1>8 DEF StocksSoFar, StockLoop
  <2>4. w.items[k] # NoRow
    BY <2>3 DEF Present
  <2> QED
    BY <1>3, <2>2, <2>3, <2>4
<1> QED
  BY <1>5, <1>9

LEMMA RepairSpares ==
    ASSUME LegacyInv, NEW s \in Snapshots, Repair(s)
    PROVE  /\ NoTestAccounts' /\ NoFalseOk'
           /\ \A t, u \in Present(tasks') : tasks'[t] = tasks'[u] => t = u
<1> DEFINE rows == [r \in Reports |->
                      IF reports[r] # NoRow /\ reports[r].owner = Tester THEN NoRow
                      ELSE reports[r]]
<1>1. TypeOK
  BY DEF LegacyInv, RowsAndFilesAgree
<1>2. /\ positions' = WithoutTests(positions)
      /\ reports' = [r \in Reports |->
                       IF rows[r] = NoRow THEN NoRow
                       ELSE [owner  |-> IF r \in Source[s].reports THEN Admin ELSE rows[r].owner,
                             shared |-> r \in Source[s].reports \/ rows[r].shared,
                             ok     |-> place[r] = "reports"]]
  BY DEF Repair
<1>3. PICK deleted \in BOOLEAN :
         place' = [r \in Reports |->
                     IF deleted /\ rows[r] # reports[r] /\ place[r] = "reports"
                     THEN "none" ELSE place[r]]
  BY DEF Repair
<1>4. \A r \in Reports : rows[r] = NoRow \/ (rows[r] = reports[r] /\ rows[r].owner # Tester)
  BY <1>1 DEF TypeOK
<1> HIDE DEF rows
<1>5. \A k \in Present(positions') : positions'[k].owner # Tester
  BY <1>2 DEF WithoutTests, Present
<1>6. ASSUME NEW r \in Present(reports')
      PROVE  reports'[r].owner # Tester /\ (reports'[r].ok => OnDisk(r)')
  <2>1. r \in Reports /\ rows[r] # NoRow
    BY <1>2, <1>6 DEF Present
  <2>2. rows[r] = reports[r] /\ rows[r].owner # Tester
    BY <1>4, <2>1
  <2>3. reports'[r].owner # Tester /\ (reports'[r].ok => place[r] = "reports")
    BY <1>2, <2>1, <2>2, MigrationAssumption
  <2>4. place'[r] = place[r]
    BY <1>3, <2>1, <2>2
  <2> QED
    BY <2>3, <2>4 DEF OnDisk
<1>7. \A t, u \in Present(tasks') : tasks'[t] = tasks'[u] => t = u
  BY DEF Repair, Deduped
<1> QED
  BY <1>5, <1>6, <1>7 DEF NoTestAccounts, NoFalseOk

\* What the scripts do not bring they leave alone: positions of others and
\* those entered by hand, items of the watchlist on a user's instrument; and
\* a repair leaves no test account's row and no status without its file.
THEOREM LegacySparesUsers == Spec => ScriptsSpareUsers
<1>1. ASSUME LegacyInv, [Next]_vars
      PROVE  /\ Imported => \E s \in Snapshots : Import(s) /\ last' = s
             /\ Repaired => \E s \in Snapshots : Repair(s)
  <2>1. imports \in Nat /\ repairs \in Nat
    BY <1>1 DEF LegacyInv, RowsAndFilesAgree, TypeOK
  <2>2. CASE Users
    <3>1. UNCHANGED scripts
      BY <2>2 DEF Users, AddPosition, EditPosition, DeletePosition, AddWatch, DeleteWatch, Link,
                  PutTask, StartSave, FinishSave, DeleteReport
    <3> QED
      BY <2>1, <3>1 DEF scripts, Imported, Repaired
  <2>3. CASE Quarantine \/ UNCHANGED vars
    BY <2>1, <2>3 DEF Quarantine, vars, scripts, Imported, Repaired
  <2>4. ASSUME NEW s \in Snapshots, Import(s)
        PROVE  last' = s /\ ~Repaired
    BY <2>1, <2>4 DEF Import, Repaired
  <2>5. ASSUME NEW s \in Snapshots, Repair(s)
        PROVE  ~Imported
    BY <2>1, <2>5 DEF Repair, Imported
  <2> QED
    BY <1>1, <2>2, <2>3, <2>4, <2>5 DEF Next
<1> DEFINE Kept ==
      /\ Imported =>
           /\ \A p \in Present(positions) : positions'[p] = positions[p] \/ Brought(p, last')
           /\ \A w \in Present(watch) : watch'[w] = watch[w] \/
                /\ instruments[watch[w]] = "migration"
                /\ watch'[w] # NoRow /\ Symbol[watch'[w]] = Symbol[watch[w]]
      /\ Repaired =>
           /\ NoTestAccounts' /\ NoFalseOk'
           /\ \A t, u \in Present(tasks') : tasks'[t] = tasks'[u] => t = u
<1>2. LegacyInv /\ [Next]_vars => [Kept]_vars
  <2> SUFFICES ASSUME LegacyInv, [Next]_vars PROVE Kept
    OBVIOUS
  <2>1. ASSUME Imported
        PROVE  /\ \A p \in Present(positions) : positions'[p] = positions[p] \/ Brought(p, last')
               /\ \A w \in Present(watch) : watch'[w] = watch[w] \/
                    /\ instruments[watch[w]] = "migration"
                    /\ watch'[w] # NoRow /\ Symbol[watch'[w]] = Symbol[watch[w]]
    <3>1. PICK s \in Snapshots : Import(s) /\ last' = s
      BY <1>1, <2>1
    <3> QED
      BY <3>1, ImportSpares
  <2>2. ASSUME Repaired
        PROVE  /\ NoTestAccounts' /\ NoFalseOk'
               /\ \A t, u \in Present(tasks') : tasks'[t] = tasks'[u] => t = u
    BY <1>1, <2>2, RepairSpares
  <2> QED
    BY <2>1, <2>2
<1> QED
  BY <1>2, LegacySafety, PTL DEF Spec, ScriptsSpareUsers

=============================================================================
