---------------------------- MODULE ReportsProofs ----------------------------
(***************************************************************************)
(* What holds of the pages and reports that are made of the tables, for every *)
(* number of rows, and the type invariant of all the parts.  A report adds    *)
(* up: that takes the theory of sums over finite sets this module begins with. *)
(***************************************************************************)
EXTENDS ServerProofs, SpendProofs, ScriptsProofs

-----------------------------------------------------------------------------
\* Induction over the naturals, and over the subsets of a finite set, for a property given
\* as the set of those that have it.
LEMMA NaturalsAreIn == ASSUME NEW P, 0 \in P, \A n \in Nat : n \in P => n + 1 \in P
                       PROVE  Nat \subseteq P
<1> SUFFICES ASSUME Nat \ P # {} PROVE FALSE
  OBVIOUS
<1>1. PICK least \in Nat \ P : \A n \in Nat \ P : least <= n
  BY LeastNatural
<1>2. least # 0 /\ least - 1 \in Nat
  BY <1>1
<1>3. least - 1 \in P
  BY <1>1, <1>2
<1>4. (least - 1) + 1 \in P
  BY <1>2, <1>3
<1> QED
  BY <1>1, <1>4

LEMMA SubsetsAreIn ==
    ASSUME NEW S, IsFiniteSet(S), NEW P,
           \A s \in SUBSET S : (\A x \in s : s \ {x} \in P) => s \in P
    PROVE  SUBSET S \subseteq P
<1> DEFINE N == {n \in Nat : \A s \in SUBSET S : Cardinality(s) = n => s \in P}
<1>1. \A s \in SUBSET S : /\ IsFiniteSet(s) /\ Cardinality(s) \in Nat
                          /\ \A x \in s : Cardinality(s \ {x}) = Cardinality(s) - 1
  BY FS_Subset, FS_CardinalityType, FS_RemoveElement
<1>2. 0 \in N
  <2>1. \A s \in SUBSET S : Cardinality(s) = 0 => s = {}
    BY <1>1, FS_EmptySet
  <2> QED
    BY <2>1
<1>3. ASSUME NEW n \in Nat, n \in N PROVE n + 1 \in N
  <2>1. ASSUME NEW s \in SUBSET S, Cardinality(s) = n + 1 PROVE s \in P
    <3>1. \A x \in s : Cardinality(s \ {x}) = n
      BY <1>1, <2>1
    <3>2. \A x \in s : s \ {x} \in P
      BY <1>3, <3>1
    <3> QED
      BY <3>2
  <2> QED
    BY <2>1
<1> HIDE DEF N
<1>4. Nat \subseteq N
  BY <1>2, <1>3, NaturalsAreIn
<1> QED
  BY <1>1, <1>4 DEF N

-----------------------------------------------------------------------------
\* Sums over finite sets, of a function's values.
Chosen(s) == CHOOSE x \in s : TRUE
Sums(S, f, g) == g = [s \in SUBSET S |-> IF s = {} THEN 0
                                         ELSE f[Chosen(s)] + g[s \ {Chosen(s)}]]

LEMMA SumsExist == ASSUME NEW S, IsFiniteSet(S), NEW f PROVE \E g : Sums(S, f, g)
<1> DEFINE Small(n) == {s \in SUBSET S : Cardinality(s) <= n}
           Good(n, g) == g = [s \in Small(n) |-> IF s = {} THEN 0
                                                 ELSE f[Chosen(s)] + g[s \ {Chosen(s)}]]
           P == {n \in Nat : \E g : Good(n, g)}
<1>1. \A s \in SUBSET S : /\ IsFiniteSet(s) /\ Cardinality(s) \in Nat
                          /\ \A x \in s : Cardinality(s \ {x}) = Cardinality(s) - 1
  BY FS_Subset, FS_CardinalityType, FS_RemoveElement
<1>2. 0 \in P
  <2>1. \A s \in Small(0) : s = {}
    BY <1>1, FS_EmptySet
  <2>2. Good(0, [s \in Small(0) |-> 0])
    BY <2>1
  <2> QED
    BY <2>2
<1>3. ASSUME NEW n \in Nat, n \in P PROVE n + 1 \in P
  <2>1. PICK g : Good(n, g)
    BY <1>3
  <2> DEFINE h == [s \in Small(n + 1) |-> IF s = {} THEN 0
                                          ELSE f[Chosen(s)] + g[s \ {Chosen(s)}]]
  <2>2. Small(n) \subseteq Small(n + 1)
    BY <1>1
  <2>3. \A s \in Small(n) : g[s] = h[s]
    BY <2>1, <2>2
  <2>4. \A s \in Small(n + 1) : s # {} => s \ {Chosen(s)} \in Small(n)
    <3> SUFFICES ASSUME NEW s \in Small(n + 1), s # {} PROVE s \ {Chosen(s)} \in Small(n)
      OBVIOUS
    <3>1. Chosen(s) \in s
      BY DEF Chosen
    <3>2. Cardinality(s \ {Chosen(s)}) = Cardinality(s) - 1 /\ Cardinality(s) \in Nat
      BY <1>1, <3>1
    <3> QED
      BY <3>2
  <2>5. Good(n + 1, h)
    BY <2>3, <2>4
  <2> HIDE DEF h
  <2>6. \E k : Good(n + 1, k)
    BY <2>5
  <2> HIDE DEF Good
  <2> QED
    BY <2>6
<1> HIDE DEF P
<1>4. Cardinality(S) \in P
  BY <1>1, <1>2, <1>3, NaturalsAreIn
<1>5. PICK g : Good(Cardinality(S), g)
  BY <1>4 DEF P
<1>6. Small(Cardinality(S)) = SUBSET S
  BY FS_Subset
<1> QED
  BY <1>5, <1>6 DEF Sums

\* The same sums are found in whichever set one starts from.
LEMMA SumsAgree ==
    ASSUME NEW S, IsFiniteSet(S), NEW T \in SUBSET S, NEW f, NEW g, NEW h,
           Sums(S, f, g), Sums(T, f, h)
    PROVE  g[T] = h[T]
<1> DEFINE P == {s \in SUBSET T : g[s] = h[s]}
<1>1. IsFiniteSet(T)
  BY FS_Subset
<1>2. ASSUME NEW s \in SUBSET T, \A x \in s : s \ {x} \in P PROVE s \in P
  <2>1. s # {} => Chosen(s) \in s
    BY DEF Chosen
  <2>2. /\ g[s] = IF s = {} THEN 0 ELSE f[Chosen(s)] + g[s \ {Chosen(s)}]
        /\ h[s] = IF s = {} THEN 0 ELSE f[Chosen(s)] + h[s \ {Chosen(s)}]
    BY DEF Sums
  <2> QED
    BY <1>2, <2>1, <2>2
<1> HIDE DEF P
<1>3. SUBSET T \subseteq P
  BY <1>1, <1>2, SubsetsAreIn
<1> QED
  BY <1>3 DEF P

Sum(f, S) == (CHOOSE g : Sums(S, f, g))[S]

LEMMA SumUnfolds ==
    ASSUME NEW S, IsFiniteSet(S), NEW f
    PROVE  /\ Sum(f, {}) = 0
           /\ S # {} => Sum(f, S) = f[Chosen(S)] + Sum(f, S \ {Chosen(S)})
<1> DEFINE G(T) == CHOOSE g : Sums(T, f, g)
<1>1. \A T : IsFiniteSet(T) => Sums(T, f, G(T))
  BY SumsExist
<1>2. \A T : Sum(f, T) = G(T)[T]
  BY DEF Sum
<1> HIDE DEF G
<1>3. Sum(f, {}) = 0
  <2>1. Sums({}, f, G({}))
    BY <1>1, FS_EmptySet
  <2> QED
    BY <1>2, <2>1 DEF Sums
<1>4. ASSUME S # {} PROVE Sum(f, S) = f[Chosen(S)] + Sum(f, S \ {Chosen(S)})
  <2> DEFINE rest == S \ {Chosen(S)}
  <2>1. G(S)[S] = f[Chosen(S)] + G(S)[rest]
    BY <1>1, <1>4 DEF Sums
  <2>2. IsFiniteSet(rest) /\ rest \in SUBSET S
    BY FS_Subset
  <2> HIDE DEF rest
  <2>3. G(S)[rest] = G(rest)[rest]
    BY <1>1, <2>2, SumsAgree
  <2> QED
    BY <1>2, <2>1, <2>3 DEF rest
<1> QED
  BY <1>3, <1>4

\* Any element may be taken first.
LEMMA SumTakes ==
    ASSUME NEW S, IsFiniteSet(S), NEW f, \A x \in S : f[x] \in Int
    PROVE  Sum(f, S) \in Int /\ \A x \in S : Sum(f, S) = f[x] + Sum(f, S \ {x})
<1> DEFINE P == {s \in SUBSET S : /\ Sum(f, s) \in Int
                                  /\ \A x \in s : /\ Sum(f, s \ {x}) \in Int
                                                 /\ Sum(f, s) = f[x] + Sum(f, s \ {x})}
<1>1. ASSUME NEW s \in SUBSET S, \A x \in s : s \ {x} \in P PROVE s \in P
  <2>0. IsFiniteSet(s) /\ Sum(f, {}) = 0
    BY FS_Subset, SumUnfolds
  <2>1. CASE s = {}
    BY <2>0, <2>1
  <2>2. CASE s # {}
    <3> DEFINE c == Chosen(s)
    <3>1. c \in s /\ f[c] \in Int
      BY <2>2 DEF Chosen
    <3>2. Sum(f, s) = f[c] + Sum(f, s \ {c})
      BY <2>0, <2>2, SumUnfolds
    <3> HIDE DEF c
    <3>3. Sum(f, s \ {c}) \in Int
      BY <1>1, <3>1
    <3>4. ASSUME NEW x \in s, x # c PROVE Sum(f, s) = f[x] + Sum(f, s \ {x})
      <4> DEFINE less == (s \ {x}) \ {c}
      <4>1. less = (s \ {c}) \ {x} /\ c \in s \ {x} /\ x \in s \ {c}
        BY <3>1, <3>4
      <4>2. Sum(f, s \ {c}) = f[x] + Sum(f, less)
        BY <1>1, <3>1, <4>1
      <4>3. Sum(f, s \ {x}) = f[c] + Sum(f, less)
        BY <1>1, <4>1
      <4>4. Sum(f, less) \in Int /\ f[x] \in Int
        BY <1>1, <3>4, <4>1
      <4> QED
        BY <3>1, <3>2, <4>2, <4>3, <4>4
    <3> QED
      BY <1>1, <3>1, <3>2, <3>3, <3>4
  <2> QED
    BY <2>1, <2>2
<1> HIDE DEF P
<1>2. SUBSET S \subseteq P
  BY <1>1, SubsetsAreIn
<1> QED
  BY <1>2 DEF P

LEMMA SumDepends ==
    ASSUME NEW S, IsFiniteSet(S), NEW f, NEW g, \A x \in S : f[x] = g[x]
    PROVE  Sum(f, S) = Sum(g, S)
<1> DEFINE P == {s \in SUBSET S : Sum(f, s) = Sum(g, s)}
<1>1. ASSUME NEW s \in SUBSET S, \A x \in s : s \ {x} \in P PROVE s \in P
  <2>1. IsFiniteSet(s) /\ (s # {} => Chosen(s) \in s)
    BY FS_Subset DEF Chosen
  <2>2. /\ s # {} => Sum(f, s) = f[Chosen(s)] + Sum(f, s \ {Chosen(s)})
        /\ s # {} => Sum(g, s) = g[Chosen(s)] + Sum(g, s \ {Chosen(s)})
        /\ Sum(f, {}) = Sum(g, {})
    BY <2>1, SumUnfolds
  <2> QED
    BY <1>1, <2>1, <2>2
<1> HIDE DEF P
<1>2. SUBSET S \subseteq P
  BY <1>1, SubsetsAreIn
<1> QED
  BY <1>2 DEF P

LEMMA SumOfZeros == ASSUME NEW S, IsFiniteSet(S), NEW f, \A x \in S : f[x] = 0
                    PROVE  Sum(f, S) = 0
<1> DEFINE P == {s \in SUBSET S : Sum(f, s) = 0}
<1>1. ASSUME NEW s \in SUBSET S, \A x \in s : s \ {x} \in P PROVE s \in P
  <2>1. IsFiniteSet(s) /\ (s # {} => Chosen(s) \in s)
    BY FS_Subset DEF Chosen
  <2>2. /\ s # {} => Sum(f, s) = f[Chosen(s)] + Sum(f, s \ {Chosen(s)})
        /\ Sum(f, {}) = 0
    BY <2>1, SumUnfolds
  <2> QED
    BY <1>1, <2>1, <2>2
<1> HIDE DEF P
<1>2. SUBSET S \subseteq P
  BY <1>1, SubsetsAreIn
<1> QED
  BY <1>2 DEF P

\* A sum is the sum of the sums of its parts.
LEMMA SumOfParts ==
    ASSUME NEW S, IsFiniteSet(S), NEW T, IsFiniteSet(T), NEW f, \A x \in S : f[x] \in Int,
           NEW p, \A x \in S : p[x] \in T
    PROVE  Sum(f, S) = Sum([t \in T |-> Sum(f, {x \in S : p[x] = t})], T)
<1> DEFINE Part(s, t) == {x \in s : p[x] = t}
           H(s) == [t \in T |-> Sum(f, Part(s, t))]
           P == {s \in SUBSET S : Sum(f, s) = Sum(H(s), T)}
<1>1. \A s \in SUBSET S : IsFiniteSet(s)
  BY FS_Subset
<1>2. \A s \in SUBSET S : \A t \in T : Part(s, t) \in SUBSET S
  OBVIOUS
<1>3. \A s \in SUBSET S : \A t \in T : H(s)[t] \in Int
  <2>1. \A s \in SUBSET S : Sum(f, s) \in Int
    BY <1>1, SumTakes
  <2> QED
    BY <1>2, <2>1
<1>4. ASSUME NEW s \in SUBSET S, \A x \in s : s \ {x} \in P PROVE s \in P
  <2>1. CASE s = {}
    <3>1. \A t \in T : Part(s, t) = {}
      BY <2>1
    <3>2. Sum(f, {}) = 0
      BY SumUnfolds
    <3>3. \A t \in T : H(s)[t] = 0
      BY <3>1, <3>2
    <3> HIDE DEF H
    <3>4. Sum(H(s), T) = 0
      BY <3>3, SumOfZeros
    <3> QED
      BY <2>1, <3>2, <3>4
  <2>2. ASSUME NEW x \in s PROVE s \in P
    <3> DEFINE t == p[x]
               r == s \ {x}
    <3>1. t \in T /\ f[x] \in Int /\ r \in SUBSET S
      OBVIOUS
    <3>2. \A u \in T \ {t} : Part(s, u) = Part(r, u)
      OBVIOUS
    <3>3. x \in Part(s, t) /\ Part(s, t) \ {x} = Part(r, t) /\ Part(s, t) \in SUBSET S
      OBVIOUS
    <3>4. Sum(f, Part(s, t)) = f[x] + Sum(f, Part(r, t))
      <4> HIDE DEF Part
      <4>1. IsFiniteSet(Part(s, t)) /\ \A y \in Part(s, t) : f[y] \in Int
        BY <1>1, <3>3
      <4>2. Sum(f, Part(s, t)) = f[x] + Sum(f, Part(s, t) \ {x})
        BY <3>3, <4>1, SumTakes
      <4> QED
        BY <3>3, <4>2
    <3>5. H(s)[t] = f[x] + H(r)[t] /\ \A u \in T \ {t} : H(s)[u] = H(r)[u]
      BY <3>1, <3>2, <3>4
    <3>6. /\ \A u \in T : H(s)[u] \in Int /\ H(r)[u] \in Int
      BY <1>3, <3>1
    <3>7. Sum(f, s) = f[x] + Sum(f, r)
      BY <1>1, SumTakes
    <3>8. Sum(f, r) = Sum(H(r), T)
      BY <1>4
    <3> HIDE DEF H, r, t
    <3>9. /\ Sum(H(s), T) = H(s)[t] + Sum(H(s), T \ {t})
          /\ Sum(H(r), T) = H(r)[t] + Sum(H(r), T \ {t})
      BY <3>1, <3>6, SumTakes
    <3>10. Sum(H(s), T \ {t}) = Sum(H(r), T \ {t})
      <4>1. IsFiniteSet(T \ {t})
        BY FS_Subset
      <4> QED
        BY <3>5, <4>1, SumDepends
    <3>11. Sum(H(r), T \ {t}) \in Int
      <4>1. IsFiniteSet(T \ {t}) /\ \A u \in T \ {t} : H(r)[u] \in Int
        BY <3>6, FS_Subset
      <4> QED
        BY <4>1, SumTakes
    <3>12. Sum(f, s) = Sum(H(s), T)
      BY <3>1, <3>5, <3>6, <3>7, <3>8, <3>9, <3>10, <3>11
    <3> QED
      BY <3>12
  <2> QED
    BY <2>1, <2>2
<1> HIDE DEF P
<1>5. SUBSET S \subseteq P
  BY <1>4, SubsetsAreIn
<1> QED
  BY <1>5 DEF P

LEMMA SumIs == ASSUME NEW S, IsFiniteSet(S), NEW f, NEW g, Sums(S, f, g)
               PROVE  g[S] = Sum(f, S)
<1> DEFINE G == CHOOSE h : Sums(S, f, h)
<1>1. Sums(S, f, G)
  BY SumsExist
<1> HIDE DEF G
<1>2. g[S] = G[S]
  BY <1>1, SumsAgree
<1> QED
  BY <1>2 DEF Sum, G

-----------------------------------------------------------------------------
\* Dashboards.

LEMMA CostIsSum ==
    ASSUME NEW S, IsFiniteSet(S)
    PROVE  Pages!CostOf(S) = Sum([e \in S |-> pageGet.rows[e].cost], S)
<1> DEFINE f == [e \in S |-> pageGet.rows[e].cost]
           Fold(g) == g = [s \in SUBSET S |->
                              IF s = {} THEN 0
                              ELSE pageGet.rows[CHOOSE x \in s : TRUE].cost
                                   + g[s \ {CHOOSE x \in s : TRUE}]]
<1>1. Pages!CostOf(S) = (CHOOSE g : Fold(g))[S]
  BY DEF Pages!CostOf, Pages!MapThenSumSet, Pages!MapThenFoldSet
<1>2. \A g : Fold(g) <=> Sums(S, f, g)
  BY DEF Sums, Chosen
<1> HIDE DEF Fold, f
<1>3. \E g : Fold(g)
  BY <1>2, SumsExist
<1>4. Fold(CHOOSE g : Fold(g))
  BY <1>3
<1> QED
  BY <1>1, <1>2, <1>4, SumIs DEF f

\* The rows read are of tasks that were read after them.
RowsCovered == \A e \in PageExecs : pageGet.rows[e] # Nothing =>
                                        pageGet.rows[e].task \in pageGet.tasks
\* The tasks read are of orders that were read after them.
ParentsShown == \A t \in pageGet.tasks : ParentOf[t] # Nothing =>
                                             pageGet.orders[ParentOf[t]] # Nothing

\* Tasks are for good, and so is the end of an order that no second dispatch has written
\* over, and a page reads what refers to another table before that table.
PagesInv ==
    /\ Pages!TypeOK
    /\ \A o \in finished : orders[o] = "done" \/ o \in again
    /\ \A e \in PageExecs : rows[e] # Nothing => rows[e].task \in tasks
    /\ \A t \in tasks : ParentOf[t] # Nothing => orders[ParentOf[t]] # Nothing
    /\ \A e \in PageExecs : pageGet.rows[e] # Nothing => pageGet.rows[e].task \in tasks
    /\ pageGet.tasks \subseteq tasks
    /\ \A o \in PageOrders : pageGet.orders[o] \in {"failed", "blocked"} =>
                                 orders[o] = pageGet.orders[o] \/ o \in again
    /\ pageGet.finished \subseteq finished
    /\ pageGet.page = "finance" =>
           \/ pageGet.left \in {<<"executions", "tasks", "orders">>, <<"tasks", "orders">>}
           \/ pageGet.left = <<"orders">> /\ RowsCovered
           \/ pageGet.left = <<>> /\ RowsCovered /\ ParentsShown

LEMMA TablesOfPages ==
    /\ Pages!Reading("finance") = <<"executions", "tasks", "orders">>
    /\ Pages!Reading("orders") = <<"orders", "tasks", "executions", "events">>
    /\ \A page \in {"finance", "orders"} : /\ Pages!Reading(page) \in Seq(Pages!Tables)
                                          /\ Len(Pages!Reading(page)) \in 0..4
<1>1. /\ Pages!Reading("finance") = <<"executions", "tasks", "orders">>
      /\ Pages!Reading("orders") = <<"orders", "tasks", "executions", "events">>
  BY DEF Pages!Reading
<1>2. <<"executions", "tasks", "orders">> \in Seq(Pages!Tables)
  BY DEF Pages!Tables
<1>3. <<"orders", "tasks", "executions", "events">> \in Seq(Pages!Tables)
  BY DEF Pages!Tables
<1>4. /\ Len(<<"executions", "tasks", "orders">>) = 3
      /\ Len(<<"orders", "tasks", "executions", "events">>) = 4
  OBVIOUS
<1>5. ASSUME NEW page \in {"finance", "orders"}
      PROVE  Pages!Reading(page) \in Seq(Pages!Tables) /\ Len(Pages!Reading(page)) \in 0..4
  <2>1. CASE page = "finance"
    BY <1>1, <1>2, <1>4, <2>1
  <2>2. CASE page = "orders"
    <3>1. Pages!Reading(page) = <<"orders", "tasks", "executions", "events">>
      BY <1>1, <2>2
    <3> QED
      BY <1>3, <1>4, <3>1
  <2> QED
    BY <2>1, <2>2
<1> QED
  BY <1>1, <1>5

LEMMA PagesInitially == Pages!Init => PagesInv
<1> SUFFICES ASSUME Pages!Init PROVE PagesInv
  OBVIOUS
<1> USE DEF Pages!Init, Pages!Unread, Pages!NoRows, Pages!NoOrders
<1>1. pageGet.left = Pages!Reading(pageGet.page) /\ pageGet.page \in {"finance", "orders"}
  OBVIOUS
<1>2. pageGet.page = "finance" => pageGet.left = <<"executions", "tasks", "orders">>
  BY <1>1, TablesOfPages
<1>3. /\ pageGet.left \in Seq(Pages!Tables)
      /\ pageGet.left = SubSeq(pageGet.left, 1, Len(pageGet.left))
  <2>1. pageGet.left \in Seq(Pages!Tables)
    BY <1>1, TablesOfPages
  <2> QED
    BY <2>1, SubSeqFull
<1>4. pageGet \in [page : {"finance", "orders"}, left : Seq(Pages!Tables),
                   rows : [PageExecs -> Pages!Rows \cup {Nothing}], tasks : SUBSET PageTasks,
                   orders : [PageOrders -> Pages!OrderStatuses \cup {Nothing}],
                   finished : SUBSET PageOrders]
  BY <1>1, <1>3
<1>5. Pages!TypeOK
  BY <1>1, <1>3, <1>4 DEF Pages!TypeOK
<1>6. \A o \in PageOrders : pageGet.orders[o] \notin {"failed", "blocked"}
  <2>1. pageGet.orders = [o \in PageOrders |-> Nothing]
    OBVIOUS
  <2>2. Nothing \notin {"failed", "blocked"}
    BY ServicesAssumption DEF Pages!OrderStatuses, Pages!ActiveStatuses
  <2> QED
    BY <2>1, <2>2
<1> QED
  BY <1>1, <1>2, <1>5, <1>6 DEF PagesInv

\* A read of the next table keeps the shape of a request.
LEMMA ReadKeepsTypes ==
    ASSUME Pages!TypeOK, Pages!Read
    PROVE  /\ Pages!TypeOK' /\ pageGet.left # <<>>
           /\ pageGet'.left = Tail(pageGet.left) /\ pageGet'.page = pageGet.page
           /\ pageGet'.rows = IF Head(pageGet.left) = "executions" THEN rows ELSE pageGet.rows
           /\ pageGet'.tasks = IF Head(pageGet.left) = "tasks" THEN tasks ELSE pageGet.tasks
           /\ pageGet'.orders = IF Head(pageGet.left) = "orders" THEN orders
                                ELSE pageGet.orders
           /\ pageGet'.finished = IF Head(pageGet.left) = "events" THEN finished
                                  ELSE pageGet.finished
           /\ UNCHANGED <<orders, finished, again, tasks, rows>>
<1> DEFINE R == Pages!Reading(pageGet.page)
           seen == [pageGet EXCEPT !.left = Tail(@)]
           first == Head(pageGet.left)
<1>1. R \in Seq(Pages!Tables) /\ Len(R) \in 0..4
  BY TablesOfPages DEF Pages!TypeOK
<1>2. PICK i \in 1..5 : pageGet.left = SubSeq(R, i, Len(R))
  BY DEF Pages!TypeOK
<1>3. pageGet.left # <<>> /\ UNCHANGED <<orders, finished, again, tasks, rows>>
  BY DEF Pages!Read
<1> HIDE DEF R
<1>4. i <= Len(R)
  BY <1>1, <1>2, <1>3, SubSeqEmpty
<1>5. /\ first = R[i] /\ Tail(pageGet.left) = SubSeq(R, i + 1, Len(R))
      /\ R[i] \in Pages!Tables
  BY <1>1, <1>2, <1>4, HeadTailOfSubSeq
<1>6. /\ i + 1 \in 1..5 /\ Tail(pageGet.left) \in Seq(Pages!Tables)
  <2>1. pageGet.left \in Seq(Pages!Tables)
    BY DEF Pages!TypeOK
  <2>2. Tail(pageGet.left) \in Seq(Pages!Tables)
    BY <1>3, <2>1, HeadTailProperties
  <2>3. \A n \in 0..4 : i <= n => i + 1 \in 1..5
    OBVIOUS
  <2>4. i + 1 \in 1..5
    BY <1>1, <1>4, <2>3
  <2> QED
    BY <2>2, <2>4
<1>7. pageGet' = CASE first = "executions" -> [seen EXCEPT !.rows = rows]
                   [] first = "tasks" -> [seen EXCEPT !.tasks = tasks]
                   [] first = "orders" -> [seen EXCEPT !.orders = orders]
                   [] first = "events" -> [seen EXCEPT !.finished = finished]
  BY DEF Pages!Read
<1>8. first \in Pages!Tables
  BY <1>5
<1> HIDE DEF first
<1>9. /\ pageGet' = [page |-> pageGet.page, left |-> Tail(pageGet.left),
                     rows |-> IF first = "executions" THEN rows ELSE pageGet.rows,
                     tasks |-> IF first = "tasks" THEN tasks ELSE pageGet.tasks,
                     orders |-> IF first = "orders" THEN orders ELSE pageGet.orders,
                     finished |-> IF first = "events" THEN finished ELSE pageGet.finished]
  BY <1>7, <1>8 DEF Pages!TypeOK, Pages!Tables
<1>10. Pages!TypeOK'
  <2>1. pageGet' \in [page : {"finance", "orders"}, left : Seq(Pages!Tables),
                      rows : [PageExecs -> Pages!Rows \cup {Nothing}],
                      tasks : SUBSET PageTasks,
                      orders : [PageOrders -> Pages!OrderStatuses \cup {Nothing}],
                      finished : SUBSET PageOrders]
    BY <1>6, <1>9 DEF Pages!TypeOK
  <2>2. Pages!Reading(pageGet'.page) = R /\ pageGet'.left = SubSeq(R, i + 1, Len(R))
    BY <1>5, <1>9 DEF R
  <2> QED
    BY <1>3, <1>6, <2>1, <2>2 DEF Pages!TypeOK
<1> QED
  BY <1>3, <1>9, <1>10 DEF first

LEMMA PagesStep == PagesInv /\ [Pages!Next]_pagesVars => PagesInv'
<1> SUFFICES ASSUME PagesInv, [Pages!Next]_pagesVars PROVE PagesInv'
  OBVIOUS
<1>0. /\ Pages!TypeOK /\ Nothing \notin Pages!Rows /\ Nothing \notin PageOrders
      /\ Nothing \notin Pages!OrderStatuses
      /\ ParentOf \in [PageTasks -> PageOrders \cup {Nothing}]
  BY ServicesAssumption DEF PagesInv
<1>1. ASSUME NEW o \in PageOrders, Pages!CreateOrder(o) PROVE PagesInv'
  <2>1. /\ orders[o] = Nothing /\ orders' = [orders EXCEPT ![o] = "received"]
        /\ UNCHANGED <<finished, again, tasks, rows, pageGet>>
    BY <1>1 DEF Pages!CreateOrder
  <2>2. "received" # Nothing
    BY <1>0 DEF Pages!OrderStatuses, Pages!ActiveStatuses
  <2>3. Pages!TypeOK'
    BY <1>0, <2>1 DEF Pages!TypeOK, Pages!OrderStatuses, Pages!ActiveStatuses
  <2>4. Nothing \notin {"done", "failed", "blocked"}
    BY <1>0 DEF Pages!OrderStatuses, Pages!ActiveStatuses
  <2>5. \A x \in PageOrders : orders'[x] = IF x = o THEN "received" ELSE orders[x]
    BY <1>0, <2>1 DEF Pages!TypeOK
  <2>6. finished \subseteq PageOrders /\ tasks \subseteq PageTasks
    BY <1>0 DEF Pages!TypeOK
  <2> QED
    BY <1>0, <2>1, <2>2, <2>3, <2>4, <2>5, <2>6 DEF PagesInv, RowsCovered, ParentsShown
<1>2. ASSUME NEW o \in PageOrders, Pages!MoveOrder(o) PROVE PagesInv'
  <2>1. PICK s \in Pages!OrderStatuses :
            /\ orders' = [orders EXCEPT ![o] = s]
            /\ orders[o] \in {"received", "dispatched", "aggregating"}
            /\ UNCHANGED <<finished, again, tasks, rows, pageGet>>
    BY <1>2 DEF Pages!MoveOrder, Pages!OrderStatuses, Pages!ActiveStatuses
  <2>2. s # Nothing
    BY <1>0
  <2>3. Pages!TypeOK'
    BY <1>0, <2>1 DEF Pages!TypeOK
  <2>5. \A x \in PageOrders : orders'[x] = IF x = o THEN s ELSE orders[x]
    BY <1>0, <2>1 DEF Pages!TypeOK
  <2>6. finished \subseteq PageOrders /\ tasks \subseteq PageTasks
    BY <1>0 DEF Pages!TypeOK
  <2> QED
    BY <1>0, <2>1, <2>2, <2>3, <2>5, <2>6 DEF PagesInv, RowsCovered, ParentsShown
<1>3. ASSUME NEW o \in PageOrders, Pages!LogDone(o) PROVE PagesInv'
  <2>1. /\ (orders[o] = "done" \/ o \in again) /\ finished' = finished \cup {o}
        /\ UNCHANGED <<orders, again, tasks, rows, pageGet>>
    BY <1>3 DEF Pages!LogDone
  <2>2. Pages!TypeOK'
    BY <1>0, <2>1 DEF Pages!TypeOK
  <2> QED
    BY <2>1, <2>2 DEF PagesInv, RowsCovered, ParentsShown
<1>4. ASSUME NEW t \in PageTasks, Pages!CreateTask(t) PROVE PagesInv'
  <2>1. /\ ParentOf[t] # Nothing => orders[ParentOf[t]] # Nothing
        /\ tasks' = tasks \cup {t}
        /\ UNCHANGED <<orders, finished, again, rows, pageGet>>
    BY <1>4 DEF Pages!CreateTask
  <2>2. Pages!TypeOK'
    BY <1>0, <2>1 DEF Pages!TypeOK
  <2> QED
    BY <2>1, <2>2 DEF PagesInv, RowsCovered, ParentsShown
<1>5. ASSUME NEW e \in PageExecs, NEW t \in PageTasks, Pages!Enqueue(e, t) PROVE PagesInv'
  <2> DEFINE new == [task |-> t, executor |-> "claude-code", cost |-> 0,
                     provider |-> Nothing, open |-> TRUE]
  <2>1. /\ rows[e] = Nothing /\ t \in tasks /\ rows' = [rows EXCEPT ![e] = new]
        /\ UNCHANGED <<orders, finished, again, tasks, pageGet>>
    BY <1>5 DEF Pages!Enqueue
  <2>2. new \in Pages!Rows /\ new.task = t
    BY DEF Pages!Rows, Pages!Executors, Pages!Providers
  <2> HIDE DEF new
  <2>3. Pages!TypeOK'
    BY <1>0, <2>1, <2>2 DEF Pages!TypeOK
  <2>4. \A x \in PageExecs : rows'[x] = IF x = e THEN new ELSE rows[x]
    BY <1>0, <2>1 DEF Pages!TypeOK
  <2> QED
    BY <2>1, <2>2, <2>3, <2>4 DEF PagesInv, RowsCovered, ParentsShown
<1>6. ASSUME NEW e \in PageExecs, NEW r \in Pages!Rows, Pages!Record(e, r) PROVE PagesInv'
  <2>1. /\ rows[e] # Nothing /\ r.task = rows[e].task /\ rows' = [rows EXCEPT ![e] = r]
        /\ UNCHANGED <<orders, finished, again, tasks, pageGet>>
    BY <1>6 DEF Pages!Record
  <2>2. Pages!TypeOK'
    BY <1>0, <2>1 DEF Pages!TypeOK
  <2>3. \A x \in PageExecs : rows'[x] = IF x = e THEN r ELSE rows[x]
    BY <1>0, <2>1 DEF Pages!TypeOK
  <2> QED
    BY <2>1, <2>2, <2>3 DEF PagesInv, RowsCovered, ParentsShown
<1>7. ASSUME NEW e \in PageExecs, Pages!Resave(e) PROVE PagesInv'
  <2> DEFINE r == [rows[e] EXCEPT !.cost = 0, !.provider = Nothing]
  <2>1. /\ rows[e] # Nothing /\ rows' = [rows EXCEPT ![e] = r]
        /\ UNCHANGED <<orders, finished, again, tasks, pageGet>>
    BY <1>0, <1>7 DEF Pages!Resave, Pages!TypeOK
  <2>2. rows[e] \in Pages!Rows
    BY <1>0, <2>1 DEF Pages!TypeOK
  <2>3. r \in Pages!Rows /\ r.task = rows[e].task
    <3>1. \A old \in Pages!Rows :
              LET new == [old EXCEPT !.cost = 0, !.provider = Nothing]
              IN  new.task = old.task /\ new \in Pages!Rows
      <4>1. 0 \in 0..1
        OBVIOUS
      <4> QED
        BY <4>1 DEF Pages!Rows, Pages!Providers
    <3> QED
      BY <2>2, <3>1
  <2> HIDE DEF r
  <2>4. Pages!TypeOK'
    BY <1>0, <2>1, <2>3 DEF Pages!TypeOK
  <2>5. \A x \in PageExecs : rows'[x] = IF x = e THEN r ELSE rows[x]
    BY <1>0, <2>1 DEF Pages!TypeOK
  <2> QED
    BY <2>1, <2>3, <2>4, <2>5 DEF PagesInv, RowsCovered, ParentsShown
<1>8. ASSUME Pages!Read PROVE PagesInv'
  <2> DEFINE first == Head(pageGet.left)
  <2>1. /\ Pages!TypeOK' /\ pageGet.left # <<>>
        /\ pageGet'.left = Tail(pageGet.left) /\ pageGet'.page = pageGet.page
        /\ pageGet'.rows = IF first = "executions" THEN rows ELSE pageGet.rows
        /\ pageGet'.tasks = IF first = "tasks" THEN tasks ELSE pageGet.tasks
        /\ pageGet'.orders = IF first = "orders" THEN orders ELSE pageGet.orders
        /\ pageGet'.finished = IF first = "events" THEN finished ELSE pageGet.finished
        /\ UNCHANGED <<orders, finished, again, tasks, rows>>
    BY <1>0, <1>8, ReadKeepsTypes
  <2>2. /\ \A e \in PageExecs : pageGet'.rows[e] # Nothing => pageGet'.rows[e].task \in tasks
        /\ pageGet'.tasks \subseteq tasks
        /\ \A o \in PageOrders : pageGet'.orders[o] \in {"failed", "blocked"} =>
                                     orders[o] = pageGet'.orders[o] \/ o \in again
        /\ pageGet'.finished \subseteq finished
    BY <2>1 DEF PagesInv
  <2>3. ASSUME pageGet.page = "finance"
        PROVE  \/ pageGet'.left \in {<<"executions", "tasks", "orders">>, <<"tasks", "orders">>}
               \/ pageGet'.left = <<"orders">> /\ RowsCovered'
               \/ pageGet'.left = <<>> /\ RowsCovered' /\ ParentsShown'
    <3>1. CASE pageGet.left = <<"executions", "tasks", "orders">>
      BY <2>1, <3>1
    <3>2. CASE pageGet.left = <<"tasks", "orders">>
      <4>1. first = "tasks" /\ pageGet'.left = <<"orders">>
        BY <2>1, <3>2
      <4> HIDE DEF first
      <4> QED
        BY <2>1, <2>2, <4>1 DEF RowsCovered
    <3>3. CASE pageGet.left = <<"orders">> /\ RowsCovered
      <4>1. first = "orders" /\ pageGet'.left = <<>>
        BY <2>1, <3>3
      <4> HIDE DEF first
      <4>2. pageGet'.orders = orders /\ pageGet'.tasks = pageGet.tasks
            /\ pageGet'.rows = pageGet.rows
        BY <2>1, <4>1
      <4>3. RowsCovered'
        BY <3>3, <4>2 DEF RowsCovered
      <4>4. ParentsShown'
        BY <2>2, <4>2 DEF PagesInv, ParentsShown
      <4> QED
        BY <4>1, <4>3, <4>4
    <3> QED
      BY <2>1, <2>3, <3>1, <3>2, <3>3 DEF PagesInv
  <2> HIDE DEF first
  <2> QED
    BY <2>1, <2>2, <2>3 DEF PagesInv
<1>9. ASSUME NEW o \in PageOrders, Pages!Overwrite(o) PROVE PagesInv'
  <2>1. PICK s \in Pages!OrderStatuses :
            /\ orders' = [orders EXCEPT ![o] = s]
            /\ again' = again \cup {o}
            /\ UNCHANGED <<finished, tasks, rows, pageGet>>
    BY <1>9 DEF Pages!Overwrite, Pages!OrderStatuses, Pages!ActiveStatuses
  <2>2. s # Nothing
    BY <1>0
  <2>3. Pages!TypeOK'
    BY <1>0, <2>1 DEF Pages!TypeOK
  <2>4. \A x \in PageOrders : orders'[x] = IF x = o THEN s ELSE orders[x]
    BY <1>0, <2>1 DEF Pages!TypeOK
  <2>5. finished \subseteq PageOrders /\ tasks \subseteq PageTasks
    BY <1>0 DEF Pages!TypeOK
  <2> QED
    BY <1>0, <2>1, <2>2, <2>3, <2>4, <2>5 DEF PagesInv, RowsCovered, ParentsShown
<1>10. ASSUME UNCHANGED pagesVars PROVE PagesInv'
  BY <1>10 DEF pagesVars, PagesInv, Pages!TypeOK, RowsCovered, ParentsShown
<1> QED
  BY <1>1, <1>2, <1>3, <1>4, <1>5, <1>6, <1>7, <1>8, <1>9, <1>10 DEF Pages!Next

LEMMA PagesAlways == Spec => [](part = "pages" => PagesInv)
<1>1. Init => (part = "pages" => PagesInv)
  BY PagesInitially DEF Init
<1>2. (part = "pages" => PagesInv) /\ [Next]_vars => (part = "pages" => PagesInv)'
  BY PagesStep DEF Next, vars
<1> QED
  BY <1>1, <1>2, PTL DEF Spec

LEMMA ByExecutorIsSum ==
    ASSUME NEW S, IsFiniteSet(S)
    PROVE  Pages!MapThenSumSet(Pages!ByExecutor, S) = Sum([t \in S |-> Pages!ByExecutor(t)], S)
<1> DEFINE f == [t \in S |-> Pages!ByExecutor(t)]
           Fold(g) == g = [s \in SUBSET S |->
                              IF s = {} THEN 0
                              ELSE Pages!ByExecutor(CHOOSE x \in s : TRUE)
                                   + g[s \ {CHOOSE x \in s : TRUE}]]
<1>1. Pages!MapThenSumSet(Pages!ByExecutor, S) = (CHOOSE g : Fold(g))[S]
  BY DEF Pages!MapThenSumSet, Pages!MapThenFoldSet
<1>2. \A g : Fold(g) <=> Sums(S, f, g)
  BY DEF Sums, Chosen
<1> HIDE DEF Fold, f
<1>3. \E g : Fold(g)
  BY <1>2, SumsExist
<1>4. Fold(CHOOSE g : Fold(g))
  BY <1>3
<1> QED
  BY <1>1, <1>2, <1>4, SumIs DEF f

LEMMA ByProviderIsSum ==
    ASSUME NEW S, IsFiniteSet(S)
    PROVE  Pages!MapThenSumSet(Pages!ByProvider, S) = Sum([t \in S |-> Pages!ByProvider(t)], S)
<1> DEFINE f == [t \in S |-> Pages!ByProvider(t)]
           Fold(g) == g = [s \in SUBSET S |->
                              IF s = {} THEN 0
                              ELSE Pages!ByProvider(CHOOSE x \in s : TRUE)
                                   + g[s \ {CHOOSE x \in s : TRUE}]]
<1>1. Pages!MapThenSumSet(Pages!ByProvider, S) = (CHOOSE g : Fold(g))[S]
  BY DEF Pages!MapThenSumSet, Pages!MapThenFoldSet
<1>2. \A g : Fold(g) <=> Sums(S, f, g)
  BY DEF Sums, Chosen
<1> HIDE DEF Fold, f
<1>3. \E g : Fold(g)
  BY <1>2, SumsExist
<1>4. Fold(CHOOSE g : Fold(g))
  BY <1>3
<1> QED
  BY <1>1, <1>2, <1>4, SumIs DEF f

LEMMA ByTaskIsSum ==
    ASSUME NEW S, IsFiniteSet(S)
    PROVE  Pages!MapThenSumSet(Pages!ByTask, S) = Sum([t \in S |-> Pages!ByTask(t)], S)
<1> DEFINE f == [t \in S |-> Pages!ByTask(t)]
           Fold(g) == g = [s \in SUBSET S |->
                              IF s = {} THEN 0
                              ELSE Pages!ByTask(CHOOSE x \in s : TRUE)
                                   + g[s \ {CHOOSE x \in s : TRUE}]]
<1>1. Pages!MapThenSumSet(Pages!ByTask, S) = (CHOOSE g : Fold(g))[S]
  BY DEF Pages!MapThenSumSet, Pages!MapThenFoldSet
<1>2. \A g : Fold(g) <=> Sums(S, f, g)
  BY DEF Sums, Chosen
<1> HIDE DEF Fold, f
<1>3. \E g : Fold(g)
  BY <1>2, SumsExist
<1>4. Fold(CHOOSE g : Fold(g))
  BY <1>3
<1> QED
  BY <1>1, <1>2, <1>4, SumIs DEF f

\* What a set of priced executions cost is what its parts did, whatever they are parts by.
LEMMA CostOfParts ==
    ASSUME Pages!TypeOK, NEW S \in SUBSET Pages!Priced, NEW T, IsFiniteSet(T), NEW p,
           \A e \in S : p[e] \in T
    PROVE  Pages!CostOf(S) = Sum([t \in T |-> Pages!CostOf({e \in S : p[e] = t})], T)
<1> DEFINE f == [e \in S |-> pageGet.rows[e].cost]
           Part(t) == {e \in S : p[e] = t}
<1>1. IsFiniteSet(S) /\ \A t \in T : IsFiniteSet(Part(t)) /\ Part(t) \subseteq S
  <2>1. IsFiniteSet(PageExecs) /\ S \subseteq PageExecs
    BY ServicesAssumption DEF Pages!Priced
  <2>2. IsFiniteSet(S)
    BY <2>1, FS_Subset
  <2> QED
    BY <2>2, FS_Subset
<1>2. \A e \in S : f[e] \in Int
  <2>1. \A e \in S : pageGet.rows[e] \in Pages!Rows
    BY DEF Pages!TypeOK, Pages!Priced
  <2> QED
    BY <2>1 DEF Pages!Rows
<1>3. Pages!CostOf(S) = Sum(f, S)
  BY <1>1, CostIsSum
<1>4. ASSUME NEW t \in T PROVE Pages!CostOf(Part(t)) = Sum(f, Part(t))
  <2> DEFINE g == [e \in Part(t) |-> pageGet.rows[e].cost]
  <2>1. Pages!CostOf(Part(t)) = Sum(g, Part(t))
    BY <1>1, CostIsSum
  <2>2. \A e \in Part(t) : f[e] = g[e]
    OBVIOUS
  <2> HIDE DEF f, g
  <2> QED
    BY <1>1, <2>1, <2>2, SumDepends
<1>5. [t \in T |-> Pages!CostOf(Part(t))] = [t \in T |-> Sum(f, Part(t))]
  BY <1>4
<1> HIDE DEF f
<1>6. Sum(f, S) = Sum([t \in T |-> Sum(f, Part(t))], T)
  BY <1>1, <1>2, SumOfParts
<1> QED
  BY <1>3, <1>5, <1>6

LEMMA FinanceAddsUp ==
    ASSUME Pages!TypeOK
    PROVE  /\ Pages!Total = Pages!MapThenSumSet(Pages!ByExecutor, Pages!Executors)
           /\ Pages!Total = Pages!MapThenSumSet(Pages!ByProvider, Pages!Providers)
           /\ Pages!Total = Pages!MapThenSumSet(Pages!ByTask, PageTasks)
<1>1. \A e \in Pages!Priced : pageGet.rows[e] \in Pages!Rows
  BY DEF Pages!TypeOK, Pages!Priced
<1>2. /\ IsFiniteSet(Pages!Executors) /\ IsFiniteSet(Pages!Providers) /\ IsFiniteSet(PageTasks)
  <2>1. \A a, b : IsFiniteSet({a, b})
    <3>1. \A a, b : IsFiniteSet({a} \cup {b})
      BY FS_Singleton, FS_AddElement
    <3>2. \A a, b : {a} \cup {b} = {a, b}
      OBVIOUS
    <3> QED
      BY <3>1, <3>2
  <2>2. IsFiniteSet(PageTasks)
    BY ServicesAssumption
  <2> QED
    BY <2>1, <2>2 DEF Pages!Executors, Pages!Providers
<1>3. Pages!Total = Pages!MapThenSumSet(Pages!ByExecutor, Pages!Executors)
  <2> DEFINE p == [e \in Pages!Priced |-> pageGet.rows[e].executor]
             T == Pages!Executors
  <2>1. \A e \in Pages!Priced : p[e] \in T
    BY <1>1 DEF Pages!Rows
  <2>2. \A t \in T : {e \in Pages!Priced : p[e] = t} =
                         {e \in Pages!Priced : pageGet.rows[e].executor = t}
    OBVIOUS
  <2> HIDE DEF p
  <2>3. Pages!Total = Sum([t \in T |-> Pages!CostOf({e \in Pages!Priced : p[e] = t})], T)
    BY <1>2, <2>1, CostOfParts DEF Pages!Total
  <2>4. [t \in T |-> Pages!CostOf({e \in Pages!Priced : p[e] = t})] =
            [t \in T |-> Pages!ByExecutor(t)]
    BY <2>2 DEF Pages!ByExecutor
  <2> QED
    BY <1>2, <2>3, <2>4, ByExecutorIsSum
<1>4. Pages!Total = Pages!MapThenSumSet(Pages!ByProvider, Pages!Providers)
  <2> DEFINE p == [e \in Pages!Priced |-> pageGet.rows[e].provider]
             T == Pages!Providers
  <2>1. \A e \in Pages!Priced : p[e] \in T
    BY <1>1 DEF Pages!Rows
  <2>2. \A t \in T : {e \in Pages!Priced : p[e] = t} =
                         {e \in Pages!Priced : pageGet.rows[e].provider = t}
    OBVIOUS
  <2> HIDE DEF p
  <2>3. Pages!Total = Sum([t \in T |-> Pages!CostOf({e \in Pages!Priced : p[e] = t})], T)
    BY <1>2, <2>1, CostOfParts DEF Pages!Total
  <2>4. [t \in T |-> Pages!CostOf({e \in Pages!Priced : p[e] = t})] =
            [t \in T |-> Pages!ByProvider(t)]
    BY <2>2 DEF Pages!ByProvider
  <2> QED
    BY <1>2, <2>3, <2>4, ByProviderIsSum
<1>5. Pages!Total = Pages!MapThenSumSet(Pages!ByTask, PageTasks)
  <2> DEFINE p == [e \in Pages!Priced |-> pageGet.rows[e].task]
             T == PageTasks
  <2>1. \A e \in Pages!Priced : p[e] \in T
    BY <1>1 DEF Pages!Rows
  <2>2. \A t \in T : {e \in Pages!Priced : p[e] = t} =
                         {e \in Pages!Priced : pageGet.rows[e].task = t}
    OBVIOUS
  <2> HIDE DEF p
  <2>3. Pages!Total = Sum([t \in T |-> Pages!CostOf({e \in Pages!Priced : p[e] = t})], T)
    BY <1>2, <2>1, CostOfParts DEF Pages!Total
  <2>4. [t \in T |-> Pages!CostOf({e \in Pages!Priced : p[e] = t})] =
            [t \in T |-> Pages!ByTask(t)]
    BY <2>2 DEF Pages!ByTask
  <2> QED
    BY <1>2, <2>3, <2>4, ByTaskIsSum
<1> QED
  BY <1>3, <1>4, <1>5

LEMMA OrdersAddUp ==
    ASSUME Pages!TypeOK, RowsCovered, ParentsShown, NEW o \in PageOrders
    PROVE  /\ Pages!ByOrder(o) =
                  Pages!CostOf({e \in Pages!Priced : ParentOf[pageGet.rows[e].task] = o})
           /\ Pages!ByOrder(o) > 0 => pageGet.orders[o] # Nothing
<1> DEFINE Subs == {t \in pageGet.tasks : ParentOf[t] = o}
           S == {e \in Pages!Priced : ParentOf[pageGet.rows[e].task] = o}
           p == [e \in S |-> pageGet.rows[e].task]
<1>1. IsFiniteSet(Subs)
  <2>1. Subs \subseteq PageTasks /\ IsFiniteSet(PageTasks)
    BY ServicesAssumption DEF Pages!TypeOK
  <2> QED
    BY <2>1, FS_Subset
<1>2. \A e \in S : p[e] \in Subs
  BY DEF RowsCovered, Pages!Priced
<1>3. \A t \in Subs : {e \in S : p[e] = t} = {e \in Pages!Priced : pageGet.rows[e].task = t}
  OBVIOUS
<1>4. Pages!ByOrder(o) = Pages!MapThenSumSet(Pages!ByTask, Subs)
  BY DEF Pages!ByOrder
<1>5. S \in SUBSET Pages!Priced
  OBVIOUS
<1> HIDE DEF p, S, Subs
<1>6. Pages!CostOf(S) = Sum([t \in Subs |-> Pages!CostOf({e \in S : p[e] = t})], Subs)
  BY <1>1, <1>2, <1>5, CostOfParts
<1>7. [t \in Subs |-> Pages!CostOf({e \in S : p[e] = t})] = [t \in Subs |-> Pages!ByTask(t)]
  BY <1>3 DEF Pages!ByTask
<1>8. Pages!ByOrder(o) = Pages!CostOf(S)
  BY <1>1, <1>4, <1>6, <1>7, ByTaskIsSum
<1>9. ASSUME pageGet.orders[o] = Nothing PROVE Pages!ByOrder(o) = 0
  <2>1. Subs = {}
    BY <1>9, ServicesAssumption DEF Subs, ParentsShown
  <2>2. Pages!MapThenSumSet(Pages!ByTask, Subs) = Sum([t \in Subs |-> Pages!ByTask(t)], Subs)
    BY <1>1, ByTaskIsSum
  <2>3. Sum([t \in Subs |-> Pages!ByTask(t)], {}) = 0
    BY <1>1, SumUnfolds
  <2> QED
    BY <1>4, <2>1, <2>2, <2>3
<1> QED
  BY <1>8, <1>9 DEF S

\* Whatever is recorded between the reads of a request, and however many tasks and rows there
\* are, the page it gives adds up.
THEOREM PagesAddUpAlways == Spec => []PagesAddUp
<1>1. ASSUME PagesInv, pageGet.left = <<>>
      PROVE  Pages!Sample \cap Pages!FailedOrBlocked \subseteq again
  <2>1. ASSUME NEW o \in PageOrders, o \in pageGet.finished,
               pageGet.orders[o] \in {"failed", "blocked"}
        PROVE  o \in again
    <3>1. (orders[o] = pageGet.orders[o] \/ o \in again) /\ o \in finished
      BY <1>1, <2>1 DEF PagesInv
    <3>2. orders[o] = "done" \/ o \in again
      BY <1>1, <3>1 DEF PagesInv
    <3> QED
      BY <2>1, <3>1, <3>2
  <2> QED
    <3>1. Pages!Sample \cap Pages!FailedOrBlocked \subseteq PageOrders
      BY DEF Pages!FailedOrBlocked, Pages!WithStatus
    <3> QED
      BY <2>1, <3>1 DEF Pages!Sample, Pages!FailedOrBlocked, Pages!WithStatus
<1>2. ASSUME PagesInv, pageGet.left = <<>>, pageGet.page = "finance"
      PROVE  RowsCovered /\ ParentsShown
  BY <1>2 DEF PagesInv
<1>3. PagesInv => Pages!PagesAddUp
  <2> SUFFICES ASSUME PagesInv, pageGet.left = <<>> PROVE Pages!PagesAddUp
    BY DEF Pages!PagesAddUp
  <2>1. Pages!TypeOK
    BY DEF PagesInv
  <2> QED
    BY <1>1, <1>2, <2>1, FinanceAddsUp, OrdersAddUp DEF Pages!PagesAddUp
<1> QED
  BY <1>3, PagesAlways, PTL DEF PagesAddUp

-----------------------------------------------------------------------------
\* Books.

\* t begins with s.
Begins(s, t) == Len(s) <= Len(t) /\ \A i \in 1..Len(s) : s[i] = t[i]

\* A reader that nobody has disturbed has got the first pages of the table as it now is,
\* which begins with the table as it was; and it stops before its end only for the limit.
BooksInv ==
    /\ Ledger!TypeOK
    /\ ~touched => Begins(before, bookTable)
    /\ read.status = "reading" =>
           /\ read.page < MaxPages
           /\ ~touched => /\ Begins(read.rows, bookTable)
                          /\ Len(read.rows) = read.page * PageSize
                          /\ read.page > 0 => read.page * PageSize < Len(bookTable)
    /\ read.status = "ok" /\ ~touched =>
           /\ Begins(read.rows, bookTable)
           /\ Len(before) <= Len(read.rows) \/ Len(bookTable) > PageSize * MaxPages

LEMMA BooksInitially == Ledger!Init => BooksInv
<1> SUFFICES ASSUME Ledger!Init PROVE BooksInv
  OBVIOUS
<1>1. MaxPages \in Nat \ {0} /\ MaxInserts \in Nat /\ MaxBookEdits \in Nat
  BY ServicesAssumption
<1>2. /\ bookTable = << >> /\ read = [status |-> "idle", page |-> 0, rows |-> << >>]
      /\ before = << >> /\ touched = FALSE /\ inserts = 0 /\ bookEdits = 0
  BY DEF Ledger!Init
<1>3. read \in [status : {"idle", "reading", "ok", "error"}, page : 0..MaxPages,
               rows : Seq(Ledger!Rows)]
  BY <1>1, <1>2
<1>4. Ledger!TypeOK
  <2>1. << >> \in Seq(Ledger!Rows) /\ 0 \in 0..MaxInserts /\ 0 \in 0..MaxBookEdits
    BY <1>1
  <2> QED
    BY <1>2, <1>3, <2>1 DEF Ledger!TypeOK
<1>5. Begins(before, bookTable)
  BY <1>2 DEF Begins
<1>6. read.status = "idle"
  BY <1>2
<1> QED
  BY <1>4, <1>5, <1>6 DEF BooksInv

LEMMA BeginsAppended ==
    ASSUME NEW S, NEW s \in Seq(S), NEW t \in Seq(S), Begins(s, t), NEW e \in S
    PROVE  Begins(s, Append(t, e))
BY DEF Begins

LEMMA BooksStep == BooksInv /\ [Ledger!Next]_booksVars => BooksInv'
<1> SUFFICES ASSUME BooksInv, [Ledger!Next]_booksVars PROVE BooksInv'
  OBVIOUS
<1>0. /\ Ledger!TypeOK
      /\ bookTable \in Seq(Ledger!Rows) /\ before \in Seq(Ledger!Rows)
      /\ read.rows \in Seq(Ledger!Rows) /\ read.page \in 0..MaxPages
      /\ read.status \in {"idle", "reading", "ok", "error"}
  BY DEF BooksInv, Ledger!TypeOK
<1>00. PageSize \in Nat \ {0} /\ MaxPages \in Nat \ {0}
  BY ServicesAssumption
<1>1. ASSUME NEW r \in Ledger!Movements, Ledger!Insert(r) PROVE BooksInv'
  <2>1. r \in Ledger!Rows
    BY DEF Ledger!Movements, Ledger!Rows
  <2>2. /\ bookTable' = Append(bookTable, r) /\ UNCHANGED <<read, before, touched, bookEdits>>
    BY <1>1 DEF Ledger!Insert
  <2>3. Ledger!TypeOK'
    <3>1. inserts' \in 0..MaxInserts
      <4>1. MaxInserts \in Nat
        BY ServicesAssumption
      <4> QED
        BY <1>0, <1>1, <4>1 DEF Ledger!Insert, Ledger!TypeOK
    <3> QED
      BY <1>0, <2>1, <2>2, <3>1 DEF Ledger!TypeOK
  <2>4. Len(bookTable') = Len(bookTable) + 1 /\ Len(bookTable) \in Nat
    BY <1>0, <2>1, <2>2
  <2>5. /\ Begins(before, bookTable) => Begins(before, bookTable')
        /\ Begins(read.rows, bookTable) => Begins(read.rows, bookTable')
    BY <1>0, <2>1, <2>2, BeginsAppended
  <2>6. PageSize * MaxPages \in Nat /\ read.page * PageSize \in Nat
    BY <1>0, <1>00
  <2>7. UNCHANGED <<read, before, touched>>
    BY <2>2
  <2> QED
    BY <1>0, <2>3, <2>4, <2>5, <2>6, <2>7 DEF BooksInv
<1>2. ASSUME NEW i \in DOMAIN bookTable, NEW r \in Ledger!Cleared(bookTable[i]),
             Ledger!Edit(i, r)
      PROVE  BooksInv'
  <2>1. i \in 1..Len(bookTable) /\ bookTable[i] \in Ledger!Rows
    BY <1>0
  <2>2. r \in Ledger!Rows
    BY <2>1 DEF Ledger!Cleared, Ledger!Rows
  <2>3. [bookTable EXCEPT ![i] = r] \in Seq(Ledger!Rows)
    BY <1>0, <2>1, <2>2, ExceptSeq
  <2>4. Ledger!RemoveAt(bookTable, i) \in Seq(Ledger!Rows)
    <3>1. /\ SubSeq(bookTable, 1, i - 1) \in Seq(Ledger!Rows)
          /\ SubSeq(bookTable, i + 1, Len(bookTable)) \in Seq(Ledger!Rows)
      BY <1>0, <2>1
    <3> QED
      BY <3>1 DEF Ledger!RemoveAt
  <2>5. /\ bookTable' \in Seq(Ledger!Rows) /\ touched' = TRUE
        /\ UNCHANGED <<read, before, inserts>>
    BY <1>2, <2>3, <2>4 DEF Ledger!Edit
  <2>6. bookEdits' \in 0..MaxBookEdits
    <3>1. MaxBookEdits \in Nat
      BY ServicesAssumption
    <3> QED
      BY <1>0, <1>2, <3>1 DEF Ledger!Edit, Ledger!TypeOK
  <2>7. Ledger!TypeOK'
    BY <1>0, <2>5, <2>6 DEF Ledger!TypeOK
  <2> QED
    BY <2>5, <2>7 DEF BooksInv
<1>3. ASSUME Ledger!StartRead PROVE BooksInv'
  <2>1. /\ read' = [status |-> "reading", page |-> 0, rows |-> << >>]
        /\ before' = bookTable /\ touched' = FALSE
        /\ UNCHANGED <<bookTable, inserts, bookEdits>>
    BY <1>3 DEF Ledger!StartRead
  <2>2. Ledger!TypeOK'
    <3>1. read' \in [status : {"idle", "reading", "ok", "error"}, page : 0..MaxPages,
                     rows : Seq(Ledger!Rows)]
      BY <1>00, <2>1
    <3> QED
      BY <1>0, <2>1, <3>1 DEF Ledger!TypeOK
  <2>3. Begins(before', bookTable') /\ Begins(<< >>, bookTable')
    BY <1>0, <2>1 DEF Begins
  <2>4. 0 * PageSize = 0 /\ Len(<< >>) = 0
    BY <1>00
  <2>5. read'.status = "reading" /\ read'.page = 0 /\ read'.rows = << >>
    BY <2>1
  <2> QED
    BY <1>00, <2>2, <2>3, <2>4, <2>5 DEF BooksInv
<1>4. ASSUME Ledger!ReadPage PROVE BooksInv'
  <2> DEFINE first == read.page * PageSize
             upto == first + PageSize
             end == IF upto < Len(bookTable) THEN upto ELSE Len(bookTable)
             got == SubSeq(bookTable, first + 1, end)
             more == upto < Len(bookTable) /\ read.page + 1 < MaxPages
  <2>1. first \in Nat /\ upto \in Nat /\ end \in Nat /\ end <= Len(bookTable)
        /\ Len(bookTable) \in Nat
    BY <1>0, <1>00
  <2>2. Ledger!Min({upto, Len(bookTable)}) = end
    BY <2>1 DEF Ledger!Min
  <2>3. /\ read.status = "reading"
        /\ first < Len(bookTable) \/ read.page = 0
        /\ read' = [status |-> IF more THEN "reading" ELSE "ok",
                    page |-> IF more THEN read.page + 1 ELSE 0,
                    rows |-> read.rows \o got]
        /\ UNCHANGED <<bookTable, before, touched, inserts, bookEdits>>
    BY <1>4, <2>2 DEF Ledger!ReadPage, Ledger!FirstOf
  <2>4. read.page = 0 => first = 0
    BY <1>00
  <2>5. first <= end
    BY <1>00, <2>1, <2>3, <2>4
  <2>6. (read.page + 1) * PageSize = upto
    BY <1>0, <1>00
  <2>7. read.page + 1 = MaxPages => PageSize * MaxPages = upto
    BY <1>0, <1>00, <2>6
  <2>8. /\ read.page < MaxPages
        /\ ~touched => Begins(read.rows, bookTable) /\ Len(read.rows) = first
    <3>1. read.status = "reading"
      BY <2>3
    <3> QED
      BY <3>1 DEF BooksInv
  <2> HIDE DEF first
  <2> HIDE DEF upto, more
  <2>9. /\ got \in Seq(Ledger!Rows) /\ Len(got) = end - first
        /\ \A i \in 1..(end - first) : got[i] = bookTable[first + i]
    <3>1. \A i \in (first + 1)..end : bookTable[i] \in Ledger!Rows
      BY <1>0, <2>1
    <3>2. /\ got \in Seq(Ledger!Rows)
          /\ Len(got) = IF first + 1 <= end THEN end - (first + 1) + 1 ELSE 0
          /\ \A i \in 1..end - (first + 1) + 1 : got[i] = bookTable[(first + 1) + i - 1]
      BY <2>1, <3>1, SubSeqProperties
    <3> QED
      BY <2>1, <2>5, <3>2
  <2> HIDE DEF got, end
  <2>10. /\ read.rows \o got \in Seq(Ledger!Rows)
         /\ Len(read.rows \o got) = Len(read.rows) + (end - first)
         /\ \A i \in 1..(Len(read.rows) + (end - first)) :
                (read.rows \o got)[i] = IF i <= Len(read.rows) THEN read.rows[i]
                                        ELSE got[i - Len(read.rows)]
    <3>1. /\ read.rows \in Seq(Ledger!Rows) /\ got \in Seq(Ledger!Rows)
          /\ Len(got) = end - first
      BY <1>0, <2>9
    <3>2. /\ read.rows \o got \in Seq(Ledger!Rows)
          /\ Len(read.rows \o got) = Len(read.rows) + Len(got)
          /\ \A i \in 1..(Len(read.rows) + Len(got)) :
                 (read.rows \o got)[i] = IF i <= Len(read.rows) THEN read.rows[i]
                                         ELSE got[i - Len(read.rows)]
      BY <3>1, ConcatProperties
    <3> QED
      BY <3>1, <3>2
  <2>11. Ledger!TypeOK'
    <3>1. more => read.page + 1 \in 0..MaxPages
      BY <1>0, <1>00 DEF more
    <3>2. read' \in [status : {"idle", "reading", "ok", "error"}, page : 0..MaxPages,
                     rows : Seq(Ledger!Rows)]
      BY <1>00, <2>3, <2>10, <3>1
    <3> QED
      BY <1>0, <2>3, <3>2 DEF Ledger!TypeOK
  <2>12. ASSUME ~touched
         PROVE  /\ Begins(read.rows \o got, bookTable) /\ Len(read.rows \o got) = end
    <3>1. Begins(read.rows, bookTable) /\ Len(read.rows) = first
      BY <2>8, <2>12
    <3>2. Len(read.rows \o got) = end
      BY <2>1, <2>5, <2>10, <3>1
    <3>3. ASSUME NEW i \in 1..end PROVE (read.rows \o got)[i] = bookTable[i]
      <4>1. CASE i <= first
        BY <2>1, <2>5, <2>10, <3>1, <4>1 DEF Begins
      <4>2. CASE ~(i <= first)
        <5>1. i - first \in 1..(end - first) /\ first + (i - first) = i
          BY <2>1, <4>2
        <5>2. (read.rows \o got)[i] = got[i - first]
          <6>1. i \in 1..(Len(read.rows) + (end - first))
            BY <2>1, <2>5, <3>1
          <6> QED
            BY <2>10, <3>1, <4>2, <6>1
        <5>3. got[i - first] = bookTable[first + (i - first)]
          BY <2>9, <5>1
        <5> QED
          BY <5>1, <5>2, <5>3
      <4> QED
        BY <4>1, <4>2
    <3> QED
      BY <2>1, <3>2, <3>3 DEF Begins
  <2>13. read'.status = "reading" => more /\ read'.page = read.page + 1
    BY <2>3
  <2>14. read'.status = "ok" => ~more
    BY <2>3
  <2>15. read'.status \in {"reading", "ok"} /\ read'.rows = read.rows \o got
    BY <2>3
  <2>16. ASSUME more PROVE end = upto /\ upto < Len(bookTable) /\ read.page + 1 < MaxPages
    BY <2>16 DEF more, end
  <2>17. ASSUME ~more PROVE end = Len(bookTable) \/ Len(bookTable) > PageSize * MaxPages
    <3>1. CASE upto >= Len(bookTable)
      BY <2>1, <3>1 DEF end
    <3>2. CASE upto < Len(bookTable)
      <4>1. read.page + 1 = MaxPages
        BY <1>0, <1>00, <2>8, <2>17, <3>2 DEF more
      <4> QED
        BY <2>1, <2>7, <3>2, <4>1
    <3> QED
      BY <2>1, <3>1, <3>2
  <2>18. ~touched => Begins(before, bookTable)
    BY DEF BooksInv
  <2>19. ASSUME read'.status = "reading"
         PROVE  /\ read'.page < MaxPages
                /\ ~touched => /\ Begins(read'.rows, bookTable)
                               /\ Len(read'.rows) = read'.page * PageSize
                               /\ read'.page * PageSize < Len(bookTable)
    <3>1. more /\ read'.page = read.page + 1
      BY <2>13, <2>19
    <3>2. end = upto /\ upto < Len(bookTable) /\ read.page + 1 < MaxPages
      BY <2>16, <3>1
    <3> QED
      BY <2>6, <2>12, <2>15, <3>1, <3>2
  <2>20. ASSUME read'.status = "ok", ~touched
         PROVE  /\ Begins(read'.rows, bookTable)
                /\ Len(before) <= Len(read'.rows) \/ Len(bookTable) > PageSize * MaxPages
    <3>1. end = Len(bookTable) \/ Len(bookTable) > PageSize * MaxPages
      BY <2>14, <2>17, <2>20
    <3> QED
      BY <2>12, <2>15, <2>18, <2>20, <3>1 DEF Begins
  <2>21. UNCHANGED <<bookTable, before, touched>>
    BY <2>3
  <2> QED
    BY <2>11, <2>18, <2>19, <2>20, <2>21 DEF BooksInv
<1>5. ASSUME Ledger!ReadFails PROVE BooksInv'
  <2>1. /\ read' = [status |-> "error", page |-> 0, rows |-> << >>]
        /\ UNCHANGED <<bookTable, before, touched, inserts, bookEdits>>
    BY <1>5 DEF Ledger!ReadFails
  <2>2. Ledger!TypeOK'
    BY <1>0, <1>00, <2>1 DEF Ledger!TypeOK
  <2> QED
    BY <2>1, <2>2 DEF BooksInv
<1>6. ASSUME UNCHANGED booksVars PROVE BooksInv'
  BY <1>6 DEF booksVars, BooksInv, Ledger!TypeOK
<1> QED
  BY <1>1, <1>2, <1>3, <1>4, <1>5, <1>6 DEF Ledger!Next

LEMMA BooksAlways == Spec => [](part = "books" => BooksInv)
<1>1. Init => (part = "books" => BooksInv)
  BY BooksInitially DEF Init
<1>2. (part = "books" => BooksInv) /\ [Next]_vars => (part = "books" => BooksInv)'
  BY BooksStep DEF Next, vars
<1> QED
  BY <1>1, <1>2, PTL DEF Spec
\* What some of the rows add up to, what the months do and what the categories of a month
\* do are sums.
LEMMA SignedIsSum ==
    ASSUME NEW S, IsFiniteSet(S)
    PROVE  Ledger!SumOf(S) = Sum([i \in S |-> Ledger!Signed(read.rows[i])], S)
<1> DEFINE f == [i \in S |-> Ledger!Signed(read.rows[i])]
           Fold(g) == g = [s \in SUBSET S |->
                              IF s = {} THEN 0
                              ELSE Ledger!Signed(read.rows[CHOOSE x \in s : TRUE])
                                   + g[s \ {CHOOSE x \in s : TRUE}]]
<1>1. Ledger!SumOf(S) = (CHOOSE g : Fold(g))[S]
  BY DEF Ledger!SumOf, Ledger!MapThenSumSet, Ledger!MapThenFoldSet
<1>2. \A g : Fold(g) <=> Sums(S, f, g)
  BY DEF Sums, Chosen
<1> HIDE DEF Fold, f
<1>3. \E g : Fold(g)
  BY <1>2, SumsExist
<1>4. Fold(CHOOSE g : Fold(g))
  BY <1>3
<1> QED
  BY <1>1, <1>2, <1>4, SumIs DEF f

LEMMA MonthsAreSum ==
    ASSUME NEW n
    PROVE  Ledger!OverMonths(n) = Sum([m \in Months \cup {Nothing} |-> Ledger!Bucket(n, m)],
                                      Months \cup {Nothing})
<1> DEFINE S == Months \cup {Nothing}
           f == [m \in S |-> Ledger!Bucket(n, m)]
           Fold(g) == g = [s \in SUBSET S |->
                              IF s = {} THEN 0
                              ELSE Ledger!Bucket(n, CHOOSE x \in s : TRUE)
                                   + g[s \ {CHOOSE x \in s : TRUE}]]
<1>1. Ledger!OverMonths(n) = (CHOOSE g : Fold(g))[S]
  BY DEF Ledger!OverMonths, Ledger!MapThenSumSet, Ledger!MapThenFoldSet
<1>2. \A g : Fold(g) <=> Sums(S, f, g)
  BY DEF Sums, Chosen
<1>3. IsFiniteSet(S)
  <2>1. IsFiniteSet(Months)
    BY ServicesAssumption
  <2> QED
    BY <2>1, FS_AddElement
<1> HIDE DEF Fold, f, S
<1>4. \E g : Fold(g)
  BY <1>2, <1>3, SumsExist
<1>5. Fold(CHOOSE g : Fold(g))
  BY <1>4
<1> QED
  BY <1>1, <1>2, <1>3, <1>5, SumIs DEF f, S

LEMMA CategoriesAreSum ==
    ASSUME NEW n, NEW m
    PROVE  Ledger!OverCategories(n, m) =
               Sum([c \in Categories \cup {Nothing} |-> Ledger!PorCategoria(n, m, c)],
                   Categories \cup {Nothing})
<1> DEFINE S == Categories \cup {Nothing}
           f == [c \in S |-> Ledger!PorCategoria(n, m, c)]
           Fold(g) == g = [s \in SUBSET S |->
                              IF s = {} THEN 0
                              ELSE Ledger!PorCategoria(n, m, CHOOSE x \in s : TRUE)
                                   + g[s \ {CHOOSE x \in s : TRUE}]]
<1>1. Ledger!OverCategories(n, m) = (CHOOSE g : Fold(g))[S]
  BY DEF Ledger!OverCategories, Ledger!MapThenSumSet, Ledger!MapThenFoldSet
<1>2. \A g : Fold(g) <=> Sums(S, f, g)
  BY DEF Sums, Chosen
<1>3. IsFiniteSet(S)
  <2>1. IsFiniteSet(Categories)
    BY ServicesAssumption
  <2> QED
    BY <2>1, FS_AddElement
<1> HIDE DEF Fold, f, S
<1>4. \E g : Fold(g)
  BY <1>2, <1>3, SumsExist
<1>5. Fold(CHOOSE g : Fold(g))
  BY <1>4
<1> QED
  BY <1>1, <1>2, <1>3, <1>5, SumIs DEF f, S

\* What some rows with an amount add up to is what their parts do.
LEMMA SumOfPlaces ==
    ASSUME Ledger!TypeOK, NEW S \in SUBSET Ledger!Places,
           \A i \in S : read.rows[i].monto # Nothing,
           NEW T, IsFiniteSet(T), NEW p, \A i \in S : p[i] \in T
    PROVE  Ledger!SumOf(S) = Sum([t \in T |-> Ledger!SumOf({i \in S : p[i] = t})], T)
<1> DEFINE f == [i \in S |-> Ledger!Signed(read.rows[i])]
           Part(t) == {i \in S : p[i] = t}
<1>1. IsFiniteSet(S) /\ \A t \in T : IsFiniteSet(Part(t)) /\ Part(t) \subseteq S
  <2>1. S \subseteq 1..Len(read.rows) /\ Len(read.rows) \in Nat
    BY DEF Ledger!TypeOK, Ledger!Places
  <2>2. IsFiniteSet(S)
    <3>1. IsFiniteSet(1..Len(read.rows))
      BY <2>1, FS_Interval
    <3> QED
      BY <2>1, <3>1, FS_Subset
  <2> QED
    BY <2>2, FS_Subset
<1>2. \A i \in S : f[i] \in Int
  <2>1. \A i \in S : read.rows[i] \in Ledger!Rows
    BY DEF Ledger!TypeOK, Ledger!Places
  <2>2. \A i \in S : read.rows[i].monto \in Int
    BY <2>1 DEF Ledger!Rows, Ledger!Amounts
  <2> QED
    BY <2>2 DEF Ledger!Signed
<1>3. Ledger!SumOf(S) = Sum(f, S)
  BY <1>1, SignedIsSum
<1>4. ASSUME NEW t \in T PROVE Ledger!SumOf(Part(t)) = Sum(f, Part(t))
  <2> DEFINE g == [i \in Part(t) |-> Ledger!Signed(read.rows[i])]
  <2>1. Ledger!SumOf(Part(t)) = Sum(g, Part(t))
    BY <1>1, SignedIsSum
  <2>2. \A i \in Part(t) : f[i] = g[i]
    OBVIOUS
  <2> HIDE DEF f, g
  <2> QED
    BY <1>1, <2>1, <2>2, SumDepends
<1>5. [t \in T |-> Ledger!SumOf(Part(t))] = [t \in T |-> Sum(f, Part(t))]
  BY <1>4
<1> HIDE DEF f
<1>6. Sum(f, S) = Sum([t \in T |-> Sum(f, Part(t))], T)
  BY <1>1, <1>2, SumOfParts
<1> QED
  BY <1>3, <1>5, <1>6

\* The balance of a business is its flows of all months and of undated rows.
LEMMA SaldoAddsUp ==
    ASSUME Ledger!TypeOK, NEW n
    PROVE  Ledger!Saldo(n) = Ledger!OverMonths(n)
<1> DEFINE T == Months \cup {Nothing}
           S == {i \in Ledger!Places : /\ Ledger!Counted(read.rows[i])
                                       /\ Ledger!Negocio(read.rows[i]) = n}
           p == [i \in S |-> read.rows[i].mes]
<1>1. IsFiniteSet(T)
  <2>1. IsFiniteSet(Months)
    BY ServicesAssumption
  <2> QED
    BY <2>1, FS_AddElement
<1>2. S \in SUBSET Ledger!Places /\ \A i \in S : read.rows[i].monto # Nothing
  BY DEF Ledger!Counted
<1>3. \A i \in S : p[i] \in T
  <2>1. \A i \in S : read.rows[i] \in Ledger!Rows
    BY DEF Ledger!TypeOK, Ledger!Places
  <2> QED
    BY <2>1 DEF Ledger!Rows
<1>4. \A m \in T : {i \in S : p[i] = m} =
          {i \in Ledger!Places : /\ Ledger!Counted(read.rows[i])
                                 /\ Ledger!Negocio(read.rows[i]) = n
                                 /\ read.rows[i].mes = m}
  OBVIOUS
<1>5. Ledger!Saldo(n) = Ledger!SumOf(S)
  BY DEF Ledger!Saldo
<1> HIDE DEF p, S, T
<1>6. Ledger!SumOf(S) = Sum([m \in T |-> Ledger!SumOf({i \in S : p[i] = m})], T)
  BY <1>1, <1>2, <1>3, SumOfPlaces
<1>7. [m \in T |-> Ledger!SumOf({i \in S : p[i] = m})] = [m \in T |-> Ledger!Bucket(n, m)]
  BY <1>4 DEF Ledger!Bucket
<1>8. Ledger!OverMonths(n) = Sum([m \in T |-> Ledger!Bucket(n, m)], T)
  BY MonthsAreSum DEF T
<1> QED
  BY <1>5, <1>6, <1>7, <1>8

\* The flow of a month is what its categories add up to, if all its rows have a type.
LEMMA FlujoAddsUp ==
    ASSUME Ledger!TypeOK, NEW n, NEW m,
           \A i \in Ledger!OfMonth(n, m) : read.rows[i].tipo # Nothing
    PROVE  Ledger!Flujo(n, m) = Ledger!OverCategories(n, m)
<1> DEFINE T == Categories \cup {Nothing}
           S == {i \in Ledger!OfMonth(n, m) : Ledger!Counted(read.rows[i])}
           p == [i \in S |-> read.rows[i].categoria]
<1>1. IsFiniteSet(T)
  <2>1. IsFiniteSet(Categories)
    BY ServicesAssumption
  <2> QED
    BY <2>1, FS_AddElement
<1>2. S \in SUBSET Ledger!Places /\ \A i \in S : read.rows[i].monto # Nothing
  BY DEF Ledger!Counted, Ledger!OfMonth
<1>3. \A i \in S : p[i] \in T
  <2>1. \A i \in S : read.rows[i] \in Ledger!Rows
    BY <1>2 DEF Ledger!TypeOK, Ledger!Places
  <2> QED
    BY <2>1 DEF Ledger!Rows
<1>4. \A c \in T : {i \in S : p[i] = c} =
          {i \in Ledger!OfMonth(n, m) : /\ read.rows[i].monto # Nothing
                                        /\ read.rows[i].categoria = c}
  BY DEF Ledger!Counted
<1>5. Ledger!Flujo(n, m) = Ledger!SumOf(S)
  BY DEF Ledger!Flujo
<1> HIDE DEF p, S, T
<1>6. Ledger!SumOf(S) = Sum([c \in T |-> Ledger!SumOf({i \in S : p[i] = c})], T)
  BY <1>1, <1>2, <1>3, SumOfPlaces
<1>7. [c \in T |-> Ledger!SumOf({i \in S : p[i] = c})]
          = [c \in T |-> Ledger!PorCategoria(n, m, c)]
  BY <1>4 DEF Ledger!PorCategoria
<1>8. Ledger!OverCategories(n, m) = Sum([c \in T |-> Ledger!PorCategoria(n, m, c)], T)
  BY CategoriesAreSum DEF T
<1> QED
  BY <1>5, <1>6, <1>7, <1>8

LEMMA PrefixOfShorter ==
    ASSUME NEW S, NEW s \in Seq(S), NEW t \in Seq(S), Len(s) <= Len(t),
           \A i \in 1..Len(s) : s[i] = t[i]
    PROVE  Ledger!IsPrefix(s, t)
<1>1. SubSeq(s, 1, Len(s)) = s
  BY SubSeqFull
<1>2. SubSeq(t, 1, Len(s)) = s
  <2>1. \A i \in 1..Len(s) : t[i] \in S
    OBVIOUS
  <2>2. /\ SubSeq(t, 1, Len(s)) \in Seq(S) /\ Len(SubSeq(t, 1, Len(s))) = Len(s)
        /\ \A i \in 1..Len(s) : SubSeq(t, 1, Len(s))[i] = s[i]
    <3>1. Len(s) \in Nat
      OBVIOUS
    <3>2. /\ SubSeq(t, 1, Len(s)) \in Seq(S)
          /\ Len(SubSeq(t, 1, Len(s))) = IF 1 <= Len(s) THEN Len(s) - 1 + 1 ELSE 0
          /\ \A i \in 1..Len(s) - 1 + 1 : SubSeq(t, 1, Len(s))[i] = t[1 + i - 1]
      BY <2>1, <3>1, SubSeqProperties
    <3> QED
      BY <3>1, <3>2
  <2> QED
    BY <2>2, SeqEqual
<1> QED
  BY <1>1, <1>2 DEF Ledger!IsPrefix

\* However many rows, months and categories there are, whatever the owner clears or deletes
\* and others append between two pages: the three reports agree with one another, and
\* unless a row was changed under the reader they are about the rows of the table.
THEOREM BooksAddUpAlways == Spec => []BooksAddUp
<1>1. ASSUME BooksInv, read.status = "ok" PROVE Ledger!BooksAddUp
  <2>1. Ledger!TypeOK
    BY <1>1 DEF BooksInv
  <2>2. \A n, m : Ledger!Flujo(n, m) = Ledger!Bucket(n, m)
    <3>1. \A n, m : {i \in Ledger!OfMonth(n, m) : Ledger!Counted(read.rows[i])} =
              {i \in Ledger!Places : /\ Ledger!Counted(read.rows[i])
                                     /\ Ledger!Negocio(read.rows[i]) = n
                                     /\ read.rows[i].mes = m}
      BY DEF Ledger!OfMonth
    <3> QED
      BY <3>1 DEF Ledger!Flujo, Ledger!Bucket
  <2>3. ASSUME ~touched, Len(bookTable) <= PageSize * MaxPages
        PROVE  Ledger!IsPrefix(before, read.rows) /\ Ledger!IsPrefix(read.rows, bookTable)
    <3>1. /\ Begins(before, bookTable) /\ Begins(read.rows, bookTable)
          /\ Len(before) <= Len(read.rows) \/ Len(bookTable) > PageSize * MaxPages
      BY <1>1, <2>3 DEF BooksInv
    <3>2. /\ before \in Seq(Ledger!Rows) /\ read.rows \in Seq(Ledger!Rows)
          /\ bookTable \in Seq(Ledger!Rows)
      BY <2>1 DEF Ledger!TypeOK
    <3>3. Len(before) <= Len(read.rows)
      <4>1. PageSize * MaxPages \in Nat /\ Len(bookTable) \in Nat
        BY <3>2, ServicesAssumption
      <4> QED
        BY <2>3, <3>1, <4>1
    <3>4. \A i \in 1..Len(before) : before[i] = read.rows[i]
      BY <3>1, <3>2, <3>3 DEF Begins
    <3> QED
      BY <3>1, <3>2, <3>3, <3>4, PrefixOfShorter DEF Begins
  <2>4. \A n : Ledger!Saldo(n) = Ledger!OverMonths(n)
    BY <2>1, SaldoAddsUp
  <2>5. \A n, m : (\A i \in Ledger!OfMonth(n, m) : read.rows[i].tipo # Nothing)
                      => Ledger!Flujo(n, m) = Ledger!OverCategories(n, m)
    BY <2>1, FlujoAddsUp
  <2> QED
    BY <2>2, <2>3, <2>4, <2>5 DEF Ledger!BooksAddUp
<1>2. BooksInv => Ledger!BooksAddUp
  BY <1>1 DEF Ledger!BooksAddUp
<1> QED
  BY <1>2, BooksAlways, PTL DEF BooksAddUp

-----------------------------------------------------------------------------
\* Trends.

\* The rows that say only what has been measured.
Known(m, c, on, v) == \E d \in Metrics!Days :
                          [of |-> c, on |-> on, taken |-> d, value |-> v] \in m
RowsKnown(m) == {r \in Metrics!Rows : r.metric = "yt_watch_min_28d" =>
                                          Known(m, r.office, r.on, r.value)}

\* What is in the table, and what a run is yet to write, was measured, on the date of its run
\* or after it.
TrendsInv == /\ Metrics!TypeOK
             /\ metricTable \in Seq(RowsKnown(measured))
             /\ \A r \in FetchRuns : /\ fetchRun[r].todo \in Seq(RowsKnown(measured))
                                     /\ fetchRun[r].fecha <= metricDay
             /\ \A m \in measured : m.on <= m.taken

LEMMA TrendsInitially == Metrics!Init => TrendsInv
<1> SUFFICES ASSUME Metrics!Init PROVE TrendsInv
  OBVIOUS
<1>1. MetricDays \in Nat \ {0} /\ MaxOther \in Nat
  BY ServicesAssumption
<1>2. \A S : << >> \in Seq(S)
  OBVIOUS
<1>3. fetchRun = [r \in FetchRuns |-> [pc |-> "new", fecha |-> 1, next |-> 1, todo |-> << >>]]
  BY DEF Metrics!Init
<1>4. /\ metricDay = 1 /\ metricTable = << >> /\ others = 0 /\ measured = {}
  BY DEF Metrics!Init
<1>5. 1 \in Metrics!Days /\ 0 \in 0..MaxOther /\ 1 \in Metrics!Places
  BY <1>1, ServicesAssumption DEF Metrics!Days, Metrics!Places
<1>6. fetchRun \in [FetchRuns -> [pc : {"new", "fetching", "writing"}, fecha : Metrics!Days,
                                  next : Metrics!Places, todo : Seq(Metrics!Rows)]]
  BY <1>2, <1>3, <1>5
<1>7. Metrics!TypeOK
  BY <1>2, <1>4, <1>5, <1>6 DEF Metrics!TypeOK
<1>8. \A r \in FetchRuns : fetchRun[r].todo = << >> /\ fetchRun[r].fecha <= metricDay
  BY <1>3, <1>4
<1> QED
  BY <1>2, <1>4, <1>7, <1>8 DEF TrendsInv

LEMMA RowsOfAnswer ==
    ASSUME NEW c \in Metrics!Channels,
           NEW said \in Metrics!Values \cup {Unreachable, Nothing},
           NEW fecha \in Metrics!Days, NEW m,
           said \in Metrics!Values => Known(m, c, fecha, said)
    PROVE  Metrics!RowsOf(c, said, fecha) \in Seq(RowsKnown(m))
<1> DEFINE other == [on |-> fecha, office |-> c, metric |-> "other", value |-> 0]
           watch == [on |-> fecha, office |-> c, metric |-> "yt_watch_min_28d",
                     value |-> said]
<1>1. MaxValue \in Nat /\ Unreachable # Nothing
  BY ServicesAssumption
<1>2. other \in RowsKnown(m)
  BY <1>1 DEF RowsKnown, Metrics!Rows, Metrics!Values
<1>3. said \in Metrics!Values => watch \in RowsKnown(m)
  BY DEF RowsKnown, Metrics!Rows
<1>4. Metrics!RowsOf(c, said, fecha) = CASE said = Unreachable -> << >>
                                         [] said = Nothing -> <<other>>
                                         [] OTHER -> <<other, watch>>
  BY DEF Metrics!RowsOf
<1> HIDE DEF other, watch
<1>5. CASE said = Unreachable
  BY <1>1, <1>4, <1>5
<1>6. CASE said = Nothing
  BY <1>1, <1>2, <1>4, <1>6
<1>7. CASE said # Unreachable /\ said # Nothing
  BY <1>2, <1>3, <1>4, <1>7
<1> QED
  BY <1>5, <1>6, <1>7

LEMMA TrendsStep == TrendsInv /\ [Metrics!Next]_trendsVars => TrendsInv'
<1> SUFFICES ASSUME TrendsInv, [Metrics!Next]_trendsVars PROVE TrendsInv'
  OBVIOUS
<1> DEFINE Shape(f) == f \in [FetchRuns -> [pc : {"new", "fetching", "writing"},
                                           fecha : Metrics!Days, next : Metrics!Places,
                                           todo : Seq(Metrics!Rows)]]
<1>0. /\ Metrics!TypeOK /\ metricDay \in Metrics!Days /\ metricTable \in Seq(Metrics!Rows)
      /\ Shape(fetchRun)
      /\ metricTable \in Seq(RowsKnown(measured))
      /\ \A r \in FetchRuns : /\ fetchRun[r].todo \in Seq(RowsKnown(measured))
                              /\ fetchRun[r].fecha <= metricDay
      /\ \A m \in measured : m.on <= m.taken
  BY DEF TrendsInv, Metrics!TypeOK
<1>00. MaxOther \in Nat /\ MaxValue \in Nat /\ MetricDays \in Nat \ {0}
  BY ServicesAssumption
<1>1. ASSUME NEW r \in FetchRuns, Metrics!StartRun(r) PROVE TrendsInv'
  <2>1. /\ fetchRun' = [fetchRun EXCEPT ![r].pc = "fetching", ![r].fecha = metricDay]
        /\ UNCHANGED <<metricDay, metricTable, others, measured>>
    BY <1>1 DEF Metrics!StartRun
  <2>2. /\ Shape(fetchRun)'
        /\ \A x \in FetchRuns : /\ fetchRun'[x].todo = fetchRun[x].todo
                                /\ fetchRun'[x].fecha \in {fetchRun[x].fecha, metricDay}
    BY <1>0, <2>1
  <2>3. Metrics!TypeOK'
    BY <1>0, <2>1, <2>2 DEF Metrics!TypeOK
  <2>4. metricDay <= metricDay
    BY <1>0 DEF Metrics!Days
  <2> QED
    BY <1>0, <2>1, <2>2, <2>3, <2>4 DEF TrendsInv
<1>2. ASSUME NEW r \in FetchRuns, NEW said \in Metrics!Values \cup {Unreachable, Nothing},
             Metrics!Fetch(r, said)
      PROVE  TrendsInv'
  <2> DEFINE fecha == fetchRun[r].fecha
             c == CHANNEL_MAP[fetchRun[r].next]
             new == [of |-> c, on |-> fecha, taken |-> metricDay, value |-> said]
             todo == fetchRun[r].todo \o Metrics!RowsOf(c, said, fecha)
  <2>1. /\ fetchRun' = [fetchRun EXCEPT ![r].next = @ + 1, ![r].todo = todo]
        /\ measured' = IF said \in Metrics!Values THEN measured \cup {new} ELSE measured
        /\ UNCHANGED <<metricDay, metricTable, others>>
        /\ fetchRun[r].next <= Len(CHANNEL_MAP)
    BY <1>0, <1>2 DEF Metrics!Fetch
  <2>2. fecha \in Metrics!Days /\ fecha <= metricDay
    BY <1>0
  <2>3. c \in Metrics!Channels /\ fetchRun[r].next + 1 \in Metrics!Places
    <3>1. CHANNEL_MAP \in Seq(Metrics!Channels)
      BY ServicesAssumption DEF Metrics!Channels
    <3>2. /\ fetchRun[r].next \in 1..(Len(CHANNEL_MAP) + 1) /\ Len(CHANNEL_MAP) \in Nat
          /\ \A i \in 1..Len(CHANNEL_MAP) : CHANNEL_MAP[i] \in Metrics!Channels
      BY <1>0, <3>1 DEF Metrics!Places
    <3> QED
      BY <2>1, <3>2 DEF Metrics!Places
  <2>4. said \in Metrics!Values => Known(measured', c, fecha, said)
    BY <1>0, <2>1 DEF Known
  <2>5. /\ said \in Metrics!Values =>
               /\ new \in [of : Metrics!Channels, on : Metrics!Days, taken : Metrics!Days,
                           value : Metrics!Values]
               /\ new.on <= new.taken
        /\ measured \subseteq measured'
    BY <1>0, <2>1, <2>2, <2>3
  <2> HIDE DEF fecha, new, c
  <2>6. Metrics!RowsOf(c, said, fecha) \in Seq(RowsKnown(measured'))
    BY <2>2, <2>3, <2>4, RowsOfAnswer
  <2>7. /\ RowsKnown(measured') \subseteq Metrics!Rows
        /\ RowsKnown(measured) \subseteq RowsKnown(measured')
    BY <2>5 DEF RowsKnown, Known
  <2>8. \A s : /\ s \in Seq(RowsKnown(measured)) => s \in Seq(RowsKnown(measured'))
               /\ s \in Seq(RowsKnown(measured')) => s \in Seq(Metrics!Rows)
    BY <2>7, SeqMonotonic
  <2>9. todo \in Seq(RowsKnown(measured'))
    <3>1. fetchRun[r].todo \in Seq(RowsKnown(measured'))
      BY <1>0, <2>8
    <3> QED
      BY <2>6, <3>1, ConcatProperties
  <2> HIDE DEF todo
  <2>10. /\ Shape(fetchRun)'
         /\ \A x \in FetchRuns :
                /\ fetchRun'[x].todo = IF x = r THEN todo ELSE fetchRun[x].todo
                /\ fetchRun'[x].fecha = fetchRun[x].fecha
    BY <1>0, <2>1, <2>3, <2>8, <2>9
  <2>11. Metrics!TypeOK'
    BY <1>0, <2>1, <2>5, <2>10 DEF Metrics!TypeOK
  <2>12. \A m \in measured' : m.on <= m.taken
    BY <1>0, <2>1, <2>5
  <2>13. /\ metricTable' \in Seq(RowsKnown(measured'))
         /\ \A x \in FetchRuns : /\ fetchRun'[x].todo \in Seq(RowsKnown(measured'))
                                 /\ fetchRun'[x].fecha <= metricDay'
    BY <1>0, <2>1, <2>8, <2>9, <2>10
  <2>14. RowsKnown(measured)' = RowsKnown(measured')
    BY DEF RowsKnown, Known
  <2> QED
    BY <2>11, <2>12, <2>13, <2>14 DEF TrendsInv
<1>3. ASSUME NEW r \in FetchRuns, NEW posts \in BOOLEAN, Metrics!FetchPosts(r, posts)
      PROVE  TrendsInv'
  <2> DEFINE fecha == fetchRun[r].fecha
             p == [on |-> fecha, office |-> "uploadpost", metric |-> "other", value |-> 0]
             todo == fetchRun[r].todo \o Metrics!PostRows(posts, fecha)
  <2>1. /\ fetchRun' = [fetchRun EXCEPT ![r].pc = "writing", ![r].todo = todo]
        /\ UNCHANGED <<metricDay, metricTable, others, measured>>
    BY <1>0, <1>3 DEF Metrics!FetchPosts
  <2>2. p \in RowsKnown(measured)
    BY <1>0, <1>00 DEF RowsKnown, Metrics!Rows, Metrics!Values
  <2>3. Metrics!PostRows(posts, fecha) = IF posts THEN <<p>> ELSE << >>
    BY DEF Metrics!PostRows
  <2> HIDE DEF p
  <2>4. todo \in Seq(RowsKnown(measured))
    BY <1>0, <2>2, <2>3, ConcatProperties
  <2>5. \A s : s \in Seq(RowsKnown(measured)) => s \in Seq(Metrics!Rows)
    <3>1. RowsKnown(measured) \subseteq Metrics!Rows
      BY DEF RowsKnown
    <3> QED
      BY <3>1, SeqMonotonic
  <2> HIDE DEF todo
  <2>6. /\ Shape(fetchRun)'
        /\ \A x \in FetchRuns : /\ fetchRun'[x].todo = IF x = r THEN todo ELSE fetchRun[x].todo
                                /\ fetchRun'[x].fecha = fetchRun[x].fecha
    BY <1>0, <2>1, <2>4, <2>5
  <2>7. Metrics!TypeOK'
    BY <1>0, <2>1, <2>6 DEF Metrics!TypeOK
  <2> QED
    BY <1>0, <2>1, <2>4, <2>6, <2>7 DEF TrendsInv
<1>4. ASSUME NEW r \in FetchRuns, Metrics!Write(r) PROVE TrendsInv'
  <2> DEFINE todo == fetchRun[r].todo
  <2>1. /\ todo # << >> /\ metricTable' \in {metricTable, Append(metricTable, Head(todo))}
        /\ fetchRun' = [fetchRun EXCEPT ![r].todo = Tail(todo)]
        /\ UNCHANGED <<metricDay, others, measured>>
    BY <1>0, <1>4 DEF Metrics!Write
  <2>2. todo \in Seq(RowsKnown(measured)) /\ RowsKnown(measured) \subseteq Metrics!Rows
    BY <1>0 DEF RowsKnown
  <2> HIDE DEF todo
  <2>3. Head(todo) \in RowsKnown(measured) /\ Tail(todo) \in Seq(RowsKnown(measured))
    BY <2>1, <2>2, HeadTailProperties
  <2>4. \A s : s \in Seq(RowsKnown(measured)) => s \in Seq(Metrics!Rows)
    BY <2>2, SeqMonotonic
  <2>5. metricTable' \in Seq(RowsKnown(measured))
    <3>1. Append(metricTable, Head(todo)) \in Seq(RowsKnown(measured))
      BY <1>0, <2>3, AppendProperties
    <3> QED
      BY <1>0, <2>1, <3>1
  <2>6. /\ Shape(fetchRun)'
        /\ \A x \in FetchRuns : /\ fetchRun'[x].todo = IF x = r THEN Tail(todo)
                                                       ELSE fetchRun[x].todo
                                /\ fetchRun'[x].fecha = fetchRun[x].fecha
    BY <1>0, <2>1, <2>3, <2>4
  <2>7. Metrics!TypeOK'
    BY <1>0, <2>1, <2>4, <2>5, <2>6 DEF Metrics!TypeOK
  <2> QED
    BY <1>0, <2>1, <2>3, <2>5, <2>6, <2>7 DEF TrendsInv
<1>5. ASSUME Metrics!CycleWrites PROVE TrendsInv'
  <2> DEFINE s == [on |-> metricDay, office |-> "sistema", metric |-> "other", value |-> 0]
  <2>1. /\ metricTable' = Append(metricTable, s) /\ others' \in 0..MaxOther
        /\ UNCHANGED <<metricDay, fetchRun, measured>>
    BY <1>0, <1>00, <1>5 DEF Metrics!CycleWrites, Metrics!TypeOK
  <2>2. s \in RowsKnown(measured) /\ s \in Metrics!Rows
    BY <1>0, <1>00 DEF RowsKnown, Metrics!Rows, Metrics!Values
  <2> HIDE DEF s
  <2>3. metricTable' \in Seq(RowsKnown(measured)) /\ metricTable' \in Seq(Metrics!Rows)
    BY <1>0, <2>1, <2>2, AppendProperties
  <2>4. Metrics!TypeOK'
    BY <1>0, <2>1, <2>3 DEF Metrics!TypeOK
  <2> QED
    BY <1>0, <2>1, <2>3, <2>4 DEF TrendsInv
<1>6. ASSUME Metrics!NextDay PROVE TrendsInv'
  <2>1. /\ metricDay' \in Metrics!Days /\ metricDay' = metricDay + 1
        /\ UNCHANGED <<metricTable, fetchRun, others, measured>>
    BY <1>0, <1>00, <1>6 DEF Metrics!NextDay, Metrics!Days
  <2>2. Metrics!TypeOK'
    BY <1>0, <2>1 DEF Metrics!TypeOK
  <2>3. \A r \in FetchRuns : fetchRun[r].fecha <= metricDay'
    BY <1>0, <2>1 DEF Metrics!Days
  <2> QED
    BY <1>0, <2>1, <2>2, <2>3 DEF TrendsInv
<1>7. ASSUME UNCHANGED trendsVars PROVE TrendsInv'
  BY <1>7 DEF trendsVars, TrendsInv, Metrics!TypeOK
<1> QED
  BY <1>1, <1>2, <1>3, <1>4, <1>5, <1>6, <1>7 DEF Metrics!Next

LEMMA TrendsAlways == Spec => [](part = "trends" => TrendsInv)
<1>1. Init => (part = "trends" => TrendsInv)
  BY TrendsInitially DEF Init
<1>2. (part = "trends" => TrendsInv) /\ [Next]_vars => (part = "trends" => TrendsInv)'
  BY TrendsStep DEF Next, vars
<1> QED
  BY <1>1, <1>2, PTL DEF Spec
LEMMA MetricsCardinality == ASSUME NEW S PROVE Metrics!Cardinality(S) = Cardinality(S)
BY DEF Cardinality, Metrics!Cardinality

LEMMA EndsOfNumbers ==
    ASSUME NEW n \in Nat, NEW S \in SUBSET (1..n), S # {}
    PROVE  /\ Metrics!Min(S) \in S /\ \A x \in S : Metrics!Min(S) <= x
           /\ Metrics!Max(S) \in S /\ \A x \in S : x <= Metrics!Max(S)
<1>1. \E x \in S : \A y \in S : x =< y
  BY LeastNatural
<1>2. \E x \in S : \A y \in S : x >= y
  <2> DEFINE T == {n - x : x \in S}
  <2>1. T \in SUBSET Nat /\ T # {}
    <3>1. \A x \in S : n - x \in Nat
      OBVIOUS
    <3> QED
      BY <3>1
  <2>2. PICK t \in T : \A u \in T : t <= u
    <3> HIDE DEF T
    <3> QED
      BY <2>1, LeastNatural
  <2>3. PICK x \in S : t = n - x
    BY <2>2
  <2>4. \A y \in S : n - x <= n - y
    BY <2>2, <2>3
  <2> QED
    BY <2>4
<1> QED
  BY <1>1, <1>2 DEF Metrics!Min, Metrics!Max

\* As many different days as there are lie between the first and the last.
LEMMA DaysApart ==
    ASSUME NEW n \in Nat, NEW S \in SUBSET (1..n), S # {}
    PROVE  Cardinality(S) <= Metrics!Max(S) - Metrics!Min(S) + 1
<1> DEFINE a == Metrics!Min(S)
           b == Metrics!Max(S)
<1>1. a \in S /\ b \in S /\ \A x \in S : a <= x /\ x <= b
  BY EndsOfNumbers
<1> HIDE DEF a, b
<1>2. a \in Int /\ b \in Int /\ a <= b /\ S \subseteq a..b
  BY <1>1
<1>3. IsFiniteSet(a..b) /\ Cardinality(a..b) = b - a + 1
  BY <1>2, FS_Interval
<1>4. Cardinality(S) <= b - a + 1
  BY <1>2, <1>3, FS_Subset
<1> QED
  BY <1>4 DEF a, b

\* The first and the last point of a channel are rows of the table, of its first day and of
\* its last.
LEMMA TrendPoints ==
    ASSUME Metrics!TypeOK, metricTable \in Seq(RowsKnown(measured)),
           NEW c, Metrics!PointDays(c) # {}
    PROVE  /\ Metrics!Oldest(c) \in Nat /\ Metrics!Newest(c) \in Nat
           /\ Metrics!PointDays(c) \in SUBSET Metrics!Days
           /\ Known(measured, c, Metrics!Min(Metrics!PointDays(c)), Metrics!Oldest(c))
           /\ Known(measured, c, Metrics!Max(Metrics!PointDays(c)), Metrics!Newest(c))
<1> DEFINE N == Len(metricTable)
<1>1. N \in Nat /\ Capacity \in Nat /\ MetricDays \in Nat /\ MaxValue \in Nat
  BY ServicesAssumption
<1>2. Metrics!Points(c) \subseteq 1..N
  <2>1. Metrics!Min({N, Capacity}) \in Nat /\ Metrics!Min({N, Capacity}) <= N
    <3>1. Metrics!Min({N, Capacity}) = IF N <= Capacity THEN N ELSE Capacity
      BY <1>1 DEF Metrics!Min
    <3> QED
      BY <1>1, <3>1
  <2> QED
    BY <1>1, <2>1 DEF Metrics!Points, Metrics!Fetched
<1>3. ASSUME NEW i \in Metrics!Points(c)
      PROVE  /\ metricTable[i].value \in Nat /\ metricTable[i].on \in Metrics!Days
             /\ Known(measured, c, metricTable[i].on, metricTable[i].value)
  <2>1. metricTable[i] \in RowsKnown(measured)
    BY <1>2
  <2>2. metricTable[i].office = c /\ metricTable[i].metric = "yt_watch_min_28d"
    BY DEF Metrics!Points, Metrics!WatchOf
  <2>3. metricTable[i].value \in Metrics!Values /\ metricTable[i].on \in Metrics!Days
    BY <2>1 DEF RowsKnown, Metrics!Rows
  <2> QED
    BY <1>1, <2>1, <2>2, <2>3 DEF RowsKnown, Metrics!Values
<1>4. Metrics!PointDays(c) \in SUBSET (1..MetricDays)
  BY <1>3 DEF Metrics!PointDays, Metrics!Days
<1> HIDE DEF N
<1>5. ASSUME NEW d \in Metrics!PointDays(c)
      PROVE  /\ Metrics!On(c, d) # {} /\ Metrics!On(c, d) \in SUBSET (1..N)
             /\ \A i \in Metrics!On(c, d) : /\ metricTable[i].value \in Nat
                                            /\ Known(measured, c, d, metricTable[i].value)
  BY <1>2, <1>3 DEF Metrics!On, Metrics!PointDays
<1> DEFINE a == Metrics!Min(Metrics!PointDays(c))
           b == Metrics!Max(Metrics!PointDays(c))
<1>6. a \in Metrics!PointDays(c) /\ b \in Metrics!PointDays(c)
  BY <1>1, <1>4, EndsOfNumbers
<1> HIDE DEF a, b
<1>7. Metrics!Min(Metrics!On(c, a)) \in Metrics!On(c, a)
  BY <1>1, <1>5, <1>6, EndsOfNumbers
<1>8. Metrics!Max(Metrics!On(c, b)) \in Metrics!On(c, b)
  BY <1>1, <1>5, <1>6, EndsOfNumbers
<1>9. Metrics!Oldest(c) \in Nat /\ Known(measured, c, a, Metrics!Oldest(c))
  BY <1>5, <1>6, <1>7 DEF Metrics!Oldest, a
<1>10. Metrics!Newest(c) \in Nat /\ Known(measured, c, b, Metrics!Newest(c))
  BY <1>5, <1>6, <1>8 DEF Metrics!Newest, b
<1> QED
  BY <1>4, <1>9, <1>10 DEF a, b, Metrics!Days

\* Whatever requests and writes fail, on how many channels and days, and however runs
\* overlap: what is said of a channel compares two answers for it under dates as far apart
\* as it takes, got on days as far apart unless the earlier came a midnight late.
THEOREM TrendsMeasured == Spec => []TrendsAreMeasured
<1>1. ASSUME TrendsInv, NEW c \in Metrics!Channels,
             Metrics!Classification(c) # "sin_datos_suficientes"
      PROVE  \E old, new \in {m \in measured : m.of = c} :
                /\ new.on - old.on >= MinDays - 1
                /\ new.taken - old.taken >= MinDays - 1 \/ old.taken > old.on
                /\ Len(metricTable) <= Capacity =>
                       \A i \in DOMAIN metricTable :
                           Metrics!WatchOf(c, metricTable[i]) => metricTable[i].on <= new.on
                /\ LET gain == 10 * (new.value - old.value)
                   IN  CASE Metrics!Classification(c) = "MATAR" -> gain <= -old.value
                         [] Metrics!Classification(c) = "ESCALAR" -> gain >= old.value
                         [] OTHER -> gain \in (-old.value)..old.value
  <2> DEFINE D == Metrics!PointDays(c)
             gain == 10 * (Metrics!Newest(c) - Metrics!Oldest(c))
             said == Metrics!Classification(c)
  <2>1. MinDays \in Nat \ {0} /\ MetricDays \in Nat
    BY ServicesAssumption
  <2>2. Metrics!TypeOK /\ metricTable \in Seq(RowsKnown(measured))
    BY <1>1 DEF TrendsInv
  <2>3. /\ ~(Metrics!Cardinality(D) < MinDays)
        /\ said = IF Metrics!Oldest(c) = 0
                  THEN IF Metrics!Newest(c) > 0 THEN "ESCALAR" ELSE "MANTENER"
                  ELSE IF gain >= Metrics!Oldest(c) THEN "ESCALAR"
                  ELSE IF gain <= -Metrics!Oldest(c) THEN "MATAR"
                  ELSE "MANTENER"
    BY <1>1 DEF Metrics!Classification
  <2>4. D # {}
    <3>1. Cardinality({}) = 0
      BY FS_EmptySet
    <3> QED
      BY <2>1, <2>3, <3>1, MetricsCardinality
  <2> HIDE DEF D
  <2>5. /\ Metrics!Oldest(c) \in Nat /\ Metrics!Newest(c) \in Nat
        /\ D \in SUBSET (1..MetricDays)
        /\ Known(measured, c, Metrics!Min(D), Metrics!Oldest(c))
        /\ Known(measured, c, Metrics!Max(D), Metrics!Newest(c))
    BY <2>2, <2>4, TrendPoints DEF D, Metrics!Days
  <2>6. Metrics!Min(D) \in D /\ Metrics!Max(D) \in D
    BY <2>1, <2>4, <2>5, EndsOfNumbers
  <2>7. Cardinality(D) <= Metrics!Max(D) - Metrics!Min(D) + 1
    BY <2>1, <2>4, <2>5, DaysApart
  <2>8. Cardinality(D) \in Nat /\ Metrics!Cardinality(D) = Cardinality(D)
    <3>1. IsFiniteSet(1..MetricDays)
      BY <2>1, FS_Interval
    <3>2. IsFiniteSet(D)
      BY <2>5, <3>1, FS_Subset
    <3> QED
      BY <3>2, FS_CardinalityType, MetricsCardinality
  <2>9. Metrics!Max(D) - Metrics!Min(D) >= MinDays - 1
    <3>1. Metrics!Max(D) \in Int /\ Metrics!Min(D) \in Int
      <4>1. \A x \in D : x \in Int
        BY <2>1, <2>5
      <4> QED
        BY <2>6, <4>1
    <3> QED
      BY <2>1, <2>3, <2>7, <2>8, <3>1
  <2>10. ASSUME Len(metricTable) <= Capacity, NEW i \in DOMAIN metricTable,
                Metrics!WatchOf(c, metricTable[i])
         PROVE  metricTable[i].on <= Metrics!Max(D)
    <3>1. Capacity \in Nat /\ Len(metricTable) \in Nat /\ i \in 1..Len(metricTable)
      BY <2>2, ServicesAssumption
    <3>2. Metrics!Min({Len(metricTable), Capacity}) = Len(metricTable)
      BY <2>10, <3>1 DEF Metrics!Min
    <3>3. metricTable[i].on \in D
      BY <2>10, <3>1, <3>2 DEF D, Metrics!PointDays, Metrics!Points, Metrics!Fetched
    <3> QED
      BY <2>1, <2>4, <2>5, <3>3, EndsOfNumbers
  <2>11. /\ said = "MATAR" => gain <= -Metrics!Oldest(c)
         /\ said = "ESCALAR" => gain >= Metrics!Oldest(c)
         /\ said \notin {"MATAR", "ESCALAR"} =>
                gain \in (-Metrics!Oldest(c))..Metrics!Oldest(c)
    BY <2>3, <2>5
  <2> HIDE DEF said, gain
  <2>12. (CASE said = "MATAR" -> gain <= -Metrics!Oldest(c)
            [] said = "ESCALAR" -> gain >= Metrics!Oldest(c)
            [] OTHER -> gain \in (-Metrics!Oldest(c))..Metrics!Oldest(c))
    <3>1. "ESCALAR" # "MATAR"
      OBVIOUS
    <3> QED
      BY <2>11, <3>1
  <2>13. PICK old \in measured : /\ old.of = c /\ old.on = Metrics!Min(D)
                                 /\ old.value = Metrics!Oldest(c)
    BY <2>5 DEF Known
  <2>14. PICK new \in measured : /\ new.of = c /\ new.on = Metrics!Max(D)
                                 /\ new.value = Metrics!Newest(c)
    BY <2>5 DEF Known
  <2>15. new.taken - old.taken >= MinDays - 1 \/ old.taken > old.on
    <3>1. /\ old.on <= old.taken /\ new.on <= new.taken
          /\ old.on \in Int /\ old.taken \in Int /\ new.on \in Int /\ new.taken \in Int
      BY <1>1, <2>2, <2>13, <2>14 DEF TrendsInv, Metrics!TypeOK, Metrics!Days
    <3> QED
      BY <2>1, <2>9, <2>13, <2>14, <3>1
  <2>16. gain = 10 * (new.value - old.value)
    BY <2>13, <2>14 DEF gain
  <2> QED
    BY <2>9, <2>10, <2>12, <2>13, <2>14, <2>15, <2>16 DEF said
<1>2. TrendsInv => Metrics!TrendsAreMeasured
  BY <1>1 DEF Metrics!TrendsAreMeasured
<1> QED
  BY <1>2, TrendsAlways, PTL DEF TrendsAreMeasured
-----------------------------------------------------------------------------
\* Every part keeps its variables of their types, whatever its parameters are that the
\* assumptions allow: each of the inductive invariants has the type invariant in it.
THEOREM PartsTyped == Spec => []TypeOK
<1>0. Spec => [](part \in Parts)
  <2>1. Init => part \in Parts
    BY DEF Init
  <2>2. part \in Parts /\ [Next]_vars => (part \in Parts)'
    BY DEF Next, vars
  <2> QED
    BY <2>1, <2>2, PTL DEF Spec
<1> DEFINE
    Typed1 == /\ part = "money" => Money!TypeOK
              /\ part = "probes" => Health!TypeOK
              /\ part = "memory" => Memory!TypeOK
              /\ part = "offices" => Launcher!TypeOK
    Typed2 == /\ part = "pages" => Pages!TypeOK
              /\ part = "trends" => Metrics!TypeOK
              /\ part = "books" => Ledger!TypeOK
              /\ part = "runner" => Children!TypeOK
    Typed3 == /\ part = "keys" => Registry!TypeOK
              /\ part = "audit" => Audits!TypeOK
              /\ part = "content" => Matrix!TypeOK
              /\ part = "routing" => Router!TypeOK
              /\ part = "virality" => Scouts!TypeOK
<1>1. Spec => []Typed1
  <2>1. (/\ part = "money" => OverspendInv
         /\ part = "probes" => ProbesInv
         /\ part = "memory" => MemoryInv
         /\ part = "offices" => OfficesInv)
        => Typed1
    BY DEF OverspendInv, SpendInv, SpendTypes, ProbesInv, MemoryInv, OfficesInv
  <2> QED
    BY <2>1, MoneyAlways, ProbesAlways, MemoryAlways, OfficesAlways, PTL
<1>2. Spec => []Typed2
  <2>1. (/\ part = "pages" => PagesInv
         /\ part = "trends" => TrendsInv
         /\ part = "books" => BooksInv
         /\ part = "runner" => RunnerInv)
        => Typed2
    BY DEF PagesInv, TrendsInv, BooksInv, RunnerInv
  <2> QED
    BY <2>1, PagesAlways, TrendsAlways, BooksAlways, RunnerAlways, PTL
<1>3. Spec => []Typed3
  <2>1. (/\ part = "keys" => RegistryInv
         /\ part = "audit" => AuditInv
         /\ part = "content" => ContentInv
         /\ part = "routing" => RoutingInv
         /\ part = "virality" => ViralityInv)
        => Typed3
    BY DEF RegistryInv, AuditInv, ContentInv, RoutingInv, ViralityInv
  <2> QED
    BY <2>1, RegistryAlways, AuditAlways, ContentAlways, RoutingAlways, ViralityAlways, PTL
<1>4. part \in Parts /\ Typed1 /\ Typed2 /\ Typed3 => TypeOK
  BY DEF TypeOK
<1> HIDE DEF Typed1, Typed2, Typed3
<1> QED
  BY <1>0, <1>1, <1>2, <1>3, <1>4, PTL
================================================================================
