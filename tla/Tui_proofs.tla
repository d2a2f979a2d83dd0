----------------------------- MODULE Tui_proofs -----------------------------
(***************************************************************************)
(* Theorems about the terminal UI: its screen (module Screen), for any     *)
(* trackers, saved states and number of keys, messages and reloads, and    *)
(* the watcher that reloads it (module TuiWatch), for any ticks, commands  *)
(* and edits.                                                              *)
(***************************************************************************)
EXTENDS Screen, TuiWatch, SequenceTheorems, WellFoundedInduction, TLAPS

-----------------------------------------------------------------------------
(***************************************************************************)
(* Sequences: what Listed and the searches among rows return.              *)
(***************************************************************************)

\* A set of numbers has a least one: what stands in for induction.
LEMMA LeastNumber ==
  ASSUME NEW S, S \subseteq Nat, S # {}
  PROVE  \E x \in S : \A y \in S : x <= y
<1> DEFINE R == {ss \in Nat \X Nat : ss[1] < ss[2]}
<1>1. IsWellFoundedOn(R, Nat)
  BY NatLessThanWellFounded, Zenon DEF OpToRel
<1>2. \A x, y \in Nat : <<x, y>> \in R <=> x < y
  OBVIOUS
<1> HIDE DEF R
<1>3. PICK x \in S : \A y \in S : ~ (<<y, x>> \in R)
  BY <1>1, WFMin
<1>4. \A y \in S : ~(y < x)
  BY <1>2, <1>3
<1>5. \A y \in S : x <= y
  BY <1>4
<1> QED
  BY <1>5

Steps(F, a, f, N) ==
  f[0] = a /\ \A n \in 1 .. N : f[n] = F[n, f[n - 1]]

\* A function on 0 .. N that is given by its start and its steps exists.
LEMMA StepsExist ==
  ASSUME NEW D, NEW N \in Nat, NEW F \in [Nat \X D -> D], NEW a \in D
  PROVE  \E f \in [0 .. N -> D] : Steps(F, a, f, N)
<1> DEFINE Good(n) == \E f \in [0 .. n -> D] : Steps(F, a, f, n)
           Bad == {n \in Nat : ~Good(n)}
<1>1. SUFFICES ASSUME Bad # {} PROVE FALSE
  OBVIOUS
<1>2. PICK m \in Bad : \A n \in Bad : m <= n
  <2>1. Bad \subseteq Nat
    OBVIOUS
  <2> HIDE DEF Bad
  <2> QED
    BY <1>1, <2>1, LeastNumber
<1>3. Good(0)
  <2> DEFINE f == [n \in 0 .. 0 |-> a]
  <2>1. f \in [0 .. 0 -> D] /\ f[0] = a /\ \A n \in 1 .. 0 : f[n] = F[n, f[n - 1]]
    OBVIOUS
  <2> HIDE DEF f
  <2> QED
    BY <2>1 DEF Steps
<1>4. m \in Nat /\ m # 0 /\ ~Good(m)
  BY <1>2, <1>3
<1>5. Good(m - 1)
  <2>1. m - 1 \in Nat /\ ~(m <= m - 1)
    BY <1>4
  <2> HIDE DEF Good
  <2> QED
    BY <1>2, <2>1
<1>6. PICK f \in [0 .. m - 1 -> D] : Steps(F, a, f, m - 1)
  BY <1>5
<1> DEFINE last == F[m, f[m - 1]]
           g == [n \in 0 .. m |-> IF n = m THEN last ELSE f[n]]
<1>7. g \in [0 .. m -> D] /\ last \in D
  <2>1. f[m - 1] \in D
    BY <1>4, <1>6
  <2>2. <<m, f[m - 1]>> \in Nat \X D
    BY <1>4, <2>1
  <2>3. last \in D
    BY <2>2
  <2> HIDE DEF last
  <2> QED
    BY <1>4, <1>6, <2>3
<1>8. Steps(F, a, g, m)
  <2>0. last = F[m, f[m - 1]]
    OBVIOUS
  <2> HIDE DEF last
  <2>1. g[0] = a
    <3>1. 0 \in 0 .. m /\ 0 # m
      BY <1>4
    <3>2. f[0] = a
      BY <1>6 DEF Steps
    <3> QED
      BY <3>1, <3>2
  <2>2. ASSUME NEW n \in 1 .. m PROVE g[n] = F[n, g[n - 1]]
    <3>1. CASE n = m
      <4>1. g[n] = last /\ m - 1 # m /\ m - 1 \in 0 .. m /\ g[m - 1] = f[m - 1]
        BY <1>4, <3>1
      <4> QED
        BY <2>0, <3>1, <4>1
    <3>2. CASE n # m
      <4>1. n \in 1 .. m - 1 /\ n \in 0 .. m /\ n - 1 \in 0 .. m /\ n - 1 # m
        BY <1>4, <3>2
      <4> QED
        BY <1>6, <3>2, <4>1 DEF Steps
    <3> QED
      BY <3>1, <3>2
  <2> HIDE DEF g
  <2> QED
    BY <2>1, <2>2 DEF Steps
<1> HIDE DEF g
<1> QED
  BY <1>4, <1>7, <1>8

LEMMA OneRow ==
  ASSUME NEW T, NEW x \in T PROVE <<x>> \in Seq(T) /\ Range(<<x>>) = {x}
  BY DEF Range

LEMMA NoRow == Range(<<>>) = {}
  BY DEF Range

LEMMA ConcatRange ==
  ASSUME NEW T, NEW s \in Seq(T), NEW t \in Seq(T)
  PROVE  /\ s \o t \in Seq(T)
         /\ \A x : x \in Range(s \o t) <=> x \in Range(s) \/ x \in Range(t)
<1>1. /\ Len(s) \in Nat /\ Len(t) \in Nat /\ DOMAIN s = 1 .. Len(s) /\ DOMAIN t = 1 .. Len(t)
      /\ s \o t \in Seq(T) /\ DOMAIN (s \o t) = 1 .. Len(s) + Len(t)
      /\ \A k \in 1 .. Len(s) : (s \o t)[k] = s[k]
      /\ \A k \in 1 .. Len(t) : (s \o t)[k + Len(s)] = t[k]
  OBVIOUS
<1>2. ASSUME NEW x, x \in Range(s \o t) PROVE x \in Range(s) \/ x \in Range(t)
  <2>1. PICK k \in 1 .. Len(s) + Len(t) : x = (s \o t)[k]
    BY <1>1, <1>2 DEF Range
  <2>2. CASE k <= Len(s)
    BY <1>1, <2>1, <2>2 DEF Range
  <2>3. CASE ~(k <= Len(s))
    <3>1. k - Len(s) \in 1 .. Len(t) /\ (k - Len(s)) + Len(s) = k
      BY <1>1, <2>1, <2>3
    <3> QED
      BY <1>1, <2>1, <3>1 DEF Range
  <2> QED
    BY <2>2, <2>3
<1>3. ASSUME NEW x, x \in Range(s) PROVE x \in Range(s \o t)
  <2>1. PICK k \in 1 .. Len(s) : x = s[k]
    BY <1>1, <1>3 DEF Range
  <2>2. k \in 1 .. Len(s) + Len(t)
    BY <1>1
  <2> QED
    BY <1>1, <2>1, <2>2 DEF Range
<1>4. ASSUME NEW x, x \in Range(t) PROVE x \in Range(s \o t)
  <2>1. PICK k \in 1 .. Len(t) : x = t[k]
    BY <1>1, <1>4 DEF Range
  <2>2. k + Len(s) \in 1 .. Len(s) + Len(t)
    BY <1>1
  <2> QED
    BY <1>1, <2>1, <2>2 DEF Range
<1> QED
  BY <1>1, <1>2, <1>3, <1>4

Parts(S, part, T) == \A i \in S : part[i] \in Seq(T)

\* Listed holds the rows of every part, and no others.
LEMMA ListedFacts ==
  ASSUME NEW T, NEW O, NEW order \in Seq(O), NEW S \in SUBSET Range(order),
         NEW part, Parts(S, part, T)
  PROVE  /\ Listed(order, S, part) \in Seq(T)
         /\ \A x : x \in Range(Listed(order, S, part))
                     <=> \E i \in S : x \in Range(part[i])
<1> DEFINE N == Len(order)
           Part(n) == IF order[n] \in S THEN part[order[n]] ELSE <<>>
           F == [s \in Nat \X Seq(T) |-> s[2] \o (IF s[1] \in 1 .. N THEN Part(s[1]) ELSE <<>>)]
           sofar == CHOOSE f : f = [n \in 0 .. N |-> IF n = 0 THEN <<>> ELSE f[n - 1] \o Part(n)]
<1>1. N \in Nat /\ DOMAIN order = 1 .. N /\ Range(order) = {order[n] : n \in 1 .. N}
  BY DEF Range
<1>2. \A n \in 1 .. N : Part(n) \in Seq(T)
  BY DEF Parts
<1>3. Listed(order, S, part) = sofar[N]
  BY DEF Listed
<1> HIDE DEF Part, N
<1>4. F \in [Nat \X Seq(T) -> Seq(T)] /\ <<>> \in Seq(T)
  BY <1>2
<1>5. ASSUME NEW n \in 1 .. N, NEW s \in Seq(T) PROVE F[n, s] = s \o Part(n)
  <2>1. <<n, s>> \in Nat \X Seq(T)
    BY <1>1
  <2>2. F[<<n, s>>] = <<n, s>>[2] \o (IF <<n, s>>[1] \in 1 .. N THEN Part(<<n, s>>[1]) ELSE <<>>)
    BY <2>1
  <2> QED
    BY <2>2
<1> HIDE DEF F
<1>6. PICK f \in [0 .. N -> Seq(T)] : Steps(F, <<>>, f, N)
  BY <1>1, <1>4, StepsExist
<1>7. f = [n \in 0 .. N |-> IF n = 0 THEN <<>> ELSE f[n - 1] \o Part(n)]
  <2>1. \A n \in 0 .. N : f[n] = IF n = 0 THEN <<>> ELSE f[n - 1] \o Part(n)
    <3> SUFFICES ASSUME NEW n \in 0 .. N, n # 0 PROVE f[n] = f[n - 1] \o Part(n)
      BY <1>6 DEF Steps
    <3>1. n \in 1 .. N /\ n - 1 \in 0 .. N
      BY <1>1
    <3>2. f[n - 1] \in Seq(T)
      BY <1>6, <3>1
    <3> QED
      BY <1>5, <1>6, <3>1, <3>2 DEF Steps
  <2> QED
    BY <1>6, <2>1
<1>8. sofar = [n \in 0 .. N |-> IF n = 0 THEN <<>> ELSE sofar[n - 1] \o Part(n)]
  BY <1>7
<1> HIDE DEF sofar
<1>9. \A n \in 1 .. N : sofar[n] = sofar[n - 1] \o Part(n)
  <2>1. \A n \in 1 .. N : n \in 0 .. N /\ n # 0
    BY <1>1
  <2> QED
    BY <1>8, <2>1, Zenon
<1>10. sofar[0] = <<>>
  BY <1>1, <1>8
<1> DEFINE Right(n) == /\ sofar[n] \in Seq(T)
                       /\ \A x : x \in Range(sofar[n]) <=> \E k \in 1 .. n : x \in Range(Part(k))
           Bad == {n \in 0 .. N : ~Right(n)}
<1>11. Bad = {}
  <2>1. SUFFICES ASSUME Bad # {} PROVE FALSE
    OBVIOUS
  <2>2. PICK m \in Bad : \A n \in Bad : m <= n
    <3>1. Bad \subseteq Nat
      BY <1>1
    <3> HIDE DEF Bad
    <3> QED
      BY <2>1, <3>1, LeastNumber
  <2>3. Right(0)
    <3>1. 1 .. 0 = {} /\ DOMAIN sofar[0] = {}
      BY <1>10
    <3> QED
      BY <1>4, <1>10, <3>1 DEF Range
  <2>4. m \in 1 .. N /\ m \in Nat /\ ~Right(m)
    <3> HIDE DEF Right
    <3> QED
      BY <1>1, <2>2, <2>3
  <2>5. Right(m - 1)
    <3>1. m - 1 \in 0 .. N /\ ~(m <= m - 1)
      BY <1>1, <2>4
    <3> HIDE DEF Right
    <3> QED
      BY <2>2, <3>1
  <2>6. sofar[m - 1] \in Seq(T) /\ Part(m) \in Seq(T) /\ sofar[m] = sofar[m - 1] \o Part(m)
    BY <1>2, <1>9, <2>4, <2>5
  <2>7. /\ sofar[m] \in Seq(T)
        /\ \A x : x \in Range(sofar[m]) <=> x \in Range(sofar[m - 1]) \/ x \in Range(Part(m))
    BY <2>6, ConcatRange
  <2>8. 1 .. m = (1 .. m - 1) \cup {m}
    BY <2>4
  <2> QED
    BY <2>4, <2>5, <2>7, <2>8
<1>12. Right(N)
  <2>1. N \in 0 .. N
    BY <1>1
  <2> HIDE DEF Right
  <2> QED
    BY <1>11, <2>1
<1>13. ASSUME NEW x
       PROVE (\E k \in 1 .. N : x \in Range(Part(k)))
               <=> \E i \in S : x \in Range(part[i])
  BY <1>1, NoRow DEF Part
<1> QED
  BY <1>3, <1>12, <1>13

\* A search finds a place where there is one, and 0 where there is none.
LEMMA FirstPlace ==
  ASSUME NEW S, S \subseteq Nat, 0 \notin S
  PROVE  LET n == IF S # {} THEN Min(S) ELSE 0 IN
         /\ S # {} => n \in S
         /\ n # 0 <=> S # {}
<1>1. ASSUME S # {} PROVE Min(S) \in S
  BY <1>1, LeastNumber DEF Min
<1> QED
  BY <1>1

IdsOf(items) == {items[n].id : n \in DOMAIN items}

LEMMA AtFacts ==
  ASSUME NEW T, NEW items \in Seq(T), NEW id
  PROVE  At(items, id) # 0 <=> id \in IdsOf(items)
<1> DEFINE S == {n \in 1 .. Len(items) : items[n].id = id}
<1>1. S \subseteq Nat /\ 0 \notin S
  OBVIOUS
<1>2. At(items, id) = IF S # {} THEN Min(S) ELSE 0
  BY DEF At, SelectInSeq
<1>3. S # {} <=> id \in IdsOf(items)
  BY DEF IdsOf
<1> HIDE DEF S
<1> QED
  BY <1>1, <1>2, <1>3, FirstPlace

Orders == {ByName, ByPriority, ByDate}

LEMMA SortedFacts ==
  ASSUME NEW order \in Orders, NEW S \in SUBSET Ids
  PROVE  Sorted(order, S) \in Seq(Ids) /\ Range(Sorted(order, S)) = S
<1> DEFINE part == [i \in S |-> <<i>>]
<1>1. Parts(S, part, Ids) /\ \A i \in S : Range(part[i]) = {i}
  BY DEF Parts, Range
<1>2. order \in Seq(Ids) /\ Range(order) = Ids
  BY ScreenAssumption DEF Orders
<1>3. Sorted(order, S) = Listed(order, S, part)
  BY DEF Sorted
<1> HIDE DEF part
<1>4. /\ Listed(order, S, part) \in Seq(Ids)
      /\ \A x : x \in Range(Listed(order, S, part))
                  <=> \E i \in S : x \in Range(part[i])
  BY <1>1, <1>2, ListedFacts
<1>5. \A x : x \in Range(Listed(order, S, part)) <=> x \in S
  <2>1. ASSUME NEW x, x \in Range(Listed(order, S, part)) PROVE x \in S
    <3>1. PICK i \in S : x \in Range(part[i])
      BY <1>4, <2>1
    <3>2. Range(part[i]) = {i}
      BY <1>1
    <3> QED
      BY <3>1, <3>2
  <2>2. ASSUME NEW x \in S PROVE x \in Range(Listed(order, S, part))
    <3>1. Range(part[x]) = {x}
      BY <1>1
    <3> QED
      BY <1>4, <3>1
  <2> QED
    BY <2>1, <2>2
<1> QED
  BY <1>3, <1>4, <1>5

-----------------------------------------------------------------------------
(***************************************************************************)
(* The rows of the sidebar and of the views.                               *)
(***************************************************************************)

RowSet == [id : Ids, folds : BOOLEAN]

\* The rows of the list for the ticks of R: the roots, and the children of roots
\* that are not folded.
Shown(ticks, R, folded) ==
  {i \in R : \/ IsRoot(ticks, R, i)
             \/ LET r == ticks[i].parent IN
                IsRoot(ticks, R, r) /\ ~(ticks[r].epic /\ r \in folded)}

LEMMA ListFacts ==
  ASSUME NEW ticks, DOMAIN ticks \subseteq Ids, NEW R \in SUBSET DOMAIN ticks, NEW folded
  PROVE  /\ BuildListItems(ticks, R, folded) \in Seq(RowSet)
         /\ IdsOf(BuildListItems(ticks, R, folded)) = Shown(ticks, R, folded)
<1> DEFINE kids(i) == Kids(ticks, i) \cap R
           row(i)  == Row(i, ticks[i].epic /\ kids(i) # {})
           hides(i) == row(i).folds /\ i \in folded
           below(i) == Listed(ByPriority, kids(i), [k \in R |-> <<row(k)>>])
           rows(i) == <<row(i)>> \o IF hides(i) THEN <<>> ELSE below(i)
           roots == {i \in R : IsRoot(ticks, R, i)}
           items == Listed(ByPriority, roots, [i \in R |-> rows(i)])
<1>1. \A i : kids(i) = {k \in R : ticks[k].parent = i}
  BY DEF Kids
<1>2. \A i \in R : row(i) \in RowSet /\ row(i).id = i
  BY DEF Row, RowSet
<1>3. \A i \in R : hides(i) <=> ticks[i].epic /\ kids(i) # {} /\ i \in folded
  BY DEF Row
<1>4. BuildListItems(ticks, R, folded) = items
  BY DEF BuildListItems
<1>5. ByPriority \in Seq(Ids) /\ Range(ByPriority) = Ids
  BY ScreenAssumption
<1> HIDE DEF kids, row, hides
<1>6. ASSUME NEW i \in R
      PROVE  /\ below(i) \in Seq(RowSet)
             /\ \A x : x \in Range(below(i)) <=> \E k \in kids(i) : x = row(k)
  <2> DEFINE part == [k \in R |-> <<row(k)>>]
  <2>0. \A k \in kids(i) : part[k] = <<row(k)>> /\ row(k) \in RowSet
    BY <1>1, <1>2
  <2>1. Parts(kids(i), part, RowSet) /\ \A k \in kids(i) : Range(part[k]) = {row(k)}
    BY <2>0, OneRow DEF Parts
  <2> HIDE DEF part
  <2>4. kids(i) \in SUBSET Range(ByPriority)
    BY <1>1, <1>5
  <2>2. /\ Listed(ByPriority, kids(i), part) \in Seq(RowSet)
        /\ \A x : x \in Range(Listed(ByPriority, kids(i), part))
                    <=> \E k \in kids(i) : x \in Range(part[k])
    BY <1>5, <2>1, <2>4, ListedFacts
  <2>3. below(i) = Listed(ByPriority, kids(i), part)
    BY DEF below, part
  <2> HIDE DEF below
  <2>5. ASSUME NEW x, x \in Range(below(i)) PROVE \E k \in kids(i) : x = row(k)
    <3>1. PICK k \in kids(i) : x \in Range(part[k])
      BY <2>2, <2>3, <2>5
    <3>2. Range(part[k]) = {row(k)}
      BY <2>1
    <3> QED
      BY <3>1, <3>2
  <2>6. ASSUME NEW k \in kids(i) PROVE row(k) \in Range(below(i))
    <3>1. Range(part[k]) = {row(k)}
      BY <2>1
    <3> QED
      BY <2>2, <2>3, <3>1
  <2> QED
    BY <2>2, <2>3, <2>5, <2>6
<1> HIDE DEF below
<1>7. ASSUME NEW i \in R
      PROVE  /\ rows(i) \in Seq(RowSet)
             /\ \A x : x \in Range(rows(i))
                         <=> x = row(i) \/ (~hides(i) /\ \E k \in kids(i) : x = row(k))
  <2> DEFINE tail == IF hides(i) THEN <<>> ELSE below(i)
  <2>1. tail \in Seq(RowSet) /\ <<row(i)>> \in Seq(RowSet)
    BY <1>2, <1>6
  <2>2. \A x : x \in Range(tail) <=> ~hides(i) /\ \E k \in kids(i) : x = row(k)
    BY <1>6, NoRow
  <2>3. rows(i) = <<row(i)>> \o tail
    OBVIOUS
  <2> HIDE DEF tail
  <2>4. /\ rows(i) \in Seq(RowSet)
        /\ \A x : x \in Range(rows(i)) <=> x \in Range(<<row(i)>>) \/ x \in Range(tail)
    BY <2>1, <2>3, ConcatRange
  <2>5. Range(<<row(i)>>) = {row(i)}
    BY <1>2, OneRow
  <2> QED
    BY <2>2, <2>4, <2>5
<1> HIDE DEF rows
<1> DEFINE part == [i \in R |-> rows(i)]
<1>8. Parts(roots, part, RowSet) /\ \A i \in roots : part[i] = rows(i)
  BY <1>7 DEF Parts
<1>9. items = Listed(ByPriority, roots, part)
  OBVIOUS
<1>10. roots \in SUBSET Range(ByPriority)
  BY <1>5
<1>11. \A i : i \in roots <=> i \in R /\ IsRoot(ticks, R, i)
  OBVIOUS
<1> HIDE DEF part, items, roots
<1>12. /\ items \in Seq(RowSet)
       /\ \A x : x \in Range(items) <=> \E i \in roots : x \in Range(rows(i))
  <2>1. /\ items \in Seq(RowSet)
        /\ \A x : x \in Range(items) <=> \E i \in roots : x \in Range(part[i])
    BY <1>5, <1>8, <1>9, <1>10, ListedFacts
  <2>2. \A i \in roots : Range(part[i]) = Range(rows(i))
    BY <1>8
  <2> QED
    BY <2>1, <2>2
<1>13. \A j : j \in IdsOf(items) <=> \E x \in Range(items) : j = x.id
  BY DEF IdsOf, Range
<1>14. \A j : j \in IdsOf(items)
                <=> \E i \in roots : j = i \/ (~hides(i) /\ j \in kids(i))
  <2>1. roots \subseteq R /\ \A i \in R : kids(i) \subseteq R
    BY <1>1, <1>11
  <2>2. ASSUME NEW j, j \in IdsOf(items)
        PROVE  \E i \in roots : j = i \/ (~hides(i) /\ j \in kids(i))
    <3>1. PICK x \in Range(items) : j = x.id
      BY <1>13, <2>2
    <3>2. PICK i \in roots : x \in Range(rows(i))
      BY <1>12, <3>1
    <3>3. x = row(i) \/ (~hides(i) /\ \E k \in kids(i) : x = row(k))
      BY <1>7, <2>1, <3>2
    <3> QED
      BY <1>2, <2>1, <3>1, <3>2, <3>3
  <2>3. ASSUME NEW j, NEW i \in roots, j = i \/ (~hides(i) /\ j \in kids(i))
        PROVE  j \in IdsOf(items)
    <3>1. j \in R /\ row(j).id = j
      BY <1>2, <2>1, <2>3
    <3>2. row(j) \in Range(rows(i))
      BY <1>7, <2>1, <2>3
    <3>3. row(j) \in Range(items)
      BY <1>12, <3>2
    <3> QED
      BY <1>13, <3>1, <3>3
  <2> QED
    BY <2>2, <2>3
<1>15. \A j : j \in IdsOf(items) <=> j \in Shown(ticks, R, folded)
  <2>1. ASSUME NEW j, j \in IdsOf(items) PROVE j \in Shown(ticks, R, folded)
    BY <1>1, <1>3, <1>11, <1>14, <2>1 DEF Shown
  <2>2. ASSUME NEW j, j \in Shown(ticks, R, folded) PROVE j \in IdsOf(items)
    <3>1. CASE IsRoot(ticks, R, j)
      BY <1>11, <1>14, <2>2, <3>1 DEF Shown
    <3>2. CASE ~IsRoot(ticks, R, j)
      <4> DEFINE r == ticks[j].parent
      <4>1. j \in R /\ r \in R /\ IsRoot(ticks, R, r) /\ ~(ticks[r].epic /\ r \in folded)
        BY <2>2, <3>2 DEF Shown, IsRoot
      <4> QED
        BY <1>1, <1>3, <1>11, <1>14, <4>1
    <3> QED
      BY <3>1, <3>2
  <2> QED
    BY <2>1, <2>2
<1> QED
  BY <1>4, <1>12, <1>15

LEMMA InScope ==
  ASSUME NEW ticks, NEW scope
  PROVE  FilterScope(ticks, scope) \in SUBSET DOMAIN ticks
  BY DEF FilterScope

LEMMA PlainFacts ==
  ASSUME NEW order \in Seq(Ids)
  PROVE  [n \in DOMAIN order |-> Row(order[n], FALSE)] \in Seq(RowSet)
<1>1. \A n \in 1 .. Len(order) : Row(order[n], FALSE) \in RowSet
  BY DEF Row, RowSet
<1>2. DOMAIN order = 1 .. Len(order) /\ Len(order) \in Nat
  OBVIOUS
<1>3. [n \in DOMAIN order |-> Row(order[n], FALSE)] \in [1 .. Len(order) -> RowSet]
  BY <1>1, <1>2
<1> QED
  BY <1>2, <1>3, SeqDef, Zenon

LEMMA CardsFacts ==
  ASSUME NEW ticks, NEW S \in SUBSET Ids
  PROVE  BuildCards(ticks, S) \in Seq(Ids)
<1> DEFINE part == [c \in Range(Columns) |-> Sorted(ByName, {i \in S : Column(ticks[i]) = c})]
<1>1. Parts(Range(Columns), part, Ids)
  <2> SUFFICES ASSUME NEW c \in Range(Columns) PROVE part[c] \in Seq(Ids)
    BY DEF Parts
  <2>1. {i \in S : Column(ticks[i]) = c} \in SUBSET Ids /\ ByName \in Orders
    BY DEF Orders
  <2> QED
    BY <2>1, SortedFacts
<1> DEFINE C == {"open", "in_progress", "awaiting", "closed"}
           R == Range(Columns)
<1>2. Columns \in Seq(C) /\ R \in SUBSET Range(Columns)
  BY DEF Columns
<1>3. BuildCards(ticks, S) = Listed(Columns, R, part)
  BY DEF BuildCards
<1>4. Parts(R, part, Ids)
  BY <1>1
<1> HIDE DEF part, C, R
<1>5. Listed(Columns, R, part) \in Seq(Ids)
  BY <1>2, <1>4, ListedFacts
<1> QED
  BY <1>3, <1>5

AllViews == {"list", "board", "roadmap", "timeline"}

LEMMA ItemsFacts ==
  ASSUME NEW ticks, DOMAIN ticks \subseteq Ids, NEW scope, NEW view \in AllViews, NEW folded
  PROVE  Items(ticks, scope, view, folded) \in Seq(RowSet)
<1> DEFINE S == FilterScope(ticks, scope)
           plain(order) == [n \in DOMAIN order |-> Row(order[n], FALSE)]
           items == Items(ticks, scope, view, folded)
<1>1. S \in SUBSET DOMAIN ticks /\ S \in SUBSET Ids
  BY InScope
<1>2. CASE view = "list"
  <2>1. items = BuildListItems(ticks, S, folded)
    BY <1>2 DEF Items
  <2> QED
    BY <1>1, <2>1, ListFacts
<1>3. CASE view = "board"
  <2>1. items = plain(BuildCards(ticks, S))
    BY <1>3 DEF Items
  <2> QED
    BY <1>1, <2>1, CardsFacts, PlainFacts
<1>4. CASE view = "roadmap"
  <2>1. items = plain(EpicOrder(ticks, S))
    BY <1>4 DEF Items
  <2>2. EpicOrder(ticks, S) \in Seq(Ids)
    BY <1>1, SortedFacts DEF EpicOrder, Orders
  <2> QED
    BY <2>1, <2>2, PlainFacts
<1>5. CASE view = "timeline"
  <2>1. items = plain(Sorted(ByDate, S))
    BY <1>5 DEF Items
  <2>2. Sorted(ByDate, S) \in Seq(Ids)
    BY <1>1, SortedFacts DEF Orders
  <2> QED
    BY <2>1, <2>2, PlainFacts
<1> QED
  BY <1>2, <1>3, <1>4, <1>5 DEF AllViews

-----------------------------------------------------------------------------
(***************************************************************************)
(* The functions of App: which fields each may change.                     *)
(***************************************************************************)

AppFields ==
  {"ticks", "width", "focus", "detailVisible", "scope", "row", "shut", "view", "items",
   "folded", "line", "at", "pane", "offers"}

IsPane(p) == DOMAIN p = {"tick", "field", "prompt", "begun"}

IsApp(a) ==
  /\ DOMAIN a = AppFields /\ IsPane(a.pane) /\ DOMAIN a.at = AllViews \ {"timeline"}
  /\ DOMAIN a.ticks \subseteq Ids
  /\ a.view \in AllViews /\ a.width \in {"three", "two", "one"}
  /\ a.detailVisible \in BOOLEAN

\* b is the application a but for the fields of S.
Only(a, b, S) == IsApp(b) /\ \A f \in AppFields \ S : b[f] = a[f]

LEMMA RestoreOnly ==
  ASSUME NEW a, IsApp(a), NEW scope
  PROVE  Only(a, Restore(a, scope), {"row"})
  BY DEF IsApp, AppFields, Only, Restore

LEMMA SetTicksOnly ==
  ASSUME NEW a, IsApp(a), NEW ticks, DOMAIN ticks \subseteq Ids
  PROVE  Only(a, SetTicks(a, ticks), {"ticks", "row"}) /\ SetTicks(a, ticks).ticks = ticks
<1> DEFINE b == [a EXCEPT !.ticks = ticks]
<1>1. Only(a, b, {"ticks"}) /\ b.ticks = ticks
  BY DEF IsApp, AppFields, Only
<1>2. Only(b, SetTicks(a, ticks), {"row"})
  BY <1>1, RestoreOnly DEF SetTicks, Only
<1> QED
  BY <1>1, <1>2 DEF Only, AppFields

LEMMA SetScopeOnly ==
  ASSUME NEW a, IsApp(a)
  PROVE  Only(a, SetScope(a), {"items", "line", "at"})
  BY DEF IsApp, AppFields, AllViews, Only, SetScope

LEMMA SetTickOnly ==
  ASSUME NEW a, IsApp(a), NEW id
  PROVE  Only(a, SetTick(a, id), {"pane"}) /\ SetTick(a, id).pane.tick = id
  BY DEF IsApp, IsPane, AppFields, Only, SetTick

LEMMA ApplyLayoutOnly ==
  ASSUME NEW a, IsApp(a)
  PROVE  Only(a, ApplyLayout(a), {"detailVisible"})
  BY DEF IsApp, AppFields, Only, ApplyLayout

LEMMA SyncDetailOnly ==
  ASSUME NEW a, IsApp(a)
  PROVE  Only(a, SyncDetail(a), {"pane"}) /\ SyncDetail(a).pane.tick = SelectedTickID(a)
  BY SetTickOnly DEF SyncDetail

LEMMA ReScopeOnly ==
  ASSUME NEW a, IsApp(a)
  PROVE  Only(a, ReScope(a), {"items", "line", "at", "detailVisible", "pane"})
<1>1. Only(a, SetScope(a), {"items", "line", "at"})
  BY SetScopeOnly
<1>2. Only(SetScope(a), ApplyLayout(SetScope(a)), {"detailVisible"})
  BY <1>1, ApplyLayoutOnly DEF Only
<1>3. Only(ApplyLayout(SetScope(a)), ReScope(a), {"pane"})
  BY <1>2, SyncDetailOnly DEF Only, ReScope
<1> QED
  BY <1>1, <1>2, <1>3 DEF Only

LEMMA RefreshOnly ==
  ASSUME NEW a, IsApp(a), NEW ticks, DOMAIN ticks \subseteq Ids
  PROVE  /\ Only(a, Refresh(a, ticks), {"ticks", "row", "scope", "items", "line", "at", "detailVisible", "pane"})
         /\ Refresh(a, ticks).ticks = ticks
<1> DEFINE b == SetTicks(a, ticks)
           c == [b EXCEPT !.scope = SelectedScope(b)]
<1>1. Only(a, b, {"ticks", "row"}) /\ b.ticks = ticks
  BY SetTicksOnly
<1>2. Refresh(a, ticks) = ReScope(c)
  BY DEF Refresh
<1> HIDE DEF b
<1>3. Only(b, c, {"scope"})
  BY <1>1 DEF Only, IsApp, AppFields
<1> HIDE DEF c
<1>4. Only(c, ReScope(c), {"items", "line", "at", "detailVisible", "pane"})
  BY <1>3, ReScopeOnly DEF Only
<1>5. Only(a, c, {"ticks", "row", "scope"}) /\ c.ticks = ticks
  BY <1>1, <1>3 DEF Only, AppFields
<1> QED
  BY <1>2, <1>4, <1>5 DEF Only, AppFields

LEMMA AfterDetailEditOnly ==
  ASSUME NEW a, IsApp(a), NEW ticks, DOMAIN ticks \subseteq Ids
  PROVE  /\ Only(a, AfterDetailEdit(a, ticks), {"ticks", "row", "items", "line", "at"})
         /\ AfterDetailEdit(a, ticks).ticks = ticks
<1>1. Only(a, SetTicks(a, ticks), {"ticks", "row"}) /\ SetTicks(a, ticks).ticks = ticks
  BY SetTicksOnly
<1>2. Only(SetTicks(a, ticks), AfterDetailEdit(a, ticks), {"items", "line", "at"})
  BY <1>1, SetScopeOnly DEF Only, AfterDetailEdit
<1> QED
  BY <1>1, <1>2 DEF Only, AppFields

LEMMA FocusOnly ==
  ASSUME NEW a, IsApp(a), NEW zone
  PROVE  Only(a, Focus(a, zone), {"focus"}) /\ Focus(a, zone).focus = zone
  BY DEF IsApp, AppFields, Only, Focus

LEMMA SyncDetailVisibilityOnly ==
  ASSUME NEW a, IsApp(a)
  PROVE  /\ Only(a, SyncDetailVisibility(a), {"detailVisible"})
         /\ a.width # "three" /\ a.focus = "detail" => SyncDetailVisibility(a).detailVisible
         /\ a.width = "three" => SyncDetailVisibility(a).detailVisible
  BY DEF IsApp, AppFields, Only, SyncDetailVisibility, ApplyLayout

LEMMA OpenInputOnly ==
  ASSUME NEW a, IsApp(a), NEW kind
  PROVE  /\ Only(a, OpenInput(a, kind), {"pane"})
         /\ OpenInput(a, kind).pane.tick = a.pane.tick /\ OpenInput(a, kind).pane.begun = a.pane.tick
  BY DEF IsApp, IsPane, AppFields, Only, OpenInput

LEMMA CancelledOnly ==
  ASSUME NEW a, IsApp(a)
  PROVE  /\ Only(a, Cancelled(a), {"pane"})
         /\ Cancelled(a).pane.tick = a.pane.tick /\ Cancelled(a).pane.prompt = None
  BY DEF IsApp, IsPane, AppFields, Only, Cancelled

LEMMA RebuiltOnly ==
  ASSUME NEW a, IsApp(a)
  PROVE  /\ Only(a, Rebuilt(a), {"items"})
         /\ Rebuilt(a).items = BuildListItems(a.ticks, IdsOf(a.items), a.folded)
  BY DEF IsApp, AppFields, Only, Rebuilt, IdsOf

LEMMA JumpToOnly ==
  ASSUME NEW a, IsApp(a), NEW i
  PROVE  Only(a, JumpTo(a, i), {"at", "folded", "items"})
<1> DEFINE b == [a EXCEPT !.at["list"] = i]
           c == [a EXCEPT !.folded = {}]
<1>1. Only(a, b, {"at"}) /\ Only(a, c, {"folded"})
  BY DEF IsApp, AppFields, AllViews, Only
<1>2. JumpTo(a, i) = b \/ JumpTo(a, i) = Rebuilt(c)
  BY DEF JumpTo
<1> HIDE DEF b, c
<1>3. Only(c, Rebuilt(c), {"items"})
  BY <1>1, RebuiltOnly DEF Only
<1> QED
  BY <1>1, <1>2, <1>3 DEF Only

LEMMA MovedToOnly ==
  ASSUME NEW a, IsApp(a), NEW n
  PROVE  Only(a, MovedTo(a, n), {"line", "at", "pane"})
<1> DEFINE b == IF a.view = "timeline" THEN [a EXCEPT !.line = n]
                ELSE [a EXCEPT !.at[a.view] = a.items[n].id]
<1>1. Only(a, b, {"line", "at"})
  BY DEF IsApp, AppFields, AllViews, Only
<1>2. MovedTo(a, n) = SyncDetail(b)
  BY DEF MovedTo
<1> HIDE DEF b
<1>3. Only(b, SyncDetail(b), {"pane"})
  BY <1>1, SyncDetailOnly DEF Only
<1> QED
  BY <1>1, <1>2, <1>3 DEF Only

-----------------------------------------------------------------------------
(***************************************************************************)
(* Text goes home, for only a new tick in the pane or a new prompt touches *)
(* the pane; and the pane with the keys is on screen.                      *)
(***************************************************************************)

Home(a) == a.pane.prompt # None => a.pane.tick = a.pane.begun

Seen(a) == a.width = "three" \/ a.focus = "detail" => a.detailVisible

Good(a) == IsApp(a) /\ Home(a) /\ Seen(a)

LEMMA GoodKept ==
  ASSUME NEW a, Good(a), NEW b, NEW S, Only(a, b, S),
         S \cap {"pane", "width", "focus", "detailVisible"} = {}
  PROVE  Good(b)
  BY DEF Good, Home, Seen, Only, AppFields

LEMMA GoodSetTick ==
  ASSUME NEW a, Good(a), NEW id
  PROVE  Good(SetTick(a, id)) /\ Good(SyncDetail(a))
<1>1. ASSUME NEW j PROVE Good(SetTick(a, j))
  <2>1. Only(a, SetTick(a, j), {"pane"})
    BY SetTickOnly DEF Good
  <2>2. Home(SetTick(a, j))
    BY DEF Good, IsApp, IsPane, AppFields, Home, SetTick
  <2> QED
    BY <2>1, <2>2 DEF Good, Seen, Only, AppFields
<1> QED
  BY <1>1 DEF SyncDetail

LEMMA GoodLayout ==
  ASSUME NEW a, IsApp(a), Home(a), a.focus = "detail" => a.detailVisible
  PROVE  Good(ApplyLayout(a))
<1>1. Only(a, ApplyLayout(a), {"detailVisible"})
  BY ApplyLayoutOnly
<1>2. ApplyLayout(a).detailVisible = (a.detailVisible \/ a.width = "three")
  BY DEF ApplyLayout, IsApp, AppFields
<1> QED
  BY <1>1, <1>2 DEF Good, Home, Seen, Only, AppFields

LEMMA GoodReScope ==
  ASSUME NEW a, Good(a) PROVE Good(ReScope(a))
<1>1. Good(SetScope(a))
  BY SetScopeOnly, GoodKept DEF Good
<1>2. Good(ApplyLayout(SetScope(a)))
  BY <1>1, GoodLayout DEF Good, Seen
<1> QED
  BY <1>2, GoodSetTick DEF ReScope

LEMMA GoodSetTicks ==
  ASSUME NEW a, Good(a), NEW ticks, DOMAIN ticks \subseteq Ids
  PROVE  Good(SetTicks(a, ticks)) /\ Good(Refresh(a, ticks)) /\ Good(AfterDetailEdit(a, ticks))
<1> DEFINE b == SetTicks(a, ticks)
           c == [b EXCEPT !.scope = SelectedScope(b)]
<1>1. Good(b)
  BY SetTicksOnly, GoodKept DEF Good
<1>2. Refresh(a, ticks) = ReScope(c)
  BY DEF Refresh
<1>3. AfterDetailEdit(a, ticks) = SetScope(b)
  BY DEF AfterDetailEdit
<1> HIDE DEF b
<1>4. Only(b, c, {"scope"})
  BY <1>1 DEF Good, Only, IsApp, AppFields
<1>5. Good(c)
  BY <1>1, <1>4, GoodKept
<1> HIDE DEF c
<1>6. Good(ReScope(c))
  BY <1>5, GoodReScope
<1>7. Good(SetScope(b))
  BY <1>1, SetScopeOnly, GoodKept DEF Good
<1> QED
  BY <1>1, <1>2, <1>3, <1>6, <1>7 DEF b

LEMMA GoodFocus ==
  ASSUME NEW a, Good(a), NEW zone
  PROVE  /\ zone # "detail" => Good(Focus(a, zone))
         /\ Good(SyncDetailVisibility(Focus(a, zone)))
<1>1. Only(a, Focus(a, zone), {"focus"}) /\ Focus(a, zone).focus = zone
  BY FocusOnly DEF Good
<1>2. ASSUME zone # "detail" PROVE Good(Focus(a, zone))
  BY <1>1, <1>2 DEF Good, Home, Seen, Only, AppFields
<1> DEFINE b == Focus(a, zone)
<1> HIDE DEF b
<1>3. /\ Only(b, SyncDetailVisibility(b), {"detailVisible"})
      /\ b.width # "three" /\ b.focus = "detail" => SyncDetailVisibility(b).detailVisible
      /\ b.width = "three" => SyncDetailVisibility(b).detailVisible
  BY <1>1, SyncDetailVisibilityOnly DEF Only, b
<1>4. Home(b)
  BY <1>1 DEF Good, Home, Only, AppFields, b
<1>5. Good(SyncDetailVisibility(b))
  BY <1>3, <1>4 DEF Good, Home, Seen, Only, AppFields
<1> QED
  BY <1>2, <1>5 DEF b

LEMMA GoodPane ==
  ASSUME NEW a, Good(a), NEW x
  PROVE  /\ Good(OpenInput(a, x)) /\ Good(Cancelled(a)) /\ Good([a EXCEPT !.pane.field = x])
         /\ [a EXCEPT !.pane.field = x].pane.tick = a.pane.tick
<1>1. Good(OpenInput(a, x))
  BY OpenInputOnly DEF Good, Home, Seen, Only, AppFields
<1>2. Good(Cancelled(a))
  BY CancelledOnly DEF Good, Home, Seen, Only, AppFields
<1> DEFINE b == [a EXCEPT !.pane.field = x]
<1>3. Only(a, b, {"pane"}) /\ b.pane.tick = a.pane.tick /\ b.pane.prompt = a.pane.prompt
      /\ b.pane.begun = a.pane.begun
  BY DEF Good, IsApp, IsPane, AppFields, Only
<1> HIDE DEF b
<1>4. Good(b)
  BY <1>3 DEF Good, Home, Seen, Only, AppFields
<1> QED
  BY <1>1, <1>2, <1>3, <1>4 DEF b

\* The fields that a handler sets by itself.
LEMMA GoodField ==
  ASSUME NEW a, Good(a), NEW x
  PROVE  /\ Good([a EXCEPT !.row = x]) /\ Good([a EXCEPT !.scope = x])
         /\ Good([a EXCEPT !.shut = x]) /\ Good([a EXCEPT !.folded = x])
         /\ Good([a EXCEPT !.offers = x])
         /\ x \in AllViews => Good([a EXCEPT !.view = x])
  BY DEF Good, Home, Seen, IsApp, AppFields

LEMMA GoodRestore ==
  ASSUME NEW a, Good(a), NEW scope PROVE Good(Restore(a, scope))
  BY RestoreOnly, GoodKept DEF Good

LEMMA GoodMoves ==
  ASSUME NEW a, Good(a), NEW n
  PROVE  Good(MovedTo(a, n)) /\ Good(JumpTo(a, n)) /\ Good(Rebuilt(a))
<1> DEFINE b == IF a.view = "timeline" THEN [a EXCEPT !.line = n]
                ELSE [a EXCEPT !.at[a.view] = a.items[n].id]
<1>1. Only(a, b, {"line", "at"})
  BY DEF Good, IsApp, AppFields, AllViews, Only
<1>2. MovedTo(a, n) = SyncDetail(b)
  BY DEF MovedTo
<1> HIDE DEF b
<1>3. Good(b)
  BY <1>1, GoodKept
<1>4. Good(JumpTo(a, n)) /\ Good(Rebuilt(a))
  BY JumpToOnly, RebuiltOnly, GoodKept DEF Good
<1> QED
  BY <1>2, <1>3, <1>4, GoodSetTick

-----------------------------------------------------------------------------
(***************************************************************************)
(* A session.                                                              *)
(***************************************************************************)

Saved(f) ==
  /\ f.view \in AllViews /\ f.detailVisible \in BOOLEAN
  /\ f.focus = "detail" => f.detailVisible

IsFile(f) ==
  DOMAIN f = {"view", "scope", "focus", "detailVisible", "shut"} /\ Saved(f)

LEMMA ViewsFacts == Range(Views) \subseteq AllViews
  BY ScreenAssumption DEF AllViews

\* What ApplyState sets.
Applied(a, f) ==
  [a EXCEPT !.view = f.view, !.scope = f.scope, !.shut = f.shut,
            !.focus = f.focus, !.detailVisible = f.detailVisible]

LEMMA NewAppGood ==
  ASSUME NEW T, DOMAIN T \subseteq Ids
  PROVE  Good(NewApp(T)) /\ NewApp(T).width = "one"
<1> DEFINE start ==
      [ticks |-> T, width |-> "one", focus |-> "sidebar", detailVisible |-> FALSE,
       scope |-> "awaiting", row |-> 1, shut |-> {},
       view |-> "list", items |-> <<>>, folded |-> {}, line |-> 1,
       at |-> [v \in {"list", "board", "roadmap"} |-> None],
       pane |-> [tick |-> None, field |-> "status", prompt |-> None, begun |-> None],
       offers |-> {}]
<1>1. start.pane.prompt = None /\ start.width = "one" /\ start.focus = "sidebar"
  OBVIOUS
<1>2. IsPane(start.pane)
  BY DEF IsPane
<1>3. IsApp(start)
  BY <1>2 DEF IsApp, AppFields, AllViews
<1>4. NewApp(T) = ReScope(start)
  BY DEF NewApp
<1> HIDE DEF start
<1>5. Good(start)
  BY <1>1, <1>3 DEF Good, Home, Seen
<1>6. Only(start, ReScope(start), {"items", "line", "at", "detailVisible", "pane"})
  BY <1>3, ReScopeOnly
<1> QED
  BY <1>1, <1>4, <1>5, <1>6, GoodReScope DEF Only, AppFields

LEMMA SessionGood ==
  ASSUME NEW T, DOMAIN T \subseteq Ids, NEW w \in {"three", "two", "one"}, NEW f, Saved(f)
  PROVE  Good(Session(T, w, f)) /\ IsFile(ExtractState(ApplyState(NewApp(T), f)))
<1> DEFINE new == NewApp(T)
           set == Applied(new, f)
           a   == ApplyState(new, f)
           b   == [a EXCEPT !.width = w]
<1>1. Good(new) /\ new.width = "one"
  BY NewAppGood
<1> HIDE DEF new
<1>2. Good(set) /\ set.width = "one" /\ set.view = f.view
  <2>1. Only(new, set, {"view", "scope", "shut", "focus", "detailVisible"})
        /\ set.view = f.view /\ set.focus = f.focus /\ set.detailVisible = f.detailVisible
    BY <1>1 DEF Good, IsApp, AppFields, Saved, Only, Applied
  <2> HIDE DEF set
  <2> QED
    BY <1>1, <2>1 DEF Good, Home, Seen, Saved, Only, AppFields
<1>3. a = ReScope(Restore(set, f.scope))
  BY DEF ApplyState, Applied
<1> HIDE DEF set
<1>4. Good(a) /\ a.width = "one"
  <2>1. Good(Restore(set, f.scope)) /\ Restore(set, f.scope).width = "one"
    BY <1>2, RestoreOnly, GoodRestore DEF Good, Only, AppFields
  <2> DEFINE r == Restore(set, f.scope)
  <2> HIDE DEF r
  <2>2. Good(r) /\ r.width = "one" /\ a = ReScope(r)
    BY <1>3, <2>1 DEF r
  <2> HIDE DEF a
  <2> QED
    BY <2>2, GoodReScope, ReScopeOnly DEF Good, Only, AppFields
<1>5. Session(T, w, f) = ApplyLayout(b)
  BY DEF Session, new
<1> HIDE DEF a
<1>6. Only(a, b, {"width"})
  BY <1>4 DEF Good, IsApp, AppFields, Only
<1> HIDE DEF b
<1>7. Good(ApplyLayout(b))
  BY <1>4, <1>6, GoodLayout DEF Good, Home, Seen, Only, AppFields
<1>8. IsFile(ExtractState(a))
  BY <1>4 DEF Good, IsApp, Seen, IsFile, Saved, ExtractState
<1> QED
  BY <1>5, <1>7, <1>8 DEF a, new

LEMMA SavedKept ==
  ASSUME NEW a, IsFile(file) PROVE Saved(file) /\ Saved(SaveState(a))
  BY DEF IsFile, Saved, SaveState

LEMMA TrackerFacts ==
  /\ \A T \in Trackers : DOMAIN T \subseteq Ids
  /\ \A i, t : IsApp(app) => DOMAIN With(i, t) \subseteq Ids
  BY ScreenAssumption DEF IsApp, With

GoodState == Good(app) /\ IsFile(file)

LEMMA InitGood == Init => GoodState
<1> SUFFICES ASSUME Init PROVE GoodState
  OBVIOUS
<1>1. PICK T \in Trackers, w \in Widths, f \in Files :
        app = Session(T, w, f) /\ file = ExtractState(ApplyState(NewApp(T), f))
  BY DEF Init
<1>2. Saved(f) /\ w \in {"three", "two", "one"}
  BY ScreenAssumption, ViewsFacts DEF Saved
<1> QED
  BY <1>1, <1>2, TrackerFacts, SessionGood DEF GoodState

LEMMA BeginsGood ==
  ASSUME GoodState, NEW T \in Trackers, Quit(T) \/ Kill(T)
  PROVE  GoodState'
<1>1. PICK f \in {file, SaveState(app)} : Begins(T, app.width, f)
  BY DEF Quit, Kill
<1>2. Saved(f)
  BY SavedKept DEF GoodState
<1>3. app.width \in {"three", "two", "one"}
  BY DEF GoodState, Good, IsApp
<1>4. Good(Session(T, app.width, f)) /\ IsFile(ExtractState(ApplyState(NewApp(T), f)))
  BY <1>2, <1>3, TrackerFacts, SessionGood
<1> QED
  BY <1>1, <1>4 DEF Begins, GoodState

\* A key or a message that does not end the session leaves the file alone.
LEMMA ResizeGood ==
  ASSUME NEW a, Good(a), NEW w \in {"three", "two", "one"}
  PROVE  Good(ApplyLayout([a EXCEPT !.width = w]))
<1> DEFINE b == [a EXCEPT !.width = w]
<1>1. Only(a, b, {"width"})
  BY DEF Good, IsApp, AppFields, Only
<1> HIDE DEF b
<1>2. IsApp(b) /\ Home(b) /\ (b.focus = "detail" => b.detailVisible)
  BY <1>1 DEF Good, Home, Seen, Only, AppFields
<1>3. Good(ApplyLayout(b))
  BY <1>2, GoodLayout
<1> QED
  BY <1>3 DEF b

LEMMA MainKeysGood ==
  ASSUME Good(app),
         Resize \/ Tab \/ ViewHotkey \/ MoveRow \/ ToggleNode \/ Move \/ OtherKey
           \/ EnterDetail \/ ToggleEpic \/ EnterEpic \/ OpenPalette \/ Confirm \/ LeaveDetail
  PROVE  Good(app') /\ file' = file
<1> USE DEF Key, Press, Send
<1>1. CASE Resize
  <2>1. Widths \subseteq {"three", "two", "one"}
    BY ScreenAssumption
  <2> QED
    BY <1>1, <2>1, ResizeGood DEF Resize
<1>2. CASE Tab \/ EnterDetail \/ LeaveDetail
  BY <1>2, GoodFocus DEF Tab, EnterDetail, LeaveDetail
<1>3. CASE ViewHotkey
  <2>1. PICK view \in Range(Views) : app' = ReScope([app EXCEPT !.view = view]) /\ file' = file
    BY <1>3 DEF ViewHotkey
  <2>2. Good([app EXCEPT !.view = view])
    BY ViewsFacts, GoodField
  <2> QED
    BY <2>1, <2>2, GoodReScope
<1>4. CASE MoveRow
  <2>1. PICK n : app' = ReScope([[app EXCEPT !.row = n] EXCEPT !.scope = SelectedScope([app EXCEPT !.row = n])])
                 /\ file' = file
    BY <1>4 DEF MoveRow
  <2> DEFINE b == [app EXCEPT !.row = n]
  <2>2. Good(b)
    BY GoodField
  <2> HIDE DEF b
  <2>3. Good([b EXCEPT !.scope = SelectedScope(b)])
    BY <2>2, GoodField
  <2> DEFINE c == [b EXCEPT !.scope = SelectedScope(b)]
  <2>4. Good(ReScope(c))
    BY <2>3, GoodReScope
  <2>5. app' = ReScope(c)
    BY <2>1 DEF b
  <2> HIDE DEF c
  <2> QED
    BY <2>1, <2>4, <2>5
<1>5. CASE ToggleNode
  <2>1. PICK i, S : app' = Restore([app EXCEPT !.shut = S], i) /\ file' = file
    BY <1>5 DEF ToggleNode
  <2>2. Good([app EXCEPT !.shut = S])
    BY GoodField
  <2> QED
    BY <2>1, <2>2, GoodRestore
<1>6. CASE Move
  <2>1. PICK n : app' = MovedTo(app, n) /\ file' = file
    BY <1>6 DEF Move
  <2> QED
    BY <2>1, GoodMoves
<1>7. CASE OtherKey \/ EnterEpic
  BY <1>7, GoodSetTick DEF OtherKey, EnterEpic
<1>8. CASE ToggleEpic
  <2>1. PICK S : app' = SyncDetail(Rebuilt([app EXCEPT !.folded = S])) /\ file' = file
    BY <1>8 DEF ToggleEpic
  <2> DEFINE b == [app EXCEPT !.folded = S]
  <2>2. Good(b)
    BY GoodField
  <2> HIDE DEF b
  <2>3. Good(Rebuilt(b))
    BY <2>2, GoodMoves
  <2>4. Good(SyncDetail(Rebuilt(b)))
    BY <2>3, GoodSetTick
  <2> QED
    BY <2>1, <2>4 DEF b
<1>9. CASE OpenPalette
  <2>1. app' = [Focus(app, "palette") EXCEPT !.offers = DOMAIN app.ticks] /\ file' = file
    BY <1>9 DEF OpenPalette
  <2>2. Good(Focus(app, "palette"))
    BY GoodFocus
  <2> QED
    BY <2>1, <2>2, GoodField
<1>10. CASE Confirm
  BY <1>10 DEF Confirm
<1> QED
  BY <1>1, <1>2, <1>3, <1>4, <1>5, <1>6, <1>7, <1>8, <1>9, <1>10

LEMMA DetailKeysGood ==
  ASSUME Good(app), OtherField \/ CycleStatus \/ BeginEdit \/ CommitEdit \/ CancelEdit
  PROVE  Good(app') /\ file' = file
<1>1. PICK b, ticks : /\ Good(b) /\ DOMAIN ticks \subseteq Ids
                      /\ app' = AfterDetailEdit(b, ticks) /\ file' = file
  <2>0. DOMAIN app.ticks \subseteq Ids
    BY DEF Good, IsApp
  <2> USE DEF DetailEdit, Key, Press
  <2>1. CASE OtherField
    <3>1. PICK f : app' = AfterDetailEdit([app EXCEPT !.pane.field = f], app.ticks) /\ file' = file
      BY <2>1 DEF OtherField
    <3>2. Good([app EXCEPT !.pane.field = f])
      BY GoodPane
    <3> QED
      BY <2>0, <3>1, <3>2
  <2>2. CASE BeginEdit
    BY <2>0, <2>2, GoodPane DEF BeginEdit
  <2>3. CASE CancelEdit
    BY <2>0, <2>3, GoodPane DEF CancelEdit
  <2>4. CASE CycleStatus
    <3>1. PICK t : app' = AfterDetailEdit(app, With(app.pane.tick, t)) /\ file' = file
      BY <2>4 DEF CycleStatus
    <3> QED
      BY <3>1, TrackerFacts DEF Good
  <2>5. CASE CommitEdit
    <3>1. PICK t : app' = AfterDetailEdit(Cancelled(app), With(app.pane.tick, t)) /\ file' = file
      BY <2>5 DEF CommitEdit
    <3> QED
      BY <3>1, TrackerFacts, GoodPane DEF Good
  <2> QED
    BY <2>1, <2>2, <2>3, <2>4, <2>5
<1> QED
  BY <1>1, GoodSetTicks

LEMMA OpenDetailEditGood ==
  ASSUME NEW a, Good(a), NEW i, NEW edit
  PROVE  Good(OpenDetailEdit(a, i, edit))
<1> DEFINE b == SyncDetailVisibility(Focus(SetTick(a, i), "detail"))
           c == [b EXCEPT !.pane.field = IF edit = "reassign" THEN "owner" ELSE @]
           d == [b EXCEPT !.pane.field = "owner"]
           e == [b EXCEPT !.pane.field = b.pane.field]
           kind == IF edit = "reassign" THEN "text" ELSE "blocker"
<1>1. Good(b)
  BY GoodSetTick, GoodFocus
<1>2. OpenDetailEdit(a, i, edit) = OpenInput(c, kind)
  BY DEF OpenDetailEdit
<1> HIDE DEF b
<1>3. Good(d) /\ Good(e)
  BY <1>1, GoodPane
<1>4. c = d \/ c = e
  OBVIOUS
<1> HIDE DEF c, d, e, kind
<1>5. Good(c)
  BY <1>3, <1>4
<1> QED
  BY <1>2, <1>5, GoodPane

LEMMA MessagesGood ==
  ASSUME Good(app),
         \/ Close
         \/ \E i \in Ids : JumpToEpic(i) \/ PaletteJump(i)
         \/ \E view \in Range(Views) : SwitchView(view)
         \/ \E edit \in PaletteEdits : PaletteEdit(edit)
  PROVE  Good(app') /\ file' = file
<1> USE DEF Delivered
<1>0. "main" # "detail"
  OBVIOUS
<1>1. CASE Close
  BY <1>0, <1>1, GoodFocus DEF Close
<1>2. ASSUME NEW i \in Ids, JumpToEpic(i) PROVE Good(app') /\ file' = file
  <2> DEFINE r == Restore(app, i)
             s == [r EXCEPT !.scope = i]
             b == [r EXCEPT !.scope = i, !.view = "list"]
             c == [s EXCEPT !.view = "list"]
  <2>1. app' = Focus(ReScope(b), "main") /\ file' = file
    BY <1>2 DEF JumpToEpic
  <2>2. Good(r)
    BY GoodRestore
  <2> HIDE DEF r
  <2>3. b = c
    BY <2>2 DEF Good, IsApp, AppFields
  <2>4. Good(s)
    BY <2>2, GoodField
  <2> HIDE DEF s
  <2>5. Good(c)
    BY <2>4, GoodField DEF AllViews
  <2> HIDE DEF b, c
  <2>6. Good(Focus(ReScope(b), "main"))
    BY <1>0, <2>3, <2>5, GoodReScope, GoodFocus
  <2> QED
    BY <2>1, <2>6
<1>3. ASSUME NEW i \in Ids, PaletteJump(i) PROVE Good(app') /\ file' = file
  <2> DEFINE b == [app EXCEPT !.view = "list"]
  <2>1. app' = Focus(SyncDetail(JumpTo(ReScope(b), i)), "main") /\ file' = file
    BY <1>3 DEF PaletteJump
  <2>2. Good(b)
    BY GoodField DEF AllViews
  <2> HIDE DEF b
  <2>3. Good(JumpTo(ReScope(b), i))
    BY <2>2, GoodReScope, GoodMoves
  <2>4. Good(Focus(SyncDetail(JumpTo(ReScope(b), i)), "main"))
    BY <1>0, <2>3, GoodSetTick, GoodFocus
  <2> QED
    BY <2>1, <2>4
<1>4. ASSUME NEW view \in Range(Views), SwitchView(view) PROVE Good(app') /\ file' = file
  <2> DEFINE b == [app EXCEPT !.view = view]
  <2>1. app' = Focus(ReScope(b), "main") /\ file' = file
    BY <1>4 DEF SwitchView
  <2>2. Good(b)
    BY ViewsFacts, GoodField
  <2> HIDE DEF b
  <2> QED
    BY <1>0, <2>1, <2>2, GoodReScope, GoodFocus
<1>5. ASSUME NEW edit \in PaletteEdits, PaletteEdit(edit) PROVE Good(app') /\ file' = file
  <2> DEFINE i == SelectedTickID(app)
  <2>0. file' = file
    BY <1>5 DEF PaletteEdit
  <2>1. CASE app' = Focus(app, "main")
    BY <1>0, <2>0, <2>1, GoodFocus
  <2>2. CASE app' = OpenDetailEdit(app, i, edit)
    BY <2>0, <2>2, OpenDetailEditGood
  <2>3. ASSUME NEW t, app' = Focus(Refresh(app, With(i, t)), "main") PROVE Good(app')
    <3>1. DOMAIN With(i, t) \subseteq Ids
      BY TrackerFacts DEF Good
    <3> QED
      BY <1>0, <2>3, <3>1, GoodSetTicks, GoodFocus
  <2> QED
    BY <1>5, <2>0, <2>1, <2>2, <2>3 DEF PaletteEdit
<1> QED
  BY <1>1, <1>2, <1>3, <1>4, <1>5

LEMMA NextGood == GoodState /\ [Next]_vars => GoodState'
<1> SUFFICES ASSUME GoodState, [Next]_vars PROVE GoodState'
  OBVIOUS
<1> USE DEF GoodState
<1>1. ASSUME NEW T \in Trackers, Reload(T) PROVE GoodState'
  BY <1>1, TrackerFacts, GoodSetTicks DEF Reload
<1>2. ASSUME NEW T \in Trackers, Quit(T) \/ Kill(T) PROVE GoodState'
  BY <1>2, BeginsGood
<1>3. CASE Resize \/ Tab \/ ViewHotkey \/ MoveRow \/ ToggleNode \/ Move \/ OtherKey
             \/ EnterDetail \/ ToggleEpic \/ EnterEpic \/ OpenPalette \/ Confirm \/ LeaveDetail
  BY <1>3, MainKeysGood
<1>4. CASE OtherField \/ CycleStatus \/ BeginEdit \/ CommitEdit \/ CancelEdit
  BY <1>4, DetailKeysGood
<1>5. CASE \/ Close
           \/ \E i \in Ids : JumpToEpic(i) \/ PaletteJump(i)
           \/ \E view \in Range(Views) : SwitchView(view)
           \/ \E edit \in PaletteEdits : PaletteEdit(edit)
  BY <1>5, MessagesGood
<1>6. CASE UNCHANGED vars
  BY <1>6 DEF vars
<1> QED
  BY <1>1, <1>2, <1>3, <1>4, <1>5, <1>6 DEF Next

-----------------------------------------------------------------------------
\* Text goes home: through any reloads, moves, jumps and switches, an open prompt
\* belongs to the tick the pane holds.
THEOREM TextAlwaysGoesHome == Spec => []TextGoesHome
<1>1. GoodState => TextGoesHome
  BY DEF GoodState, Good, Home, TextGoesHome
<1> QED
  BY <1>1, InitGood, NextGood, PTL DEF Spec

\* Keys go to the detail pane only while it is on screen, at any width.
THEOREM EditsAreVisible == Spec => []EditIsVisible
<1>1. GoodState => EditIsVisible
  BY DEF GoodState, Good, IsApp, Seen, EditIsVisible, Panes
<1> QED
  BY <1>1, InitGood, NextGood, PTL DEF Spec

-----------------------------------------------------------------------------
(***************************************************************************)
(* The detail follows the selection.  An edit in the pane builds the items *)
(* anew, and the selection must be where it was: a view shows what its     *)
(* scope holds, but for the rows of a list that were folded away and have  *)
(* not come back, and has its cursor on a row if there is one.             *)
(***************************************************************************)

Roots(ticks, S) == {i \in S : IsRoot(ticks, S, i)}

InView(a) ==
  LET S == FilterScope(a.ticks, a.scope) IN
  IF a.view = "list"
  THEN /\ Roots(a.ticks, S) \subseteq IdsOf(a.items)
       /\ IdsOf(a.items) \subseteq Shown(a.ticks, S, a.folded)
  ELSE a.items = Items(a.ticks, a.scope, a.view, a.folded)

OnRow(a) ==
  IF a.view = "timeline" THEN a.line = Clamp(a.line, Len(a.items))
  ELSE a.at[a.view] \in IdsOf(a.items) \/ a.at[a.view] = IdAt(a.items, 1)

Placed(a) == a.items \in Seq(RowSet) /\ InView(a) /\ OnRow(a)

LEMMA OnlyTwice ==
  ASSUME NEW a, NEW b, NEW c, NEW S, NEW R, Only(a, b, S), Only(b, c, R)
  PROVE  Only(a, c, S \cup R)
  BY DEF Only

LEMMA PlacedKept ==
  ASSUME NEW a, IsApp(a), NEW b, NEW S, Only(a, b, S),
         S \cap {"ticks", "scope", "view", "items", "folded", "line", "at"} = {}
  PROVE  /\ SelectedTickID(b) = SelectedTickID(a)
         /\ Placed(a) => Placed(b)
<1>1. /\ b.ticks = a.ticks /\ b.scope = a.scope /\ b.view = a.view /\ b.items = a.items
      /\ b.folded = a.folded /\ b.line = a.line /\ b.at = a.at
  BY DEF Only, AppFields
<1> QED
  BY <1>1 DEF SelectedTickID, Placed, InView, OnRow

LEMMA ClampFacts ==
  ASSUME NEW n, NEW high \in Nat
  PROVE  /\ Clamp(Clamp(n, high), high) = Clamp(n, high)
         /\ n \in 1 .. high => Clamp(n, high) = n
  BY DEF Clamp

LEMMA ItemsIds ==
  ASSUME NEW items \in Seq(RowSet)
  PROVE  /\ IdsOf(items) \subseteq Ids
         /\ items # <<>> => IdAt(items, 1) \in IdsOf(items)
         /\ items = <<>> => IdAt(items, 1) = None /\ IdsOf(items) = {}
         /\ \A n \in DOMAIN items : items[n].id \in IdsOf(items)
<1>1. \A n \in DOMAIN items : items[n] \in RowSet
  OBVIOUS
<1>2. items # <<>> => 1 \in DOMAIN items
  OBVIOUS
<1>3. items = <<>> => DOMAIN items = {}
  OBVIOUS
<1> QED
  BY <1>1, <1>2, <1>3 DEF IdsOf, IdAt, RowSet

LEMMA SetScopeShape ==
  ASSUME NEW a, IsApp(a)
  PROVE  /\ SetScope(a).items = Items(a.ticks, a.scope, a.view, a.folded)
         /\ a.view = "timeline" =>
              SetScope(a).line = Clamp(a.line, Len(SetScope(a).items))
         /\ a.view # "timeline" =>
              SetScope(a).at[a.view] = IF At(SetScope(a).items, a.at[a.view]) # 0
                                       THEN a.at[a.view] ELSE IdAt(SetScope(a).items, 1)
<1> DEFINE items == Items(a.ticks, a.scope, a.view, a.folded)
           b == [a EXCEPT !.items = items, !.line = Clamp(@, Len(items))]
           c == [a EXCEPT !.items = items,
                          !.at[a.view] = IF At(items, @) # 0 THEN @ ELSE IdAt(items, 1)]
<1>1. SetScope(a) = IF a.view = "timeline" THEN b ELSE c
  BY DEF SetScope
<1> HIDE DEF items
<1>2. b.items = items /\ b.line = Clamp(a.line, Len(items))
  BY DEF IsApp, AppFields
<1>3. a.view # "timeline" =>
        c.items = items /\ c.at[a.view] = IF At(items, a.at[a.view]) # 0 THEN a.at[a.view] ELSE IdAt(items, 1)
  BY DEF IsApp, AppFields, AllViews
<1> HIDE DEF b, c
<1> QED
  BY <1>1, <1>2, <1>3 DEF items

LEMMA SetScopePlaces ==
  ASSUME NEW a, IsApp(a) PROVE Placed(SetScope(a))
<1> DEFINE b == SetScope(a)
           S == FilterScope(a.ticks, a.scope)
<1>1. Only(a, b, {"items", "line", "at"})
  BY SetScopeOnly
<1>2. b.ticks = a.ticks /\ b.scope = a.scope /\ b.view = a.view /\ b.folded = a.folded
  BY <1>1 DEF Only, AppFields
<1>3. DOMAIN a.ticks \subseteq Ids /\ a.view \in AllViews
  BY DEF IsApp
<1>4. b.items = Items(a.ticks, a.scope, a.view, a.folded) /\ b.items \in Seq(RowSet)
  BY <1>3, SetScopeShape, ItemsFacts
<1>5. /\ a.view = "timeline" => b.line = Clamp(a.line, Len(b.items))
      /\ a.view # "timeline" =>
           b.at[a.view] = IF At(b.items, a.at[a.view]) # 0
                          THEN a.at[a.view] ELSE IdAt(b.items, 1)
  BY SetScopeShape
<1> HIDE DEF b
<1>6. InView(b)
  <2>1. ASSUME a.view = "list" PROVE IdsOf(b.items) = Shown(a.ticks, S, a.folded)
    <3>1. S \in SUBSET DOMAIN a.ticks
      BY InScope
    <3>2. b.items = BuildListItems(a.ticks, S, a.folded)
      BY <1>4, <2>1 DEF Items
    <3> HIDE DEF S
    <3> QED
      BY <1>3, <3>1, <3>2, ListFacts
  <2>2. Roots(a.ticks, S) \subseteq Shown(a.ticks, S, a.folded)
    BY DEF Roots, Shown
  <2> QED
    BY <1>2, <1>4, <2>1, <2>2 DEF InView
<1>7. OnRow(b)
  <2>1. CASE a.view = "timeline"
    <3>1. Len(b.items) \in Nat
      BY <1>4
    <3> QED
      BY <1>2, <1>5, <2>1, <3>1, ClampFacts DEF OnRow
  <2>2. CASE a.view # "timeline"
    <3>1. At(b.items, a.at[a.view]) # 0 <=> a.at[a.view] \in IdsOf(b.items)
      BY <1>4, AtFacts
    <3> QED
      BY <1>2, <1>5, <2>2, <3>1 DEF OnRow
  <2> QED
    BY <2>1, <2>2
<1> QED
  BY <1>4, <1>6, <1>7 DEF Placed, b

\* Rows that lie between the roots and what the folds leave do so when they are
\* built again with other folds; and a row whose own fold alone is new stays.
LEMMA RebuiltRows ==
  ASSUME NEW ticks, NEW S, NEW R, NEW f, NEW g,
         Roots(ticks, S) \subseteq R, R \subseteq Shown(ticks, S, f)
  PROVE  /\ Roots(ticks, S) \subseteq Shown(ticks, R, g)
         /\ Shown(ticks, R, g) \subseteq Shown(ticks, S, g)
         /\ \A i \in R : g \subseteq f \cup {i} => i \in Shown(ticks, R, g)
<1>1. R \subseteq S
  BY DEF Shown
<1>2. ASSUME NEW j \in R
      PROVE  IsRoot(ticks, R, j) <=> IsRoot(ticks, S, j)
  <2>1. CASE IsRoot(ticks, S, j)
    BY <1>1, <2>1 DEF IsRoot
  <2>2. CASE ~IsRoot(ticks, S, j)
    <3> DEFINE r == ticks[j].parent
    <3>1. r \in S /\ IsRoot(ticks, S, r)
      BY <2>2 DEF Shown, IsRoot
    <3>2. r \in R
      BY <3>1 DEF Roots
    <3> QED
      BY <2>2, <3>2 DEF IsRoot
  <2> QED
    BY <2>1, <2>2
<1>3. Roots(ticks, S) \subseteq Shown(ticks, R, g)
  BY <1>2 DEF Roots, Shown
<1>4. ASSUME NEW j \in Shown(ticks, R, g) PROVE j \in Shown(ticks, S, g)
  <2>0. j \in R /\ j \in S
    BY <1>1 DEF Shown
  <2>1. CASE IsRoot(ticks, R, j)
    BY <1>2, <2>0, <2>1 DEF Shown
  <2>2. CASE ~IsRoot(ticks, R, j)
    <3> DEFINE r == ticks[j].parent
    <3>1. r \in R /\ IsRoot(ticks, R, r) /\ ~(ticks[r].epic /\ r \in g)
      BY <2>2 DEF Shown, IsRoot
    <3>2. IsRoot(ticks, S, r)
      BY <1>2, <3>1
    <3> QED
      BY <2>0, <3>1, <3>2 DEF Shown
  <2> QED
    BY <2>1, <2>2
<1>5. ASSUME NEW i \in R, g \subseteq f \cup {i} PROVE i \in Shown(ticks, R, g)
  <2>1. CASE IsRoot(ticks, R, i)
    BY <2>1 DEF Shown
  <2>2. CASE ~IsRoot(ticks, R, i)
    <3> DEFINE r == ticks[i].parent
    <3>1. ~IsRoot(ticks, S, i)
      BY <1>2, <2>2
    <3>2. r \in S /\ IsRoot(ticks, S, r) /\ ~(ticks[r].epic /\ r \in f)
      BY <3>1 DEF Shown, IsRoot
    <3>3. r \in R /\ r # i
      BY <3>1, <3>2 DEF Roots
    <3>4. IsRoot(ticks, R, r) /\ ~(ticks[r].epic /\ r \in g)
      BY <1>2, <1>5, <3>2, <3>3
    <3> QED
      BY <3>4 DEF Shown
  <2> QED
    BY <2>1, <2>2
<1> QED
  BY <1>3, <1>4, <1>5

\* Items built anew for the same ticks, scope and folds leave the selection alone.
LEMMA SelectionStays ==
  ASSUME NEW a, IsApp(a), Placed(a)
  PROVE  SelectedTickID(SetScope(a)) = SelectedTickID(a)
<1> DEFINE b == SetScope(a)
           S == FilterScope(a.ticks, a.scope)
<1>1. Only(a, b, {"items", "line", "at"})
  BY SetScopeOnly
<1>2. b.ticks = a.ticks /\ b.scope = a.scope /\ b.view = a.view /\ b.folded = a.folded
  BY <1>1 DEF Only, AppFields
<1>3. DOMAIN a.ticks \subseteq Ids /\ a.view \in AllViews
  BY DEF IsApp
<1>4. b.items = Items(a.ticks, a.scope, a.view, a.folded) /\ b.items \in Seq(RowSet)
  BY <1>3, SetScopeShape, ItemsFacts
<1>5. /\ a.view = "timeline" => b.line = Clamp(a.line, Len(b.items))
      /\ a.view # "timeline" =>
           b.at[a.view] = IF At(b.items, a.at[a.view]) # 0
                          THEN a.at[a.view] ELSE IdAt(b.items, 1)
  BY SetScopeShape
<1> HIDE DEF b
<1>6. a.items \in Seq(RowSet) /\ InView(a) /\ OnRow(a)
  BY DEF Placed
<1>7. CASE a.view = "timeline"
  <2>1. b.items = a.items
    BY <1>4, <1>6, <1>7 DEF InView
  <2>2. b.line = a.line
    BY <1>5, <1>6, <1>7, <2>1 DEF OnRow
  <2> QED
    BY <1>2, <1>7, <2>1, <2>2 DEF SelectedTickID, b
<1>8. CASE a.view # "timeline"
  <2> DEFINE id == a.at[a.view]
  <2>0. SelectedTickID(b) = b.at[a.view] /\ SelectedTickID(a) = id
    BY <1>2, <1>8 DEF SelectedTickID
  <2>1. At(b.items, id) # 0 <=> id \in IdsOf(b.items)
    BY <1>4, AtFacts
  <2>2. b.at[a.view] = IF id \in IdsOf(b.items) THEN id ELSE IdAt(b.items, 1)
    BY <1>5, <1>8, <2>1
  <2>3. id \in IdsOf(a.items) \/ id = IdAt(a.items, 1)
    BY <1>6, <1>8 DEF OnRow
  <2> HIDE DEF id
  <2>4. CASE a.view # "list"
    <3>1. b.items = a.items
      BY <1>4, <1>6, <2>4 DEF InView
    <3> QED
      BY <2>0, <2>2, <2>3, <3>1 DEF b
  <2>5. CASE a.view = "list"
    <3>1. /\ Roots(a.ticks, S) \subseteq IdsOf(a.items)
          /\ IdsOf(a.items) \subseteq Shown(a.ticks, S, a.folded)
      BY <1>6, <2>5 DEF InView
    <3>2. IdsOf(b.items) = Shown(a.ticks, S, a.folded)
      <4>1. S \in SUBSET DOMAIN a.ticks
        BY InScope
      <4>2. b.items = BuildListItems(a.ticks, S, a.folded)
        BY <1>4, <2>5 DEF Items
      <4> HIDE DEF S
      <4> QED
        BY <1>3, <4>1, <4>2, ListFacts
    <3> HIDE DEF S
    <3>3. CASE id \in IdsOf(a.items)
      BY <2>0, <2>2, <3>1, <3>2, <3>3 DEF b
    <3>4. CASE id \notin IdsOf(a.items)
      <4>1. a.items = <<>> /\ id = None /\ IdsOf(a.items) = {}
        BY <1>6, <2>3, <3>4, ItemsIds
      <4>2. Shown(a.ticks, S, a.folded) = {}
        <5>1. \A i \in S : ~IsRoot(a.ticks, S, i)
          BY <3>1, <4>1 DEF Roots
        <5> QED
          BY <5>1 DEF Shown, IsRoot
      <4>3. b.items = <<>>
        BY <1>4, <3>2, <4>2, ItemsIds
      <4>4. IdAt(b.items, 1) = None /\ IdsOf(b.items) = {}
        BY <4>3, ItemsIds, <1>4
      <4> QED
        BY <2>0, <2>2, <4>1, <4>4 DEF b
    <3> QED
      BY <3>3, <3>4
  <2> QED
    BY <2>4, <2>5
<1> QED
  BY <1>7, <1>8

Mirror(a) == a.pane.tick = SelectedTickID(a)

\* What DetailMirrors says of a step from a to b.
Follow(a, b) ==
  \/ Mirror(b)
  \/ /\ b.pane.tick = a.pane.tick
     /\ \/ SelectedTickID(b) = SelectedTickID(a)
        \/ a.focus = "detail" /\ b.ticks # a.ticks

Arrived(a, b) == Placed(b) /\ Follow(a, b)

LEMMA Unmoved ==
  ASSUME NEW a, IsApp(a), NEW b, NEW S, Only(a, b, S),
         S \cap {"ticks", "scope", "view", "items", "folded", "line", "at", "pane"} = {}
  PROVE  /\ Placed(a) => Arrived(a, b)
         /\ Placed(a) /\ Mirror(a) => Placed(b) /\ Mirror(b)
<1>1. b.pane = a.pane
  BY DEF Only, AppFields
<1>2. SelectedTickID(b) = SelectedTickID(a) /\ (Placed(a) => Placed(b))
  BY PlacedKept
<1> QED
  BY <1>1, <1>2 DEF Arrived, Follow, Mirror

LEMMA SyncMirrors ==
  ASSUME NEW a, IsApp(a)
  PROVE  Mirror(SyncDetail(a)) /\ (Placed(a) => Placed(SyncDetail(a)))
<1>1. Only(a, SyncDetail(a), {"pane"}) /\ SyncDetail(a).pane.tick = SelectedTickID(a)
  BY SyncDetailOnly
<1>2. SelectedTickID(SyncDetail(a)) = SelectedTickID(a) /\ (Placed(a) => Placed(SyncDetail(a)))
  BY <1>1, PlacedKept
<1> QED
  BY <1>1, <1>2 DEF Mirror

LEMMA ReScopeMirrors ==
  ASSUME NEW a, IsApp(a)
  PROVE  Placed(ReScope(a)) /\ Mirror(ReScope(a))
<1> DEFINE b == SetScope(a)
           c == ApplyLayout(b)
<1>1. IsApp(b) /\ Placed(b)
  BY SetScopeOnly, SetScopePlaces DEF Only
<1>2. ReScope(a) = SyncDetail(c)
  BY DEF ReScope
<1> HIDE DEF b
<1>3. Only(b, c, {"detailVisible"})
  BY <1>1, ApplyLayoutOnly
<1> HIDE DEF c
<1>4. IsApp(c)
  BY <1>3 DEF Only
<1>5. Placed(c)
  BY <1>1, <1>3, PlacedKept
<1> QED
  BY <1>2, <1>4, <1>5, SyncMirrors

LEMMA RefreshMirrors ==
  ASSUME NEW a, Good(a), NEW ticks, DOMAIN ticks \subseteq Ids
  PROVE  Placed(Refresh(a, ticks)) /\ Mirror(Refresh(a, ticks))
<1> DEFINE b == SetTicks(a, ticks)
           c == [b EXCEPT !.scope = SelectedScope(b)]
<1>1. Good(b)
  BY GoodSetTicks
<1>2. Refresh(a, ticks) = ReScope(c)
  BY DEF Refresh
<1> HIDE DEF b
<1>3. Good(c)
  BY <1>1, GoodField
<1> HIDE DEF c
<1> QED
  BY <1>2, <1>3, ReScopeMirrors DEF Good

LEMMA FocusMirrors ==
  ASSUME NEW a, Good(a), NEW zone
  PROVE  /\ Placed(a) => Arrived(a, Focus(a, zone))
         /\ Placed(a) => Arrived(a, SyncDetailVisibility(Focus(a, zone)))
         /\ Placed(a) /\ Mirror(a) => Placed(Focus(a, zone)) /\ Mirror(Focus(a, zone))
         /\ Mirror(a) => Mirror(SyncDetailVisibility(Focus(a, zone)))
<1> DEFINE b == Focus(a, zone)
           c == SyncDetailVisibility(b)
<1>1. Only(a, b, {"focus"})
  BY FocusOnly DEF Good
<1> HIDE DEF b
<1>2. Only(b, c, {"detailVisible"})
  BY <1>1, SyncDetailVisibilityOnly DEF Only
<1> HIDE DEF c
<1>3. Only(a, c, {"focus", "detailVisible"})
  BY <1>1, <1>2 DEF Only
<1>4. /\ Placed(a) => Arrived(a, b) /\ Arrived(a, c)
      /\ Placed(a) /\ Mirror(a) => Placed(b) /\ Mirror(b)
  BY <1>1, <1>3, Unmoved DEF Good
<1>5. Mirror(a) => Mirror(c)
  <2>1. SelectedTickID(c) = SelectedTickID(a)
    BY <1>3, PlacedKept DEF Good
  <2>2. c.pane = a.pane
    BY <1>3 DEF Only, AppFields
  <2> QED
    BY <2>1, <2>2 DEF Mirror
<1> QED
  BY <1>4, <1>5 DEF b, c

\* An edit, made or not: the pane keeps its tick; with the same ticks, so does the
\* selection.
LEMMA EditFollows ==
  ASSUME NEW a, Good(a), Placed(a), a.focus = "detail", NEW ticks, DOMAIN ticks \subseteq Ids,
         NEW b, Only(a, b, {"pane"}), b.pane.tick = a.pane.tick
  PROVE  Arrived(a, AfterDetailEdit(b, ticks))
<1> DEFINE c == SetTicks(b, ticks)
           d == SetScope(c)
<1>1. IsApp(b)
  BY DEF Only
<1>2. Only(b, c, {"ticks", "row"}) /\ c.ticks = ticks
  BY <1>1, SetTicksOnly
<1>3. d = AfterDetailEdit(b, ticks)
  BY DEF AfterDetailEdit
<1> HIDE DEF c
<1>4. IsApp(c)
  BY <1>2 DEF Only
<1>5. Only(c, d, {"items", "line", "at"}) /\ Placed(d)
  BY <1>4, SetScopeOnly, SetScopePlaces
<1>6. ASSUME ticks = a.ticks PROVE SelectedTickID(d) = SelectedTickID(a)
  <2>1. Only(a, c, {"pane", "row"})
    BY <1>2, <1>6 DEF Only, AppFields
  <2>2. SelectedTickID(c) = SelectedTickID(a) /\ Placed(c)
    BY <2>1, PlacedKept DEF Good
  <2> QED
    BY <1>4, <2>2, SelectionStays
<1> HIDE DEF d
<1>7. d.pane.tick = a.pane.tick /\ d.ticks = ticks
  BY <1>2, <1>5 DEF Only, AppFields
<1> QED
  BY <1>3, <1>5, <1>6, <1>7 DEF Arrived, Follow

LEMMA SessionMirrors ==
  ASSUME NEW T, DOMAIN T \subseteq Ids, NEW w \in {"three", "two", "one"}, NEW f, Saved(f)
  PROVE  Placed(Session(T, w, f)) /\ Mirror(Session(T, w, f))
<1> DEFINE r == Restore(Applied(NewApp(T), f), f.scope)
           a == ReScope(r)
           b == [a EXCEPT !.width = w]
<1>1. Session(T, w, f) = ApplyLayout(b)
  BY DEF Session, ApplyState, Applied
<1>2. IsApp(r)
  <2> DEFINE new == NewApp(T)
             set == Applied(new, f)
  <2>1. IsApp(new)
    BY NewAppGood DEF Good
  <2> HIDE DEF new
  <2>2. IsApp(set)
    BY <2>1 DEF IsApp, AppFields, Saved, Applied
  <2> HIDE DEF set
  <2>3. IsApp(Restore(set, f.scope))
    BY <2>2, RestoreOnly DEF Only
  <2> QED
    BY <2>3 DEF set, new
<1> HIDE DEF r
<1>3. IsApp(a) /\ Placed(a) /\ Mirror(a)
  BY <1>2, ReScopeMirrors, ReScopeOnly DEF Only
<1> HIDE DEF a
<1>4. Only(a, b, {"width"})
  BY <1>3 DEF IsApp, AppFields, Only
<1> HIDE DEF b
<1>5. IsApp(b) /\ Placed(b) /\ Mirror(b)
  BY <1>3, <1>4, Unmoved DEF Only
<1>6. Only(b, ApplyLayout(b), {"detailVisible"})
  BY <1>5, ApplyLayoutOnly
<1>7. Placed(ApplyLayout(b)) /\ Mirror(ApplyLayout(b))
  BY <1>5, <1>6, Unmoved
<1> QED
  BY <1>1, <1>7

LEMMA RebuiltPlaced ==
  ASSUME NEW a, IsApp(a), Placed(a), a.view = "list", NEW g,
         a.items # <<>> => g \subseteq a.folded \cup {a.at["list"]}
  PROVE  LET b == Rebuilt([a EXCEPT !.folded = g]) IN IsApp(b) /\ Placed(b)
<1> DEFINE b == [a EXCEPT !.folded = g]
           c == Rebuilt(b)
           S == FilterScope(a.ticks, a.scope)
           R == IdsOf(a.items)
           id == a.at["list"]
<1>1. Only(a, b, {"folded"}) /\ b.folded = g
  BY DEF IsApp, AppFields, Only
<1> HIDE DEF b
<1>2. Only(b, c, {"items"}) /\ c.items = BuildListItems(b.ticks, IdsOf(b.items), b.folded)
  BY <1>1, RebuiltOnly DEF Only
<1> HIDE DEF c
<1>3. /\ IsApp(c) /\ c.ticks = a.ticks /\ c.scope = a.scope /\ c.view = "list" /\ c.folded = g
      /\ c.at = a.at /\ c.items = BuildListItems(a.ticks, R, g)
  BY <1>1, <1>2 DEF Only, AppFields
<1>4. DOMAIN a.ticks \subseteq Ids /\ a.items \in Seq(RowSet)
  BY DEF IsApp, Placed
<1>5. Roots(a.ticks, S) \subseteq R /\ R \subseteq Shown(a.ticks, S, a.folded)
  BY DEF Placed, InView
<1>6. S \in SUBSET DOMAIN a.ticks
  BY InScope
<1>7. id \in R \/ id = IdAt(a.items, 1)
  BY DEF Placed, OnRow
<1>8. a.items = <<>> => id = None /\ R = {}
  BY <1>4, <1>7, ItemsIds
<1>9. a.items # <<>> => id \in R
  BY <1>4, <1>7, ItemsIds
<1>10. R \in SUBSET DOMAIN a.ticks
  BY <1>5, <1>6 DEF Shown
<1> HIDE DEF S, R, id
<1>11. c.items \in Seq(RowSet) /\ IdsOf(c.items) = Shown(a.ticks, R, g)
  BY <1>3, <1>4, <1>10, ListFacts
<1>12. /\ Roots(a.ticks, S) \subseteq Shown(a.ticks, R, g)
       /\ Shown(a.ticks, R, g) \subseteq Shown(a.ticks, S, g)
       /\ \A i \in R : g \subseteq a.folded \cup {i} => i \in Shown(a.ticks, R, g)
  BY <1>5, RebuiltRows
<1>13. InView(c)
  BY <1>3, <1>11, <1>12 DEF InView, S
<1>14. id \in IdsOf(c.items) \/ id = IdAt(c.items, 1)
  <2>1. CASE a.items = <<>>
    <3>1. IdsOf(c.items) = {}
      BY <1>8, <1>11, <2>1 DEF Shown
    <3> QED
      BY <1>8, <1>11, <2>1, <3>1, ItemsIds
  <2>2. CASE a.items # <<>>
    BY <1>9, <1>11, <1>12, <2>2 DEF id
  <2> QED
    BY <2>1, <2>2
<1>15. Placed(c)
  BY <1>3, <1>11, <1>13, <1>14 DEF Placed, OnRow, id
<1> QED
  BY <1>3, <1>15 DEF c, b

LEMMA ToggleEpicFollows ==
  ASSUME Good(app), Placed(app), ToggleEpic PROVE Arrived(app, app')
<1> DEFINE i == app.at["list"]
           g == Toggled(app.folded, i)
           b == Rebuilt([app EXCEPT !.folded = g])
<1>1. app' = SyncDetail(b) /\ app.view = "list"
  BY DEF ToggleEpic, Key, Press
<1>2. g \subseteq app.folded \cup {i}
  BY DEF Toggled
<1> HIDE DEF g
<1>3. IsApp(b) /\ Placed(b)
  BY <1>1, <1>2, RebuiltPlaced DEF Good
<1> HIDE DEF b
<1>4. Placed(SyncDetail(b)) /\ Mirror(SyncDetail(b))
  BY <1>3, SyncMirrors
<1> QED
  BY <1>1, <1>4 DEF Arrived, Follow

LEMMA JumpToPlaced ==
  ASSUME NEW a, IsApp(a), Placed(a), a.view = "list", NEW i
  PROVE  IsApp(JumpTo(a, i)) /\ Placed(JumpTo(a, i))
<1>1. CASE At(a.items, i) # 0
  <2> DEFINE b == [a EXCEPT !.at["list"] = i]
  <2>1. Only(a, b, {"at"}) /\ b.at["list"] = i
    BY DEF IsApp, AppFields, AllViews, Only
  <2>2. JumpTo(a, i) = b
    BY <1>1 DEF JumpTo
  <2> HIDE DEF b
  <2>3. i \in IdsOf(a.items) /\ a.items \in Seq(RowSet) /\ InView(a)
    BY <1>1, AtFacts DEF Placed
  <2>4. /\ IsApp(b) /\ b.ticks = a.ticks /\ b.scope = a.scope /\ b.view = a.view
        /\ b.items = a.items /\ b.folded = a.folded
    BY <2>1 DEF Only, AppFields
  <2>5. InView(b)
    BY <2>3, <2>4 DEF InView
  <2>6. OnRow(b)
    BY <2>1, <2>3, <2>4 DEF OnRow
  <2> QED
    BY <2>2, <2>3, <2>4, <2>5, <2>6 DEF Placed
<1>2. CASE At(a.items, i) = 0
  <2>1. JumpTo(a, i) = Rebuilt([a EXCEPT !.folded = {}])
    BY <1>2 DEF JumpTo
  <2> QED
    BY <2>1, RebuiltPlaced
<1> QED
  BY <1>1, <1>2

\* A row of the view, by its number.
LEMMA MovedToFollows ==
  ASSUME NEW a, IsApp(a), Placed(a), NEW n \in DOMAIN a.items
  PROVE  Placed(MovedTo(a, n)) /\ Mirror(MovedTo(a, n))
<1> DEFINE b == IF a.view = "timeline" THEN [a EXCEPT !.line = n]
                ELSE [a EXCEPT !.at[a.view] = a.items[n].id]
<1>1. /\ Only(a, b, {"line", "at"}) /\ (a.view = "timeline" => b.line = n)
      /\ a.view # "timeline" => b.at[a.view] = a.items[n].id
  BY DEF IsApp, AppFields, AllViews, Only
<1>2. MovedTo(a, n) = SyncDetail(b)
  BY DEF MovedTo
<1> HIDE DEF b
<1>3. a.items \in Seq(RowSet) /\ InView(a) /\ n \in 1 .. Len(a.items) /\ Len(a.items) \in Nat
  BY DEF Placed
<1>4. /\ IsApp(b) /\ b.ticks = a.ticks /\ b.scope = a.scope /\ b.view = a.view
      /\ b.items = a.items /\ b.folded = a.folded
  BY <1>1 DEF Only, AppFields
<1>5. InView(b)
  BY <1>3, <1>4 DEF InView
<1>6. OnRow(b)
  <2>1. CASE a.view = "timeline"
    BY <1>1, <1>3, <1>4, <2>1, ClampFacts DEF OnRow
  <2>2. CASE a.view # "timeline"
    BY <1>1, <1>3, <1>4, <2>2, ItemsIds DEF OnRow
  <2> QED
    BY <2>1, <2>2
<1>7. Placed(b)
  BY <1>3, <1>4, <1>5, <1>6 DEF Placed
<1> QED
  BY <1>2, <1>4, <1>7, SyncMirrors

LEMMA MainKeysFollow ==
  ASSUME Good(app), Placed(app),
         Resize \/ Tab \/ ViewHotkey \/ MoveRow \/ ToggleNode \/ Move \/ OtherKey
           \/ EnterDetail \/ ToggleEpic \/ EnterEpic \/ OpenPalette \/ Confirm \/ LeaveDetail
  PROVE  Arrived(app, app')
<1> USE DEF Key, Press, Send
<1>0. \A b : Placed(b) /\ Mirror(b) => Arrived(app, b)
  BY DEF Arrived, Follow
<1>1. CASE Resize
  <2>1. PICK w \in Widths : app' = ApplyLayout([app EXCEPT !.width = w])
    BY <1>1 DEF Resize
  <2>2. w \in {"three", "two", "one"}
    BY ScreenAssumption
  <2> DEFINE b == [app EXCEPT !.width = w]
             c == ApplyLayout(b)
  <2>3. Only(app, b, {"width"})
    BY <2>2 DEF Good, IsApp, AppFields, Only
  <2>4. app' = c
    BY <2>1
  <2> HIDE DEF b
  <2>5. Only(b, c, {"detailVisible"})
    BY <2>3, ApplyLayoutOnly DEF Only
  <2> HIDE DEF c
  <2>6. Only(app, c, {"width", "detailVisible"})
    BY <2>3, <2>5 DEF Only
  <2>7. Arrived(app, c)
    BY <2>6, Unmoved DEF Good
  <2> QED
    BY <2>4, <2>7
<1>2. CASE Tab \/ EnterDetail \/ LeaveDetail
  <2>1. PICK zone : app' = SyncDetailVisibility(Focus(app, zone))
    BY <1>2 DEF Tab, EnterDetail, LeaveDetail
  <2> QED
    BY <2>1, FocusMirrors
<1>3. CASE ViewHotkey
  <2>1. PICK view \in Range(Views) : app' = ReScope([app EXCEPT !.view = view])
    BY <1>3 DEF ViewHotkey
  <2> DEFINE b == [app EXCEPT !.view = view]
  <2>2. Good(b)
    BY ViewsFacts, GoodField
  <2>3. app' = ReScope(b)
    BY <2>1
  <2> HIDE DEF b
  <2> QED
    BY <1>0, <2>2, <2>3, ReScopeMirrors DEF Good
<1>4. CASE MoveRow
  <2>1. PICK n : app' = ReScope([[app EXCEPT !.row = n] EXCEPT !.scope = SelectedScope([app EXCEPT !.row = n])])
    BY <1>4 DEF MoveRow
  <2> DEFINE b == [app EXCEPT !.row = n]
             c == [b EXCEPT !.scope = SelectedScope(b)]
  <2>2. Good(b) /\ app' = ReScope(c)
    BY <2>1, GoodField
  <2> HIDE DEF b
  <2>3. Good(c)
    BY <2>2, GoodField
  <2> HIDE DEF c
  <2> QED
    BY <1>0, <2>2, <2>3, ReScopeMirrors DEF Good
<1>5. CASE ToggleNode
  <2>1. PICK i, S : app' = Restore([app EXCEPT !.shut = S], i)
    BY <1>5 DEF ToggleNode
  <2> DEFINE b == [app EXCEPT !.shut = S]
             c == Restore(b, i)
  <2>2. Only(app, b, {"shut"}) /\ app' = c
    BY <2>1 DEF Good, IsApp, AppFields, Only
  <2> HIDE DEF b
  <2>3. Only(b, c, {"row"})
    BY <2>2, RestoreOnly DEF Only
  <2> HIDE DEF c
  <2>4. Only(app, c, {"shut", "row"})
    BY <2>2, <2>3 DEF Only
  <2>5. Arrived(app, c)
    BY <2>4, Unmoved DEF Good
  <2> QED
    BY <2>2, <2>5
<1>6. CASE Move
  <2>1. PICK n \in DOMAIN app.items : app' = MovedTo(app, n)
    BY <1>6 DEF Move
  <2> QED
    BY <1>0, <2>1, MovedToFollows DEF Good
<1>7. CASE OtherKey \/ EnterEpic
  <2>1. app' = SyncDetail(app)
    BY <1>7 DEF OtherKey, EnterEpic
  <2> QED
    BY <1>0, <2>1, SyncMirrors DEF Good
<1>8. CASE ToggleEpic
  BY <1>8, ToggleEpicFollows
<1>9. CASE OpenPalette
  <2> DEFINE b == Focus(app, "palette")
             c == [b EXCEPT !.offers = DOMAIN app.ticks]
  <2>1. app' = c
    BY <1>9 DEF OpenPalette
  <2>2. Only(app, b, {"focus"})
    BY FocusOnly DEF Good
  <2> HIDE DEF b
  <2>3. Only(app, c, {"focus", "offers"})
    BY <2>2 DEF Only, IsApp, AppFields
  <2> HIDE DEF c
  <2>4. Arrived(app, c)
    BY <2>3, Unmoved DEF Good
  <2> QED
    BY <2>1, <2>4
<1>10. CASE Confirm
  <2>1. app' = app
    BY <1>10 DEF Confirm
  <2> QED
    BY <2>1 DEF Arrived, Follow
<1> QED
  BY <1>1, <1>2, <1>3, <1>4, <1>5, <1>6, <1>7, <1>8, <1>9, <1>10

LEMMA PaneOnly ==
  ASSUME NEW a, IsApp(a), NEW x
  PROVE  LET b == [a EXCEPT !.pane.field = x] IN
         Only(a, b, {"pane"}) /\ b.pane.tick = a.pane.tick
  BY DEF IsApp, IsPane, AppFields, Only

LEMMA DetailKeysFollow ==
  ASSUME Good(app), Placed(app), OtherField \/ CycleStatus \/ BeginEdit \/ CommitEdit \/ CancelEdit
  PROVE  Arrived(app, app')
<1>0. DOMAIN app.ticks \subseteq Ids /\ IsApp(app)
  BY DEF Good, IsApp
<1>1. Only(app, app, {"pane"})
  BY <1>0 DEF Only
<1>2. app.focus = "detail"
  BY DEF OtherField, CycleStatus, BeginEdit, CommitEdit, CancelEdit, InDetail
<1>3. PICK b, ticks : /\ Only(app, b, {"pane"}) /\ b.pane.tick = app.pane.tick
                      /\ DOMAIN ticks \subseteq Ids /\ app' = AfterDetailEdit(b, ticks)
  <2> USE DEF DetailEdit, Key, Press
  <2>1. CASE OtherField
    <3>1. PICK f : app' = AfterDetailEdit([app EXCEPT !.pane.field = f], app.ticks)
      BY <2>1 DEF OtherField
    <3> DEFINE b == [app EXCEPT !.pane.field = f]
    <3>2. Only(app, b, {"pane"}) /\ b.pane.tick = app.pane.tick
      BY <1>0, PaneOnly
    <3> HIDE DEF b
    <3> QED
      BY <1>0, <3>1, <3>2 DEF b
  <2>2. CASE BeginEdit
    BY <1>0, <2>2, OpenInputOnly DEF BeginEdit
  <2>3. CASE CancelEdit
    BY <1>0, <2>3, CancelledOnly DEF CancelEdit
  <2>4. CASE CycleStatus
    <3>1. PICK t : app' = AfterDetailEdit(app, With(app.pane.tick, t))
      BY <2>4 DEF CycleStatus
    <3>2. DOMAIN With(app.pane.tick, t) \subseteq Ids
      BY <1>0, TrackerFacts
    <3> QED
      BY <1>1, <3>1, <3>2
  <2>5. CASE CommitEdit
    <3>1. PICK t : app' = AfterDetailEdit(Cancelled(app), With(app.pane.tick, t))
      BY <2>5 DEF CommitEdit
    <3>2. DOMAIN With(app.pane.tick, t) \subseteq Ids
      BY <1>0, TrackerFacts
    <3>3. Only(app, Cancelled(app), {"pane"}) /\ Cancelled(app).pane.tick = app.pane.tick
      BY <1>0, CancelledOnly
    <3> QED
      BY <3>1, <3>2, <3>3
  <2> QED
    BY <2>1, <2>2, <2>3, <2>4, <2>5
<1> QED
  BY <1>2, <1>3, EditFollows

LEMMA OpenDetailEditFollows ==
  ASSUME NEW a, Good(a), Placed(a), NEW edit
  PROVE  LET b == OpenDetailEdit(a, SelectedTickID(a), edit) IN Placed(b) /\ Mirror(b)
<1> DEFINE i == SelectedTickID(a)
           s == SetTick(a, i)
           v == SyncDetailVisibility(Focus(s, "detail"))
           field == IF edit = "reassign" THEN "owner" ELSE v.pane.field
           kind == IF edit = "reassign" THEN "text" ELSE "blocker"
           c == [v EXCEPT !.pane.field = field]
           d == OpenInput(c, kind)
<1>1. s = SyncDetail(a)
  BY DEF SyncDetail
<1>2. OpenDetailEdit(a, i, edit) = d
  <2> DEFINE e == [v EXCEPT !.pane.field = IF edit = "reassign" THEN "owner" ELSE @]
  <2>1. OpenDetailEdit(a, i, edit) = OpenInput(e, kind)
    BY DEF OpenDetailEdit
  <2>2. e = c
    OBVIOUS
  <2> HIDE DEF e, c, kind
  <2> QED
    BY <2>1, <2>2
<1> HIDE DEF field, kind
<1>3. Good(s) /\ Placed(s) /\ Mirror(s)
  BY <1>1, GoodSetTick, SyncMirrors DEF Good
<1> HIDE DEF s
<1>4. Good(v) /\ Placed(v) /\ Mirror(v)
  BY <1>3, GoodFocus, FocusMirrors DEF Arrived
<1> HIDE DEF v
<1>5. IsApp(v) /\ Only(v, c, {"pane"}) /\ c.pane.tick = v.pane.tick
  BY <1>4, PaneOnly DEF Good
<1> HIDE DEF c
<1>6. Only(c, d, {"pane"}) /\ d.pane.tick = c.pane.tick
  BY <1>5, OpenInputOnly DEF Only
<1> HIDE DEF d
<1>7. Only(v, d, {"pane"}) /\ d.pane.tick = v.pane.tick
  BY <1>5, <1>6 DEF Only
<1>8. SelectedTickID(d) = SelectedTickID(v) /\ Placed(d)
  BY <1>4, <1>5, <1>7, PlacedKept
<1>9. Mirror(d)
  BY <1>4, <1>7, <1>8 DEF Mirror
<1> QED
  BY <1>2, <1>8, <1>9

LEMMA MessagesFollow ==
  ASSUME Good(app), Placed(app),
         \/ Close
         \/ \E i \in Ids : JumpToEpic(i) \/ PaletteJump(i)
         \/ \E view \in Range(Views) : SwitchView(view)
         \/ \E edit \in PaletteEdits : PaletteEdit(edit)
  PROVE  Arrived(app, app')
<1>0. \A b : Placed(b) /\ Mirror(b) => Arrived(app, b)
  BY DEF Arrived, Follow
<1>1. CASE Close
  BY <1>1, FocusMirrors DEF Close
<1>2. ASSUME NEW i \in Ids, JumpToEpic(i) PROVE Arrived(app, app')
  <2> DEFINE r == Restore(app, i)
             s == [r EXCEPT !.scope = i]
             c == [s EXCEPT !.view = "list"]
  <2>1. Good(r)
    BY GoodRestore
  <2>2. app' = Focus(ReScope([r EXCEPT !.scope = i, !.view = "list"]), "main")
    BY <1>2 DEF JumpToEpic
  <2> HIDE DEF r
  <2>3. [r EXCEPT !.scope = i, !.view = "list"] = c
    BY <2>1 DEF Good, IsApp, AppFields
  <2>4. Good(s)
    BY <2>1, GoodField
  <2> HIDE DEF s
  <2>5. Good(c)
    BY <2>4, GoodField DEF AllViews
  <2>6. app' = Focus(ReScope(c), "main")
    BY <2>2, <2>3
  <2> HIDE DEF c
  <2>7. Good(ReScope(c)) /\ Placed(ReScope(c)) /\ Mirror(ReScope(c))
    BY <2>5, GoodReScope, ReScopeMirrors DEF Good
  <2> QED
    BY <1>0, <2>6, <2>7, FocusMirrors
<1>3. ASSUME NEW i \in Ids, PaletteJump(i) PROVE Arrived(app, app')
  <2> DEFINE b == [app EXCEPT !.view = "list"]
             r == ReScope(b)
             j == JumpTo(r, i)
             s == SyncDetail(j)
  <2>1. app' = Focus(s, "main")
    BY <1>3 DEF PaletteJump
  <2>2. Good(b)
    BY GoodField DEF AllViews
  <2>0. b.view = "list"
    BY DEF Good, IsApp, AppFields
  <2> HIDE DEF b
  <2>3. Good(r) /\ Placed(r)
    BY <2>2, GoodReScope, ReScopeMirrors DEF Good
  <2>4. r.view = "list"
    BY <2>0, <2>2, ReScopeOnly DEF Good, Only, AppFields
  <2> HIDE DEF r
  <2>5. Good(j) /\ Placed(j)
    BY <2>3, <2>4, GoodMoves, JumpToPlaced DEF Good
  <2> HIDE DEF j
  <2>6. Good(s) /\ Placed(s) /\ Mirror(s)
    BY <2>5, GoodSetTick, SyncMirrors DEF Good
  <2> HIDE DEF s
  <2> QED
    BY <1>0, <2>1, <2>6, FocusMirrors
<1>4. ASSUME NEW view \in Range(Views), SwitchView(view) PROVE Arrived(app, app')
  <2> DEFINE b == [app EXCEPT !.view = view]
  <2>1. app' = Focus(ReScope(b), "main")
    BY <1>4 DEF SwitchView
  <2>2. Good(b)
    BY ViewsFacts, GoodField
  <2> HIDE DEF b
  <2>3. Good(ReScope(b)) /\ Placed(ReScope(b)) /\ Mirror(ReScope(b))
    BY <2>2, GoodReScope, ReScopeMirrors DEF Good
  <2> QED
    BY <1>0, <2>1, <2>3, FocusMirrors
<1>5. ASSUME NEW edit \in PaletteEdits, PaletteEdit(edit) PROVE Arrived(app, app')
  <2> DEFINE i == SelectedTickID(app)
  <2>1. CASE app' = Focus(app, "main")
    BY <2>1, FocusMirrors
  <2>2. CASE app' = OpenDetailEdit(app, i, edit)
    BY <1>0, <2>2, OpenDetailEditFollows
  <2>3. ASSUME NEW t, app' = Focus(Refresh(app, With(i, t)), "main") PROVE Arrived(app, app')
    <3> DEFINE b == Refresh(app, With(i, t))
    <3>1. DOMAIN With(i, t) \subseteq Ids
      BY TrackerFacts DEF Good
    <3>2. Good(b) /\ Placed(b) /\ Mirror(b)
      BY <3>1, GoodSetTicks, RefreshMirrors
    <3> HIDE DEF b
    <3>3. app' = Focus(b, "main")
      BY <2>3 DEF b
    <3> QED
      BY <1>0, <3>2, <3>3, FocusMirrors
  <2> QED
    BY <1>5, <2>1, <2>2, <2>3 DEF PaletteEdit
<1> QED
  BY <1>1, <1>2, <1>3, <1>4, <1>5

LEMMA InitPlaced == Init => Placed(app)
<1> SUFFICES ASSUME Init PROVE Placed(app)
  OBVIOUS
<1>1. PICK T \in Trackers, w \in Widths, f \in Files : app = Session(T, w, f)
  BY DEF Init
<1>2. Saved(f) /\ w \in {"three", "two", "one"}
  BY ScreenAssumption, ViewsFacts DEF Saved
<1> QED
  BY <1>1, <1>2, TrackerFacts, SessionMirrors

LEMMA NextFollows ==
  GoodState /\ Placed(app) /\ [Next]_vars => Arrived(app, app')
<1> SUFFICES ASSUME GoodState, Placed(app), [Next]_vars PROVE Arrived(app, app')
  OBVIOUS
<1>0. /\ Good(app) /\ app.width \in {"three", "two", "one"}
      /\ \A b : Placed(b) /\ Mirror(b) => Arrived(app, b)
  BY DEF GoodState, Good, IsApp, Arrived, Follow
<1>1. ASSUME NEW T \in Trackers, Reload(T) PROVE Arrived(app, app')
  BY <1>0, <1>1, TrackerFacts, RefreshMirrors DEF Reload
<1>2. ASSUME NEW T \in Trackers, Quit(T) \/ Kill(T) PROVE Arrived(app, app')
  <2>1. PICK f \in {file, SaveState(app)} : Begins(T, app.width, f)
    BY <1>2 DEF Quit, Kill
  <2>2. Saved(f)
    BY SavedKept DEF GoodState
  <2> QED
    BY <1>0, <2>1, <2>2, TrackerFacts, SessionMirrors DEF Begins
<1>3. CASE Resize \/ Tab \/ ViewHotkey \/ MoveRow \/ ToggleNode \/ Move \/ OtherKey
             \/ EnterDetail \/ ToggleEpic \/ EnterEpic \/ OpenPalette \/ Confirm \/ LeaveDetail
  BY <1>0, <1>3, MainKeysFollow
<1>4. CASE OtherField \/ CycleStatus \/ BeginEdit \/ CommitEdit \/ CancelEdit
  BY <1>0, <1>4, DetailKeysFollow
<1>5. CASE \/ Close
           \/ \E i \in Ids : JumpToEpic(i) \/ PaletteJump(i)
           \/ \E view \in Range(Views) : SwitchView(view)
           \/ \E edit \in PaletteEdits : PaletteEdit(edit)
  BY <1>0, <1>5, MessagesFollow
<1>6. CASE UNCHANGED vars
  BY <1>6 DEF vars, Arrived, Follow
<1> QED
  BY <1>1, <1>2, <1>3, <1>4, <1>5, <1>6 DEF Next

-----------------------------------------------------------------------------
\* The detail follows the selection: it comes to show a tick only as the
\* highlighted one, and parts from it only by an edit made in the pane.
THEOREM DetailAlwaysMirrors == Spec => DetailMirrors
<1> DEFINE Step == /\ app'.pane.tick # app.pane.tick => Mirrors'
                   /\ Mirrors /\ ~Mirrors' => app.focus = "detail" /\ app'.ticks # app.ticks
<1>1. Init => GoodState /\ Placed(app)
  BY InitGood, InitPlaced
<1>2. GoodState /\ Placed(app) /\ [Next]_vars => (GoodState /\ Placed(app))' /\ Step
  <2> SUFFICES ASSUME GoodState, Placed(app), [Next]_vars PROVE GoodState' /\ Placed(app)' /\ Step
    OBVIOUS
  <2>1. Mirrors' <=> app'.pane.tick = SelectedTickID(app')
    BY DEF Mirrors, SelectedTickID, IdAt
  <2>2. Placed(app') /\ Follow(app, app')
    BY NextFollows DEF Arrived
  <2>3. Step
    BY <2>1, <2>2 DEF Follow, Mirror, Mirrors
  <2>4. Placed(app)'
    BY <2>2 DEF Placed
  <2> QED
    BY <2>3, <2>4, NextGood
<1>3. GoodState /\ Placed(app) /\ [Next]_vars => [Step]_vars
  BY <1>2
<1> QED
  BY <1>1, <1>2, <1>3, PTL DEF Spec, DetailMirrors

-----------------------------------------------------------------------------
(***************************************************************************)
(* A reload keeps the place.                                               *)
(***************************************************************************)

LEMMA WalksFacts ==
  ASSUME NEW ticks, DOMAIN ticks \subseteq Ids, NEW shut
  PROVE  \A i \in DOMAIN ticks : Walks(ticks, shut)[i] \in Seq(Ids)
<1> DEFINE K == DOMAIN ticks
           D == [K -> Seq(Ids)]
           N == Len(ByName)
           below(i) == {k \in Kids(ticks, i) : Kids(ticks, k) # {}}
           under(i, w) == Listed(ByPriority, below(i), w)
           Level(n, w) == [i \in K |-> <<i>> \o IF n = 0 \/ i \in shut THEN <<>> ELSE under(i, w)]
           F == [s \in Nat \X D |-> Level(s[1], s[2])]
           walk == CHOOSE f : f = [n \in 0 .. N |-> Level(n, f[n - 1])]
           start == [i \in K |-> <<i>> \o <<>>]
<1>1. ByPriority \in Seq(Ids) /\ Range(ByPriority) = Ids /\ N \in Nat /\ K \subseteq Ids
  BY ScreenAssumption
<1>2. Walks(ticks, shut) = walk[N]
  BY DEF Walks, Levels
<1>3. \A i : below(i) \in SUBSET K
  BY DEF Kids
<1> HIDE DEF N, below, K
<1>4. ASSUME NEW w \in D, NEW i PROVE under(i, w) \in Seq(Ids)
  <2> DEFINE B == below(i)
  <2>1. B \in SUBSET K /\ B \in SUBSET Range(ByPriority)
    BY <1>1, <1>3
  <2>2. Parts(B, w, Ids)
    BY <2>1 DEF Parts
  <2> HIDE DEF B, D
  <2>3. Listed(ByPriority, B, w) \in Seq(Ids)
    BY <1>1, <2>1, <2>2, ListedFacts
  <2> QED
    BY <2>3 DEF B
<1> HIDE DEF under
<1>5. ASSUME NEW w \in D, NEW n PROVE Level(n, w) \in D
  <2>1. ASSUME NEW i \in K
        PROVE  <<i>> \o (IF n = 0 \/ i \in shut THEN <<>> ELSE under(i, w)) \in Seq(Ids)
    BY <1>1, <1>4
  <2> QED
    BY <2>1
<1>6. start \in D /\ \A w : Level(0, w) = start
  <2>1. \A i \in K : <<i>> \o <<>> \in Seq(Ids)
    BY <1>1
  <2> QED
    BY <2>1
<1> HIDE DEF Level, start
<1>7. F \in [Nat \X D -> D]
  <2>1. ASSUME NEW s \in Nat \X D PROVE Level(s[1], s[2]) \in D
    BY <1>5
  <2> HIDE DEF D
  <2> QED
    BY <2>1
<1> HIDE DEF D
<1>8. \A n \in Nat, w \in D : F[n, w] = Level(n, w)
  <2>1. ASSUME NEW n \in Nat, NEW w \in D PROVE F[n, w] = Level(n, w)
    <3>1. <<n, w>> \in Nat \X D
      OBVIOUS
    <3>2. F[<<n, w>>] = Level(<<n, w>>[1], <<n, w>>[2])
      BY <3>1
    <3> QED
      BY <3>2
  <2> QED
    BY <2>1
<1> HIDE DEF F
<1>9. PICK f \in [0 .. N -> D] : Steps(F, start, f, N)
  BY <1>1, <1>6, <1>7, StepsExist
<1>10. f = [n \in 0 .. N |-> Level(n, f[n - 1])]
  <2>1. ASSUME NEW n \in 0 .. N PROVE f[n] = Level(n, f[n - 1])
    <3>1. CASE n = 0
      BY <1>6, <1>9, <3>1 DEF Steps
    <3>2. CASE n # 0
      <4>1. n \in 1 .. N /\ n - 1 \in 0 .. N /\ n \in Nat
        BY <1>1, <3>2
      <4>2. f[n - 1] \in D
        BY <1>9, <4>1
      <4> QED
        BY <1>8, <1>9, <4>1, <4>2 DEF Steps
    <3> QED
      BY <3>1, <3>2
  <2> QED
    BY <1>9, <2>1
<1>11. walk = [n \in 0 .. N |-> Level(n, walk[n - 1])]
  BY <1>10
<1> HIDE DEF walk
<1>12. \A n \in 0 .. N : walk[n] = Level(n, walk[n - 1])
  BY <1>11, Zenon
<1> DEFINE Bad == {n \in 0 .. N : walk[n] \notin D}
<1>13. Bad = {}
  <2>1. SUFFICES ASSUME Bad # {} PROVE FALSE
    OBVIOUS
  <2>2. PICK m \in Bad : \A n \in Bad : m <= n
    <3>1. Bad \subseteq Nat
      BY <1>1
    <3> HIDE DEF Bad
    <3> QED
      BY <2>1, <3>1, LeastNumber
  <2>3. m \in 0 .. N /\ walk[m] \notin D
    OBVIOUS
  <2>4. m # 0
    <3>1. 0 \in 0 .. N
      BY <1>1
    <3>2. walk[0] = start
      BY <1>6, <1>12, <3>1
    <3> QED
      BY <1>6, <2>3, <3>2
  <2>5. m - 1 \in 0 .. N /\ ~(m <= m - 1)
    BY <1>1, <2>3, <2>4
  <2>6. walk[m - 1] \in D
    BY <2>2, <2>5
  <2> QED
    BY <1>5, <1>12, <2>3, <2>6
<1>14. walk[N] \in D
  <2>1. N \in 0 .. N
    BY <1>1
  <2> QED
    BY <1>13, <2>1
<1> QED
  BY <1>2, <1>14 DEF D, K

LEMMA RowsFacts ==
  ASSUME NEW ticks, DOMAIN ticks \subseteq Ids, NEW shut
  PROVE  \E T : Rows(ticks, shut) \in Seq(T)
<1> DEFINE roots == {i \in DOMAIN ticks : Kids(ticks, i) # {} /\ IsRoot(ticks, DOMAIN ticks, i)}
           W == Walks(ticks, shut)
           tree == Listed(ByPriority, roots, W)
           T == Ids \cup {"awaiting", "my", "roadmap", "active", "backlog", Heading}
<1>1. ByPriority \in Seq(Ids) /\ roots \in SUBSET Range(ByPriority)
  BY ScreenAssumption
<1>2. Parts(roots, W, Ids)
  BY WalksFacts DEF Parts
<1>3. Rows(ticks, shut) = Smart \o IF roots = {} THEN <<>> ELSE <<Heading>> \o tree
  BY DEF Rows
<1>4. roots \in SUBSET DOMAIN ticks
  OBVIOUS
<1> HIDE DEF roots, W
<1>5. tree \in Seq(Ids)
  BY <1>1, <1>2, ListedFacts
<1>6. tree \in Seq(T)
  <2>1. Ids \subseteq T
    OBVIOUS
  <2> HIDE DEF tree, T
  <2> QED
    BY <1>5, <2>1
<1> HIDE DEF tree
<1>7. Smart \in Seq(T) /\ <<Heading>> \in Seq(T) /\ <<>> \in Seq(T)
  BY DEF Smart
<1> HIDE DEF T
<1>8. Smart \o (IF roots = {} THEN <<>> ELSE <<Heading>> \o tree) \in Seq(T)
  BY <1>6, <1>7
<1> QED
  BY <1>3, <1>8

\* A row that is still there is found again.
LEMMA RestoreFinds ==
  ASSUME NEW a, IsApp(a), NEW scope, scope # Heading, scope \in Range(Rows(a.ticks, a.shut))
  PROVE  SelectedScope(Restore(a, scope)) = scope
<1> DEFINE rows == Rows(a.ticks, a.shut)
           S == {n \in 1 .. Len(rows) : rows[n] = scope /\ rows[n] # Heading}
           same == SelectInSeq(rows, LAMBDA r : r = scope /\ r # Heading)
           b == Restore(a, scope)
<1>1. PICK T : rows \in Seq(T)
  BY RowsFacts DEF IsApp
<1>2. PICK n \in DOMAIN rows : rows[n] = scope
  BY DEF Range
<1>3. same = IF S # {} THEN Min(S) ELSE 0
  BY DEF SelectInSeq
<1>4. Only(a, b, {"row"})
  BY RestoreOnly
<1>5. b.row = IF same # 0 THEN same
              ELSE IF rows[Clamp(a.row, Len(rows))] = Heading THEN Clamp(a.row, Len(rows)) + 1
              ELSE Clamp(a.row, Len(rows))
  BY DEF Restore, IsApp, AppFields
<1>6. b.ticks = a.ticks /\ b.shut = a.shut
  BY <1>4 DEF Only, AppFields
<1> HIDE DEF rows, same, b
<1>7. S # {} /\ S \subseteq Nat /\ 0 \notin S
  BY <1>1, <1>2
<1>8. \A k \in S : rows[k] = scope
  OBVIOUS
<1> HIDE DEF S
<1>9. same \in S /\ same # 0
  BY <1>3, <1>7, FirstPlace
<1>10. rows[b.row] = scope
  BY <1>5, <1>8, <1>9
<1>11. SelectedScope(b) = IF rows[b.row] = Heading THEN "awaiting" ELSE rows[b.row]
  BY <1>6 DEF SelectedScope, rows
<1> QED
  BY <1>10, <1>11 DEF b

LEMMA ReloadScope ==
  ASSUME Good(app), NEW T, DOMAIN T \subseteq Ids,
         app.scope = SelectedScope(app), app.scope \in Range(Rows(T, app.shut))
  PROVE  Refresh(app, T).scope = app.scope
<1> DEFINE a == [app EXCEPT !.ticks = T]
           b == Restore(a, app.scope)
           c == [b EXCEPT !.scope = SelectedScope(b)]
<1>1. Refresh(app, T) = ReScope(c)
  BY DEF Refresh, SetTicks
<1>2. IsApp(a) /\ a.ticks = T /\ a.shut = app.shut
  BY DEF Good, IsApp, AppFields
<1>3. app.scope # Heading
  BY DEF SelectedScope, Heading
<1> HIDE DEF a
<1>4. SelectedScope(b) = app.scope
  BY <1>2, <1>3, RestoreFinds
<1>5. IsApp(b)
  BY <1>2, RestoreOnly DEF Only
<1> HIDE DEF b
<1>6. IsApp(c) /\ c.scope = app.scope
  BY <1>4, <1>5 DEF IsApp, AppFields
<1> HIDE DEF c
<1>7. Only(c, ReScope(c), {"items", "line", "at", "detailVisible", "pane"})
  BY <1>6, ReScopeOnly
<1> QED
  BY <1>1, <1>6, <1>7 DEF Only, AppFields

LEMMA ReloadTick ==
  ASSUME Good(app), NEW T, DOMAIN T \subseteq Ids, app.view # "timeline",
         At(Refresh(app, T).items, SelectedTickID(app)) # 0
  PROVE  /\ SelectedTickID(Refresh(app, T)) = SelectedTickID(app)
         /\ Mirror(app) => Refresh(app, T).pane = app.pane
<1> DEFINE b == SetTicks(app, T)
           c == [b EXCEPT !.scope = SelectedScope(b)]
           d == SetScope(c)
           e == ApplyLayout(d)
           f == SyncDetail(e)
           tick == app.at[app.view]
<1>1. Refresh(app, T) = f
  BY DEF Refresh, ReScope
<1>2. SelectedTickID(app) = tick /\ app.view \in AllViews
  BY DEF SelectedTickID, Good, IsApp
<1>3. Only(app, b, {"ticks", "row"})
  BY SetTicksOnly DEF Good
<1> HIDE DEF b
<1>4. Only(app, c, {"ticks", "row", "scope"})
  BY <1>3 DEF Only, IsApp, AppFields
<1> HIDE DEF c
<1>5. IsApp(c) /\ c.view = app.view /\ c.at = app.at /\ c.pane = app.pane
  BY <1>4 DEF Only, AppFields
<1>6. /\ Only(c, d, {"items", "line", "at"}) /\ Placed(d)
      /\ d.at[app.view] = IF At(d.items, tick) # 0 THEN tick ELSE IdAt(d.items, 1)
  BY <1>5, SetScopeOnly, SetScopePlaces, SetScopeShape
<1> HIDE DEF d
<1>7. IsApp(d) /\ d.view = app.view /\ d.pane = app.pane
  BY <1>5, <1>6 DEF Only, AppFields
<1>8. Only(d, e, {"detailVisible"})
  BY <1>7, ApplyLayoutOnly
<1> HIDE DEF e
<1>9. IsApp(e) /\ e.view = app.view /\ e.pane = app.pane /\ e.items = d.items /\ e.at = d.at
  BY <1>7, <1>8 DEF Only, AppFields
<1>10. Only(e, f, {"pane"})
  BY <1>9, SyncDetailOnly
<1>11. f = SetTick(e, SelectedTickID(e))
  BY DEF SyncDetail
<1> HIDE DEF f
<1>12. f.view = app.view /\ f.items = d.items /\ f.at = d.at
  BY <1>9, <1>10 DEF Only, AppFields
<1>13. At(d.items, tick) # 0
  BY <1>1, <1>2, <1>12
<1> HIDE DEF tick
<1>14. d.at[app.view] = tick
  BY <1>6, <1>13
<1>15. SelectedTickID(f) = tick /\ SelectedTickID(e) = tick
  BY <1>9, <1>12, <1>14 DEF SelectedTickID
<1>16. tick # None
  <2>1. d.items \in Seq(RowSet)
    BY <1>6 DEF Placed
  <2>2. tick \in IdsOf(d.items)
    BY <1>13, <2>1, AtFacts
  <2> QED
    BY <2>1, <2>2, ItemsIds, ScreenAssumption
<1>17. Mirror(app) => f = e
  BY <1>2, <1>9, <1>11, <1>15, <1>16 DEF Mirror, SetTick
<1> QED
  BY <1>1, <1>2, <1>9, <1>15, <1>17

-----------------------------------------------------------------------------
\* A reload leaves the reader where he was, whatever the tracker has become: the
\* scope if it has its row, the tick if it is in scope, and the text being typed.
THEOREM ReloadsKeepPlace == Spec => ReloadKeepsPlace
<1> DEFINE Step ==
      \A T \in Trackers : Reload(T) =>
        LET tick == SelectedTickID(app) IN
        /\ app.scope = SelectedScope(app) /\ app.scope \in Range(Rows(T, app.shut))
             => app'.scope = app.scope
        /\ app.view # "timeline" /\ At(app'.items, tick) # 0
             => /\ SelectedTickID(app') = tick
                /\ Mirrors => app'.pane = app.pane
<1>1. GoodState => Step
  <2> SUFFICES ASSUME GoodState, NEW T \in Trackers, Reload(T)
               PROVE  LET tick == SelectedTickID(app) IN
                      /\ app.scope = SelectedScope(app) /\ app.scope \in Range(Rows(T, app.shut))
                           => app'.scope = app.scope
                      /\ app.view # "timeline" /\ At(app'.items, tick) # 0
                           => /\ SelectedTickID(app') = tick
                              /\ Mirrors => app'.pane = app.pane
    OBVIOUS
  <2>1. Good(app) /\ DOMAIN T \subseteq Ids /\ app' = Refresh(app, T)
    BY TrackerFacts DEF GoodState, Reload
  <2> QED
    BY <2>1, ReloadScope, ReloadTick DEF Mirror, Mirrors
<1>2. GoodState /\ [Next]_vars => GoodState' /\ [Step]_vars
  BY <1>1, NextGood
<1> QED
  BY <1>2, InitGood, PTL DEF Spec, ReloadKeepsPlace

-----------------------------------------------------------------------------
(***************************************************************************)
(* The watcher (module TuiWatch), for any ticks, commands and edits: a     *)
(* screen out of date is noticed, if nothing is written while the TUI      *)
(* starts and some tick is never deleted.                                  *)
(*                                                                         *)
(* Both assumptions are needed: see NoGap, NoEmpty and the module TuiWatch *)
(* for the window before the watcher is there, and the list that is nil.   *)
(*                                                                         *)
(* The invariant says what a list under way knows when no event has come   *)
(* since it began: it has not failed, and what it has read is on disk.     *)
(***************************************************************************)

\* The commands leave the tracker alone while the TUI starts.
NoGap == QuietStart

\* The list is never empty.
NoEmpty == Kept # {}

Fresh ==
  events = 0 =>
    CASE at \in {"startRead", "read"} ->
           ~failed /\ \A t \in Ticks \ left : listed[t] = disk[t]
      [] at = "message"         -> ~failed /\ listed = disk
      [] at \in {"watch", "wait"} -> shown = disk
      [] OTHER                  -> TRUE

WatchInv ==
  /\ Kept \subseteq There(disk)
  /\ Starting => events = 0
  /\ left \subseteq There(disk) \/ events > 0 \/ at \notin {"startRead", "read"}
  /\ Fresh

-----------------------------------------------------------------------------
LEMMA WatchStarts == WatchInit => TypeOK /\ WatchInv
<1> SUFFICES ASSUME WatchInit PROVE TypeOK /\ WatchInv
  OBVIOUS
<1>1. Nothing \in [Ticks -> 0 .. MaxWrites + 1]
  BY TuiWatchAssumption DEF Nothing
<1>2. disk \in [Ticks -> 0 .. MaxWrites + 1]
  <2>1. PICK S \in SUBSET Ticks : disk = [t \in Ticks |-> IF t \in S THEN 1 ELSE 0]
    BY DEF WatchInit
  <2>2. \A t \in Ticks : (IF t \in S THEN 1 ELSE 0) \in 0 .. MaxWrites + 1
    BY TuiWatchAssumption
  <2> QED
    BY <2>1, <2>2
<1>3. TypeOK
  <2>1. shown = Nothing /\ listed = Nothing
    BY DEF WatchInit
  <2>2. events = 0 /\ writes = 0 /\ left = {} /\ failed = FALSE /\ at = "start"
    BY DEF WatchInit
  <2>3. events \in 0 .. writes /\ writes \in 0 .. MaxWrites
    BY <2>2, TuiWatchAssumption
  <2> QED
    BY <1>1, <1>2, <2>1, <2>2, <2>3 DEF TypeOK
<1>4. WatchInv
  BY DEF WatchInit, WatchInv, Fresh, Starting
<1> QED
  BY <1>3, <1>4

LEMMA WatchTypes == TypeOK /\ [WatchNext]_watchVars => TypeOK'
<1> SUFFICES ASSUME TypeOK, [WatchNext]_watchVars PROVE TypeOK'
  OBVIOUS
<1> DEFINE Value == 0 .. MaxWrites + 1
<1>0. /\ MaxWrites \in Nat /\ disk \in [Ticks -> Value] /\ shown \in [Ticks -> Value]
      /\ listed \in [Ticks -> Value] /\ events \in 0 .. writes /\ writes \in 0 .. MaxWrites
      /\ left \subseteq Ticks /\ failed \in BOOLEAN /\ (failed => left = {})
  BY TuiWatchAssumption DEF TypeOK
<1>1. ASSUME NEW t \in Ticks, Command(t) PROVE TypeOK'
  <2>1. writes + 2 \in Value /\ 0 \in Value /\ writes' \in 0 .. MaxWrites
    BY <1>0, <1>1 DEF Command
  <2>2. disk' \in [Ticks -> Value]
    BY <1>0, <1>1, <2>1 DEF Command
  <2>3. events' \in 0 .. writes'
    BY <1>0, <1>1 DEF Command, Notice
  <2> QED
    BY <1>0, <1>1, <2>1, <2>2, <2>3 DEF Command, TypeOK
<1>2. ASSUME NEW t \in Ticks, Edit(t) PROVE TypeOK'
  <2>1. writes + 2 \in Value /\ writes' \in 0 .. MaxWrites
    BY <1>0, <1>2 DEF Edit
  <2>2. disk' \in [Ticks -> Value] /\ shown' \in [Ticks -> Value]
    BY <1>0, <1>2, <2>1 DEF Edit
  <2>3. events' \in 0 .. writes'
    BY <1>0, <1>2 DEF Edit, Notice
  <2> QED
    BY <1>0, <1>2, <2>1, <2>2, <2>3 DEF Edit, TypeOK
<1>3. CASE List
  <2>1. Nothing \in [Ticks -> Value]
    BY <1>0 DEF Nothing
  <2> QED
    BY <1>0, <1>3, <2>1 DEF List, TypeOK, There
<1>4. CASE ReadFile
  <2>1. PICK t \in left :
          /\ IF t \in There(disk)
             THEN listed' = [listed EXCEPT ![t] = disk[t]] /\ UNCHANGED failed
             ELSE failed' = TRUE /\ UNCHANGED listed
          /\ left' = Unread(t)
    BY <1>4 DEF ReadFile
  <2>2. listed' \in [Ticks -> Value]
    BY <1>0, <2>1
  <2>3. left' \subseteq Ticks /\ failed' \in BOOLEAN /\ (failed' => left' = {})
    BY <1>0, <2>1 DEF Unread
  <2> QED
    BY <1>0, <1>4, <2>2, <2>3 DEF ReadFile, TypeOK
<1> USE TuiWatchAssumption DEF TypeOK
<1>5. CASE ListEnds
  BY <1>5 DEF ListEnds, Pending
<1>6. CASE AddWatch \/ Wake \/ Drain \/ Reloaded
  BY <1>6 DEF AddWatch, Wake, Drain, Reloaded
<1>7. CASE UNCHANGED watchVars
  BY <1>7 DEF watchVars
<1> QED
  BY <1>1, <1>2, <1>3, <1>4, <1>5, <1>6, <1>7 DEF WatchNext, Tui

LEMMA WatchSteps ==
  ASSUME NoGap, NoEmpty PROVE TypeOK /\ WatchInv /\ [WatchNext]_watchVars => WatchInv'
<1> SUFFICES ASSUME TypeOK, WatchInv, [WatchNext]_watchVars PROVE WatchInv'
  OBVIOUS
<1> USE DEF WatchInv
<1>0. /\ TypeOK' /\ events \in Nat
      /\ disk \in [Ticks -> 0 .. MaxWrites + 1] /\ shown \in [Ticks -> 0 .. MaxWrites + 1]
      /\ listed \in [Ticks -> 0 .. MaxWrites + 1] /\ Kept \subseteq Ticks /\ MaxWrites \in Nat
  BY WatchTypes, TuiWatchAssumption DEF TypeOK
<1>1. ASSUME NEW t \in Ticks, Command(t) PROVE WatchInv'
  <2>1. ~Starting /\ at' = at
    BY <1>1 DEF Command, NoGap
  <2>2. at = "exit" \/ events' > 0
    BY <1>0, <1>1, <2>1 DEF Command, Notice
  <2>3. Kept \subseteq There(disk')
    BY <1>0, <1>1 DEF Command, There, TypeOK
  <2> QED
    BY <1>0, <1>1, <2>1, <2>2, <2>3 DEF Starting, Fresh, There
<1>2. ASSUME NEW t \in Ticks, Edit(t) PROVE WatchInv'
  <2>1. ~Starting /\ at' = at /\ events' > 0
    BY <1>0, <1>2 DEF Edit, Notice
  <2>2. Kept \subseteq There(disk')
    BY <1>0, <1>2 DEF Edit, There, TypeOK
  <2> QED
    BY <1>0, <2>1, <2>2 DEF Starting, Fresh, There
<1>3. CASE List
  BY <1>3, <1>0 DEF List, Starting, Fresh, There, Nothing
<1>4. CASE ReadFile
  <2>1. PICK t \in left :
          /\ IF t \in There(disk)
             THEN listed' = [listed EXCEPT ![t] = disk[t]] /\ UNCHANGED failed
             ELSE failed' = TRUE /\ UNCHANGED listed
          /\ left' = Unread(t)
    BY <1>4 DEF ReadFile
  <2>2. UNCHANGED <<disk, events, at, shown>> /\ at \in {"startRead", "read"} /\ left' \subseteq left
    BY <1>4, <2>1 DEF ReadFile, Unread
  <2>3. ASSUME events = 0 PROVE ~failed' /\ \A u \in Ticks \ left' : listed'[u] = disk'[u]
    BY <1>0, <2>1, <2>2, <2>3 DEF Fresh, Unread, There
  <2>4. Fresh'
    BY <2>2, <2>3 DEF Fresh
  <2> QED
    BY <2>2, <2>4 DEF Starting, There
<1>5. CASE ListEnds
  <2>1. UNCHANGED <<disk, events, left, listed, failed>> /\ left = {} /\ at \in {"startRead", "read"}
    BY <1>5 DEF ListEnds, Pending
  <2>2. events = 0 => ~failed /\ listed = disk
    <3>1. events = 0 => ~failed /\ \A t \in Ticks : listed[t] = disk[t]
      BY <2>1 DEF Fresh
    <3> QED
      BY <3>1, <1>0
  <2>3. at' = "message" \/ at' = "exit" \/ (at' = "watch" /\ shown' = listed /\ at = "startRead")
    BY <1>5 DEF ListEnds
  <2> QED
    BY <2>1, <2>2, <2>3, <1>5 DEF Starting, Fresh, There, ListEnds
<1>6. CASE Reloaded
  <2>1. UNCHANGED <<disk, events, left, listed, failed>> /\ at' = "wait"
        /\ shown' = (IF Accepted THEN listed ELSE shown) /\ at = "message"
    BY <1>6 DEF Reloaded
  <2>2. events = 0 => ~failed /\ listed = disk
    BY <2>1 DEF Fresh
  <2>3. events = 0 => shown' = disk
    BY <2>1, <2>2 DEF Accepted, NoEmpty
  <2> QED
    BY <2>1, <2>3 DEF Starting, Fresh, There
<1>7. CASE AddWatch
  BY <1>7 DEF AddWatch, Starting, Fresh, There
<1>8. CASE Wake \/ Drain
  BY <1>8 DEF Wake, Drain, Starting, Fresh, There
<1>9. CASE UNCHANGED watchVars
  BY <1>9 DEF watchVars, Starting, Fresh, There
<1> QED
  BY <1>1, <1>2, <1>3, <1>4, <1>5, <1>6, <1>7, <1>8, <1>9 DEF WatchNext, Tui

-----------------------------------------------------------------------------
\* The variables keep their types, and a list that has failed reads no further.
THEOREM WatchTypeCorrect == WatchSpec => []TypeOK
  BY WatchStarts, WatchTypes, PTL DEF WatchSpec

\* Without a gap at the start and without an empty tracker, no command and no
\* edit leaves the screen out of date with nothing to redraw it.
THEOREM StaleScreenIsNoticed ==
  ASSUME NoGap, NoEmpty PROVE WatchSpec => []StaleIsNoticed
<1>1. WatchInit => TypeOK /\ WatchInv
  BY WatchStarts
<1>2. TypeOK /\ WatchInv /\ [WatchNext]_watchVars => (TypeOK /\ WatchInv)'
  BY WatchTypes, WatchSteps
<1>3. TypeOK /\ WatchInv => StaleIsNoticed
  BY DEF WatchInv, Fresh, StaleIsNoticed
<1> QED
  BY <1>1, <1>2, <1>3, PTL DEF WatchSpec
=============================================================================
