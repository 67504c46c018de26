-------------------------- MODULE ItemListProofs --------------------------
(***************************************************************************)
(* For any library, any page size and any changes by others: what a reader *)
(* misses and meets twice is bounded, and the numbers of a list fit it.    *)
(***************************************************************************)
EXTENDS ItemList, FiniteSetTheorems, FunctionTheorems, TLAPS

-----------------------------------------------------------------------------
(***************************************************************************)
(* Places.  R lists the elements of a finite set F one after the other;    *)
(* the place of an element is the number of those before it.               *)
(***************************************************************************)

Orders(R, F) ==
    /\ \A i \in F : <<i, i>> \notin R
    /\ \A i, j \in F : i # j => <<i, j>> \in R \/ <<j, i>> \in R
    /\ \A i, j, k \in F : <<i, j>> \in R /\ <<j, k>> \in R => <<i, k>> \in R

Before(R, F, i) == {j \in F : <<j, i>> \in R}

\* Who is before i has a place before that of i.
LEMMA PlacesGrow ==
    ASSUME NEW F, IsFiniteSet(F), NEW R, Orders(R, F), NEW i \in F, NEW j \in F, <<j, i>> \in R
    PROVE  /\ Cardinality(Before(R, F, j)) \in Nat /\ Cardinality(Before(R, F, i)) \in Nat
           /\ Cardinality(Before(R, F, j)) < Cardinality(Before(R, F, i))
<1> DEFINE B == Before(R, F, i)
           A == Before(R, F, j)
<1>1. A \subseteq B /\ j \in B /\ j \notin A /\ B \subseteq F
  BY DEF Orders, Before
<1>2. IsFiniteSet(B) /\ Cardinality(B) \in Nat
  BY <1>1, FS_Subset, FS_CardinalityType
<1>3. IsFiniteSet(A) /\ Cardinality(A) \in Nat /\ Cardinality(A) <= Cardinality(B)
        /\ (Cardinality(B) = Cardinality(A) => B = A)
  BY <1>1, <1>2, FS_Subset, FS_CardinalityType
<1> QED
  BY <1>1, <1>2, <1>3

\* The places are 0 .. |F| - 1, one for each element.
LEMMA PlacesAreNumbers ==
    ASSUME NEW F, IsFiniteSet(F), NEW R, Orders(R, F)
    PROVE  [i \in F |-> Cardinality(Before(R, F, i))] \in Bijection(F, 0 .. Cardinality(F) - 1)
<1> DEFINE n == Cardinality(F)
           place == [i \in F |-> Cardinality(Before(R, F, i))]
<1>1. n \in Nat
  BY FS_CardinalityType
<1>2. ASSUME NEW i \in F PROVE place[i] \in 0 .. n - 1
  <2> DEFINE B == Before(R, F, i)
  <2>1. B \subseteq F /\ i \notin B
    BY DEF Orders, Before
  <2>2. IsFiniteSet(B) /\ Cardinality(B) \in Nat /\ Cardinality(B) <= n /\ (n = Cardinality(B) => F = B)
    BY <2>1, FS_Subset, FS_CardinalityType
  <2>3. Cardinality(B) # n
    BY <2>1, <2>2
  <2>4. place[i] = Cardinality(B)
    OBVIOUS
  <2> HIDE DEF place, B, n
  <2> QED
    BY <1>1, <2>2, <2>3, <2>4
<1>3. ASSUME NEW i \in F, NEW j \in F, place[i] = place[j] PROVE i = j
  <2>1. place[i] = Cardinality(Before(R, F, i)) /\ place[j] = Cardinality(Before(R, F, j))
    OBVIOUS
  <2>2. CASE <<i, j>> \in R
    BY <1>3, <2>1, <2>2, PlacesGrow
  <2>3. CASE <<j, i>> \in R
    BY <1>3, <2>1, <2>3, PlacesGrow
  <2> QED
    BY <2>2, <2>3 DEF Orders
<1>4. place \in [F -> 0 .. n - 1]
  BY <1>2
<1>5. place \in Injection(F, 0 .. n - 1)
  BY <1>3, <1>4, Fun_IsInj
<1>6. IsFiniteSet(0 .. n - 1) /\ Cardinality(0 .. n - 1) = n
  <2>1. IsFiniteSet(0 .. n - 1) /\ Cardinality(0 .. n - 1) = IF 0 > n - 1 THEN 0 ELSE (n - 1) - 0 + 1
    BY <1>1, FS_Interval, SMTT(20)
  <2> QED
    BY <1>1, <2>1
<1>7. place \in Surjection(F, 0 .. n - 1)
  BY <1>5, <1>6, FS_Injection
<1> QED
  BY <1>5, <1>7, Fun_IsBij

Within(R, F, a, b) == {i \in F : Cardinality(Before(R, F, i)) \in a .. b}

\* How many have their place in an interval of those numbers.
LEMMA PlacesInInterval ==
    ASSUME NEW F, IsFiniteSet(F), NEW R, Orders(R, F), NEW a \in Nat, NEW b \in Int,
           b < Cardinality(F)
    PROVE  /\ IsFiniteSet(Within(R, F, a, b))
           /\ Cardinality(Within(R, F, a, b)) = IF a > b THEN 0 ELSE b - a + 1
<1> DEFINE n == Cardinality(F)
           place == [i \in F |-> Cardinality(Before(R, F, i))]
           here == {i \in F : Cardinality(Before(R, F, i)) \in a .. b}
           part == [i \in here |-> place[i]]
<1>1. n \in Nat
  BY FS_CardinalityType
<1>2. place \in Bijection(F, 0 .. n - 1)
  BY PlacesAreNumbers
<1>3. /\ place \in [F -> 0 .. n - 1]
      /\ \A i, j \in F : place[i] = place[j] => i = j
      /\ \A t \in 0 .. n - 1 : \E i \in F : place[i] = t
  <2> HIDE DEF place, n, here
  <2> QED
    BY <1>2 DEF Bijection, Injection, Surjection, IsInjective
<1>4. here = {i \in F : place[i] \in a .. b}
  <2>1. \A i \in F : place[i] = Cardinality(Before(R, F, i))
    OBVIOUS
  <2> HIDE DEF place
  <2> QED
    BY <2>1
<1>5. IsFiniteSet(here)
  <2>1. here \in SUBSET F
    OBVIOUS
  <2> HIDE DEF here
  <2> QED
    BY <2>1, FS_Subset
<1>6. a .. b \subseteq 0 .. n - 1
  BY <1>1
<1> HIDE DEF place, here
<1>7. part \in [here -> a .. b] /\ \A i \in here : i \in F /\ part[i] = place[i]
  BY <1>4
<1>8. \A i, j \in here : part[i] = part[j] => i = j
  BY <1>3, <1>7
<1>9. \A t \in a .. b : \E i \in here : part[i] = t
  BY <1>3, <1>4, <1>6, <1>7
<1> HIDE DEF part
<1>10. part \in Bijection(here, a .. b)
  BY <1>7, <1>8, <1>9, Fun_IsBij
<1>11. ExistsBijection(here, a .. b)
  BY <1>10 DEF ExistsBijection
<1>12. Cardinality(a .. b) = Cardinality(here)
  BY <1>5, <1>11, FS_Bijection
<1>13. Cardinality(a .. b) = IF a > b THEN 0 ELSE b - a + 1
  BY FS_Interval
<1> QED
  BY <1>5, <1>12, <1>13 DEF here, Within

-----------------------------------------------------------------------------
(***************************************************************************)
(* The result of a list.  Whether an item is in it, and which of two items *)
(* is listed first, depends on their own rows only.                        *)
(***************************************************************************)
USE ListAssumption

Views == [Numbers -> ItemRow \cup {NoRow}]

JoinTags(row) == IF row.tags = {} THEN {NoTag} ELSE row.tags
Hit(row, f, g) == (f.q => row.text \/ g \in QTags) /\ (f.tag # NoTag => g = f.tag)
InResult(row, f) == row # NoRow /\ \E g \in JoinTags(row) : Hit(row, f, g)

RowScore(row, f) ==
    IF ~row.fetched THEN 0
    ELSE (IF row.text THEN 2 ELSE 0)
         + (IF \E g \in JoinTags(row) : Hit(row, f, g) /\ g \in QTags THEN 1 ELSE 0)

RowAhead(f, j, rowj, i, rowi) ==
    IF f.relevance /\ f.q /\ RowScore(rowj, f) # RowScore(rowi, f)
    THEN RowScore(rowj, f) > RowScore(rowi, f)
    ELSE j > i

LEMMA JoinedIs ==
    ASSUME NEW view \in Views, NEW r
    PROVE  r \in Joined(view) <=>
             \E i \in Numbers : view[i] # NoRow /\ \E g \in JoinTags(view[i]) : r = <<i, g>>
  BY DEF Joined, JoinTags

LEMMA WhereIs ==
    ASSUME NEW view \in Views, NEW f, NEW i, NEW g
    PROVE  <<i, g>> \in Where(view, f) <=>
             /\ i \in Numbers \cap Mine /\ view[i] # NoRow
             /\ g \in JoinTags(view[i]) /\ Hit(view[i], f, g)
<1>1. <<i, g>> \in Joined(view) <=> i \in Numbers /\ view[i] # NoRow /\ g \in JoinTags(view[i])
  BY JoinedIs
<1>2. <<i, g>>[1] = i /\ <<i, g>>[2] = g
  OBVIOUS
<1> QED
  BY <1>1, <1>2 DEF Where, Hit

LEMMA WherePairs ==
    ASSUME NEW view \in Views, NEW f, NEW r \in Where(view, f)
    PROVE  r = <<r[1], r[2]>>
  BY JoinedIs DEF Where

LEMMA FoundIs ==
    ASSUME NEW view \in Views, NEW f, NEW i
    PROVE  i \in Found(view, f) <=> i \in Numbers \cap Mine /\ InResult(view[i], f)
<1>1. i \in Found(view, f) <=> \E r \in Where(view, f) : i = r[1]
  BY DEF Found
<1>2. (\E r \in Where(view, f) : i = r[1]) <=> \E g : <<i, g>> \in Where(view, f)
  <2>1. ASSUME NEW r \in Where(view, f), i = r[1] PROVE <<i, r[2]>> \in Where(view, f)
    BY <2>1, WherePairs
  <2>2. ASSUME NEW g, <<i, g>> \in Where(view, f) PROVE \E r \in Where(view, f) : i = r[1]
    <3>1. i = <<i, g>>[1]
      OBVIOUS
    <3> QED
      BY <2>2, <3>1
  <2> QED
    BY <2>1, <2>2
<1>3. (\E g : <<i, g>> \in Where(view, f)) <=> i \in Numbers \cap Mine /\ InResult(view[i], f)
  BY WhereIs DEF InResult
<1> QED
  BY <1>1, <1>2, <1>3

LEMMA ScoreIs ==
    ASSUME NEW view \in Views, NEW f, NEW i \in Found(view, f)
    PROVE  Score(view, f, i) = RowScore(view[i], f) /\ Score(view, f, i) \in Nat
<1>1. i \in Numbers \cap Mine /\ view[i] # NoRow
  BY FoundIs DEF InResult
<1>2. (\E r \in Where(view, f) : r[1] = i /\ r[2] \in QTags)
        <=> \E g \in JoinTags(view[i]) : Hit(view[i], f, g) /\ g \in QTags
  <2>1. ASSUME NEW r \in Where(view, f), r[1] = i, r[2] \in QTags
        PROVE  r[2] \in JoinTags(view[i]) /\ Hit(view[i], f, r[2])
    <3>1. <<i, r[2]>> \in Where(view, f)
      BY <2>1, WherePairs
    <3> QED
      BY <3>1, WhereIs
  <2>2. ASSUME NEW g \in JoinTags(view[i]), Hit(view[i], f, g), g \in QTags
        PROVE  \E r \in Where(view, f) : r[1] = i /\ r[2] \in QTags
    <3>1. <<i, g>> \in Where(view, f)
      BY <1>1, <2>2, WhereIs
    <3>2. <<i, g>>[1] = i /\ <<i, g>>[2] = g
      OBVIOUS
    <3> QED
      BY <2>2, <3>1, <3>2
  <2> QED
    BY <2>1, <2>2
<1> QED
  BY <1>2 DEF Score, RowScore

LEMMA AheadIs ==
    ASSUME NEW view \in Views, NEW f, NEW i \in Found(view, f), NEW j \in Found(view, f)
    PROVE  Ahead(view, f, j, i) <=> RowAhead(f, j, view[j], i, view[i])
  BY ScoreIs DEF Ahead, RowAhead

LEMMA FoundType ==
    ASSUME NEW view \in Views, NEW f
    PROVE  /\ Found(view, f) \in SUBSET Mine /\ Found(view, f) \subseteq Numbers
           /\ IsFiniteSet(Found(view, f))
           /\ Total(view, f) \in 0 .. MaxItems
<1>1. Found(view, f) \subseteq Mine /\ Found(view, f) \subseteq Numbers
  BY FoundIs
<1>2. MaxItems \in Nat
  OBVIOUS
<1>3. IsFiniteSet(Numbers) /\ Cardinality(Numbers) = MaxItems
  <2>1. IsFiniteSet(1 .. MaxItems)
          /\ Cardinality(1 .. MaxItems) = IF 1 > MaxItems THEN 0 ELSE MaxItems - 1 + 1
    <3>1. 1 \in Int /\ MaxItems \in Int
      BY <1>2
    <3> QED
      BY <3>1, FS_Interval, Zenon
  <2> QED
    BY <1>2, <2>1 DEF Numbers
<1>4. /\ IsFiniteSet(Found(view, f)) /\ Cardinality(Found(view, f)) \in Nat
      /\ Cardinality(Found(view, f)) <= MaxItems
  BY <1>1, <1>3, FS_Subset, FS_CardinalityType
<1> QED
  BY <1>1, <1>2, <1>4 DEF Total

\* The order in which the result is listed.
Listed(view, f) == {p \in Found(view, f) \X Found(view, f) : Ahead(view, f, p[1], p[2])}

LEMMA ListedIs ==
    ASSUME NEW view \in Views, NEW f, NEW i \in Found(view, f), NEW j \in Found(view, f)
    PROVE  <<j, i>> \in Listed(view, f) <=> Ahead(view, f, j, i)
  BY DEF Listed

LEMMA ListedInOrder ==
    ASSUME NEW view \in Views, NEW f
    PROVE  Orders(Listed(view, f), Found(view, f))
<1>1. \A i \in Found(view, f) : Score(view, f, i) \in Int /\ i \in Int
  BY ScoreIs, FoundType DEF Numbers
<1>2. \A i, j \in Found(view, f) : <<j, i>> \in Listed(view, f) <=> Ahead(view, f, j, i)
  BY ListedIs
<1>3. \A i \in Found(view, f) : ~Ahead(view, f, i, i)
  BY <1>1 DEF Ahead
<1>4. \A i, j \in Found(view, f) : i # j => Ahead(view, f, i, j) \/ Ahead(view, f, j, i)
  BY <1>1 DEF Ahead
<1>5. \A i, j, k \in Found(view, f) :
         Ahead(view, f, i, j) /\ Ahead(view, f, j, k) => Ahead(view, f, i, k)
  BY <1>1 DEF Ahead
<1> QED
  BY <1>2, <1>3, <1>4, <1>5 DEF Orders

LEMMA PlaceIs ==
    ASSUME NEW view \in Views, NEW f, NEW i \in Found(view, f)
    PROVE  Place(view, f, i) = Cardinality(Before(Listed(view, f), Found(view, f), i))
<1>1. {j \in Found(view, f) : Ahead(view, f, j, i)} = Before(Listed(view, f), Found(view, f), i)
  BY ListedIs DEF Before
<1> QED
  BY <1>1 DEF Place

\* The places of a result are 0 .. Total - 1, in its order.
LEMMA Places ==
    ASSUME NEW view \in Views, NEW f, NEW i \in Found(view, f), NEW j \in Found(view, f)
    PROVE  /\ Place(view, f, i) \in 0 .. Total(view, f) - 1
           /\ Ahead(view, f, j, i) <=> Place(view, f, j) < Place(view, f, i)
           /\ Place(view, f, j) = Place(view, f, i) => j = i
<1> DEFINE F == Found(view, f)
           R == Listed(view, f)
           place == [k \in F |-> Cardinality(Before(R, F, k))]
<1>1. IsFiniteSet(F) /\ Orders(R, F) /\ i \in F /\ j \in F
  BY FoundType, ListedInOrder
<1>2. place[i] = Place(view, f, i) /\ place[j] = Place(view, f, j)
  BY PlaceIs
<1>3. <<j, i>> \in R <=> Ahead(view, f, j, i)
  BY ListedIs
<1>4. <<i, j>> \in R <=> Ahead(view, f, i, j)
  BY ListedIs
<1>5. Total(view, f) = Cardinality(F)
  BY DEF Total
<1>6. Total(view, f) \in Nat
  BY FoundType
<1>7. place[i] = Cardinality(Before(R, F, i)) /\ place[j] = Cardinality(Before(R, F, j))
  BY <1>1
<1> HIDE DEF F, R
<1>8. place \in Bijection(F, 0 .. Cardinality(F) - 1)
  BY <1>1, PlacesAreNumbers
<1> HIDE DEF place
<1>9. place[i] \in 0 .. Cardinality(F) - 1 /\ place[j] \in 0 .. Cardinality(F) - 1
        /\ (place[j] = place[i] => j = i)
  BY <1>1, <1>8 DEF Bijection, Injection, Surjection, IsInjective
<1>10. <<j, i>> \in R => place[j] < place[i]
  BY <1>1, <1>7, PlacesGrow
<1>11. <<i, j>> \in R => place[i] < place[j]
  BY <1>1, <1>7, PlacesGrow
<1>12. i # j => <<j, i>> \in R \/ <<i, j>> \in R
  BY <1>1 DEF Orders
<1>13. <<i, i>> \notin R
  BY <1>1 DEF Orders
<1>14. <<j, i>> \in R <=> place[j] < place[i]
  BY <1>5, <1>6, <1>9, <1>10, <1>11, <1>12, <1>13
<1> QED
  BY <1>2, <1>3, <1>5, <1>9, <1>14

\* Who is listed at the places a .. b.
Between(view, f, a, b) == {i \in Found(view, f) : Place(view, f, i) \in a .. b}

LEMMA PlacesCount ==
    ASSUME NEW view \in Views, NEW f, NEW a \in Nat, NEW b \in Int, b < Total(view, f)
    PROVE  /\ IsFiniteSet(Between(view, f, a, b))
           /\ Cardinality(Between(view, f, a, b)) = IF a > b THEN 0 ELSE b - a + 1
<1> DEFINE F == Found(view, f)
           R == Listed(view, f)
<1>1. IsFiniteSet(F) /\ Orders(R, F) /\ b < Cardinality(F)
  BY FoundType, ListedInOrder DEF Total
<1>2. Within(R, F, a, b) = Between(view, f, a, b)
  BY PlaceIs DEF Within, Between
<1>3. /\ IsFiniteSet(Within(R, F, a, b))
      /\ Cardinality(Within(R, F, a, b)) = IF a > b THEN 0 ELSE b - a + 1
  <2> HIDE DEF F, R
  <2> QED
    BY <1>1, PlacesInInterval
<1> QED
  BY <1>2, <1>3

-----------------------------------------------------------------------------
(***************************************************************************)
(* Pages.                                                                  *)
(***************************************************************************)

\* An offset that fits an int is what it should be.
LEMMA WrappedIs ==
    ASSUME NEW n \in Nat, n <= IntMax
    PROVE  Wrapped(n) = n
<1> DEFINE a == n + IntMax + 1
           b == 2 * IntMax + 2
<1>1. a \in Nat /\ b \in Nat /\ b > 0 /\ a < b /\ a - IntMax - 1 = n
  OBVIOUS
<1>2. a % b = a
  <2> HIDE DEF a, b
  <2> QED
    BY <1>1
<1> QED
  BY <1>1, <1>2 DEF Wrapped

LEMMA Quotient ==
    ASSUME NEW n \in Nat, NEW p \in Nat \ {0}
    PROVE  n \div p \in Nat /\ (n \div p) * p <= n /\ n < (n \div p) * p + p
  OBVIOUS

LEMMA Products ==
    ASSUME NEW m \in Nat, NEW n \in Nat, NEW p \in Nat \ {0}
    PROVE  /\ m * p \in Nat /\ m <= m * p
           /\ (m + 1) * p = m * p + p
           /\ m <= n => m * p <= n * p
<1>1. m * p \in Nat /\ (m + 1) * p = m * p + p
  OBVIOUS
<1>2. m <= m * p
  OBVIOUS
<1>3. m <= n => m * p <= n * p
  OBVIOUS
<1> QED
  BY <1>1, <1>2, <1>3

\* The links: there is a next page just if the pages so far hold less than
\* the total.
LEMMA LastPage ==
    ASSUME NEW l, l.total \in Nat, l.perPage \in Nat \ {0}, NEW page \in Nat \ {0}
    PROVE  /\ TotalPages(l) \in Nat \ {0}
           /\ page < TotalPages(l) => page * l.perPage < l.total
           /\ page >= TotalPages(l) => page * l.perPage >= l.total
<1> DEFINE t == l.total
           p == l.perPage
           n == (t + p - 1) \div p
<1>1. t \in Nat /\ p \in Nat \ {0} /\ t + p - 1 \in Nat
  OBVIOUS
<1>2. TotalPages(l) = IF n > 1 THEN n ELSE 1
  BY DEF TotalPages
<1> HIDE DEF t, p
<1>3. n \in Nat /\ n * p <= t + p - 1 /\ t + p - 1 < n * p + p
  BY <1>1, Quotient
<1> HIDE DEF n
<1>4. page < n => page * p < t
  <2> SUFFICES ASSUME page < n PROVE page * p < t
    OBVIOUS
  <2>1. page + 1 \in Nat /\ page + 1 <= n
    BY <1>3
  <2>2. (page + 1) * p <= n * p /\ (page + 1) * p = page * p + p /\ page * p \in Nat
    BY <1>1, <1>3, <2>1, Products
  <2> QED
    BY <1>1, <1>3, <2>2
<1>5. page >= n => page * p >= t
  <2> SUFFICES ASSUME page >= n PROVE page * p >= t
    OBVIOUS
  <2>1. n * p <= page * p /\ n * p \in Nat /\ page * p \in Nat
    BY <1>1, <1>3, Products
  <2> QED
    BY <1>1, <1>3, <2>1
<1> QED
  BY <1>2, <1>3, <1>4, <1>5 DEF t, p

-----------------------------------------------------------------------------
(***************************************************************************)
(* What one changed row does to the places of the others.                  *)
(***************************************************************************)

\* Two views that differ in item i at most.
Differ(view, new, i) ==
    /\ view \in Views /\ new \in Views
    /\ \A j \in Numbers \ {i} : new[j] = view[j]

One(b) == IF b THEN 1 ELSE 0

LEMMA OthersStay ==
    ASSUME NEW view, NEW new, NEW f, NEW i, Differ(view, new, i)
    PROVE  /\ \A j : j # i => (j \in Found(new, f) <=> j \in Found(view, f))
           /\ \A j, k \in Found(view, f) :
                j # i /\ k # i => (Ahead(new, f, j, k) <=> Ahead(view, f, j, k))
<1>1. view \in Views /\ new \in Views
  BY DEF Differ
<1>2. ASSUME NEW j, j # i PROVE j \in Found(new, f) <=> j \in Found(view, f)
  <2>1. CASE j \in Numbers
    BY <1>1, <1>2, <2>1, FoundIs DEF Differ
  <2>2. CASE j \notin Numbers
    BY <1>1, <2>2, FoundIs
  <2> QED
    BY <2>1, <2>2
<1>3. ASSUME NEW j \in Found(view, f), NEW k \in Found(view, f), j # i, k # i
      PROVE  Ahead(new, f, j, k) <=> Ahead(view, f, j, k)
  <2>1. j \in Found(new, f) /\ k \in Found(new, f)
    BY <1>2, <1>3
  <2>2. j \in Numbers /\ k \in Numbers
    BY <1>1, FoundType
  <2>3. new[j] = view[j] /\ new[k] = view[k]
    BY <1>3, <2>2 DEF Differ
  <2>4. Ahead(new, f, j, k) <=> RowAhead(f, j, new[j], k, new[k])
    BY <1>1, <2>1, AheadIs
  <2>5. Ahead(view, f, j, k) <=> RowAhead(f, j, view[j], k, view[k])
    BY <1>1, AheadIs
  <2> QED
    BY <2>3, <2>4, <2>5
<1> QED
  BY <1>2, <1>3

LEMMA CountOne ==
    ASSUME NEW C, IsFiniteSet(C), NEW i, i \notin C, NEW b \in BOOLEAN, NEW S,
           S = IF b THEN C \cup {i} ELSE C
    PROVE  IsFiniteSet(S) /\ Cardinality(S) = Cardinality(C) + One(b) /\ Cardinality(C) \in Nat
<1>1. Cardinality(C) \in Nat
  BY FS_CardinalityType
<1>2. IsFiniteSet(C \cup {i}) /\ Cardinality(C \cup {i}) = Cardinality(C) + 1
  BY FS_AddElement
<1> QED
  BY <1>1, <1>2 DEF One

\* An item goes one place up for one that leaves before it, and one down for
\* one that enters before it.
LEMMA PlaceShifts ==
    ASSUME NEW view, NEW new, NEW f, NEW i, Differ(view, new, i),
           NEW j \in Found(view, f), j # i
    PROVE  Place(new, f, j) = Place(view, f, j)
             - One(i \in Found(view, f) /\ Ahead(view, f, i, j))
             + One(i \in Found(new, f) /\ Ahead(new, f, i, j))
<1> DEFINE C == {k \in Found(view, f) : k # i /\ Ahead(view, f, k, j)}
           S == {k \in Found(view, f) : Ahead(view, f, k, j)}
           T == {k \in Found(new, f) : Ahead(new, f, k, j)}
           was == i \in Found(view, f) /\ Ahead(view, f, i, j)
           is == i \in Found(new, f) /\ Ahead(new, f, i, j)
<1>1. C \subseteq Found(view, f) /\ IsFiniteSet(Found(view, f)) /\ i \notin C
  BY FoundType DEF Differ
<1>2. IsFiniteSet(C)
  <2> HIDE DEF C
  <2> QED
    BY <1>1, FS_Subset
<1>3. was \in BOOLEAN /\ is \in BOOLEAN
  BY DEF Ahead
<1>4. S = IF was THEN C \cup {i} ELSE C
  OBVIOUS
<1>5. T = IF is THEN C \cup {i} ELSE C
  BY OthersStay
<1>6. Place(view, f, j) = Cardinality(S) /\ Place(new, f, j) = Cardinality(T)
  BY DEF Place
<1> HIDE DEF C, S, T, was, is
<1>7. Cardinality(S) = Cardinality(C) + One(was) /\ Cardinality(C) \in Nat
  BY <1>1, <1>2, <1>3, <1>4, CountOne
<1>8. Cardinality(T) = Cardinality(C) + One(is)
  BY <1>1, <1>2, <1>3, <1>5, CountOne
<1>9. Place(new, f, j) = Place(view, f, j) - One(was) + One(is)
  BY <1>6, <1>7, <1>8 DEF One
<1> QED
  BY <1>9 DEF was, is

LEMMA OneMore ==
    ASSUME NEW A, IsFiniteSet(A), NEW B, IsFiniteSet(B), NEW b \in BOOLEAN,
           \A x, y \in B \ A : x = y,
           ~b => B \subseteq A
    PROVE  Cardinality(A) \in Nat /\ Cardinality(B) \in Nat
           /\ Cardinality(B) <= Cardinality(A) + One(b)
<1>1. Cardinality(A) \in Nat /\ Cardinality(B) \in Nat
  BY FS_CardinalityType
<1>2. CASE B \subseteq A
  <2>1. Cardinality(B) <= Cardinality(A)
    BY <1>2, FS_Subset
  <2> QED
    BY <1>1, <2>1 DEF One
<1>3. CASE ~(B \subseteq A)
  <2>1. PICK x \in B : x \notin A
    BY <1>3
  <2>2. B \subseteq A \cup {x}
    BY <2>1
  <2>3. IsFiniteSet(A \cup {x}) /\ Cardinality(A \cup {x}) = Cardinality(A) + 1
    BY <2>1, FS_AddElement
  <2>4. Cardinality(B) <= Cardinality(A \cup {x})
    BY <2>2, <2>3, FS_Subset
  <2> QED
    BY <1>1, <1>3, <2>3, <2>4 DEF One
<1> QED
  BY <1>2, <1>3

\* Of U, what is out of the result or at one of the first n places.
Passed(view, f, U, n) == {j \in U : j \in Found(view, f) => Place(view, f, j) < n}

\* A change takes one more there at most, and only if it takes an item out
\* of the result.
LEMMA PassedStep ==
    ASSUME NEW view, NEW new, NEW f, NEW i, Differ(view, new, i),
           NEW U, IsFiniteSet(U), NEW n \in Nat
    PROVE  /\ Cardinality(Passed(view, f, U, n)) \in Nat
           /\ Cardinality(Passed(new, f, U, n)) \in Nat
           /\ Cardinality(Passed(new, f, U, n))
                <= Cardinality(Passed(view, f, U, n)) + One(i \in Found(view, f))
<1> DEFINE A == Passed(view, f, U, n)
           B == Passed(new, f, U, n)
           leaves == i \in Found(view, f)
           up(j) == One(leaves /\ Ahead(view, f, i, j))
           down(j) == One(i \in Found(new, f) /\ Ahead(new, f, i, j))
<1>1. view \in Views /\ new \in Views
  BY DEF Differ
<1>2. A \subseteq U /\ B \subseteq U
  BY DEF Passed
<1>3. IsFiniteSet(A) /\ IsFiniteSet(B)
  BY <1>2, FS_Subset
\* Another item that gets there was the first behind, and i was before it.
<1>4. ASSUME NEW j \in B \ A, j # i
      PROVE  j \in Found(view, f) /\ leaves /\ Ahead(view, f, i, j) /\ Place(view, f, j) = n
  <2>1. j \in Found(view, f) /\ ~(Place(view, f, j) < n)
    BY DEF Passed
  <2>2. j \in Found(new, f) /\ Place(new, f, j) < n
    BY <1>4, <2>1, OthersStay DEF Passed
  <2>3. Place(view, f, j) \in Nat
    BY <1>1, <2>1, Places
  <2>4. Place(new, f, j) = Place(view, f, j) - up(j) + down(j)
    BY <1>4, <2>1, PlaceShifts
  <2>5. up(j) \in {0, 1} /\ down(j) \in {0, 1} /\ (up(j) = 1 => leaves /\ Ahead(view, f, i, j))
    BY DEF One
  <2> HIDE DEF up, down, leaves
  <2>6. up(j) = 1 /\ Place(view, f, j) = n
    BY <2>1, <2>2, <2>3, <2>4, <2>5
  <2> QED
    BY <2>1, <2>5, <2>6
<1>5. ASSUME i \in B \ A PROVE leaves /\ ~(Place(view, f, i) < n)
  BY <1>5 DEF Passed
<1>6. ASSUME NEW x \in B \ A, NEW y \in B \ A PROVE x = y
  <2>1. CASE x # i /\ y # i
    BY <1>1, <1>4, <2>1, Places
  <2>2. ASSUME NEW z \in B \ A, z # i, i \in B \ A PROVE FALSE
    <3>1. Place(view, f, z) = n /\ Place(view, f, i) < Place(view, f, z)
      BY <1>1, <1>4, <2>2, Places
    <3> QED
      BY <1>5, <2>2, <3>1
  <2> QED
    BY <2>1, <2>2
<1>7. ASSUME ~leaves PROVE B \subseteq A
  BY <1>4, <1>5, <1>7
<1>8. leaves \in BOOLEAN
  OBVIOUS
<1> HIDE DEF A, B, leaves
<1>9. Cardinality(A) \in Nat /\ Cardinality(B) \in Nat
        /\ Cardinality(B) <= Cardinality(A) + One(leaves)
  BY <1>3, <1>6, <1>7, <1>8, OneMore
<1> QED
  BY <1>9 DEF A, B, leaves

\* Of S, what is in the result behind its first n places.
Behind(view, f, S, n) == {j \in S \cap Found(view, f) : Place(view, f, j) >= n}

\* A change takes one more there at most, and only if it takes an item into
\* the result.
LEMMA BehindStep ==
    ASSUME NEW view, NEW new, NEW f, NEW i, Differ(view, new, i),
           NEW S, IsFiniteSet(S), NEW n \in Nat
    PROVE  /\ Cardinality(Behind(view, f, S, n)) \in Nat
           /\ Cardinality(Behind(new, f, S, n)) \in Nat
           /\ Cardinality(Behind(new, f, S, n))
                <= Cardinality(Behind(view, f, S, n)) + One(i \in Found(new, f))
<1> DEFINE A == Behind(view, f, S, n)
           B == Behind(new, f, S, n)
           enters == i \in Found(new, f)
           up(j) == One(i \in Found(view, f) /\ Ahead(view, f, i, j))
           down(j) == One(enters /\ Ahead(new, f, i, j))
<1>1. view \in Views /\ new \in Views
  BY DEF Differ
<1>2. A \subseteq S /\ B \subseteq S
  BY DEF Behind
<1>3. IsFiniteSet(A) /\ IsFiniteSet(B)
  BY <1>2, FS_Subset
\* Another item that gets there was the last before, and i is now before it.
<1>4. ASSUME NEW j \in B \ A, j # i
      PROVE  j \in Found(new, f) /\ enters /\ Ahead(new, f, i, j) /\ Place(new, f, j) = n
  <2>1. j \in S /\ j \in Found(new, f) /\ Place(new, f, j) >= n
    BY DEF Behind
  <2>2. j \in Found(view, f) /\ ~(Place(view, f, j) >= n)
    BY <1>4, <2>1, OthersStay DEF Behind
  <2>3. Place(view, f, j) \in Nat /\ Place(new, f, j) \in Nat
    BY <1>1, <2>1, <2>2, Places
  <2>4. Place(new, f, j) = Place(view, f, j) - up(j) + down(j)
    BY <1>4, <2>2, PlaceShifts
  <2>5. up(j) \in {0, 1} /\ down(j) \in {0, 1} /\ (down(j) = 1 => enters /\ Ahead(new, f, i, j))
    BY DEF One
  <2> HIDE DEF up, down, enters
  <2>6. down(j) = 1 /\ Place(new, f, j) = n
    BY <2>1, <2>2, <2>3, <2>4, <2>5
  <2> QED
    BY <2>1, <2>5, <2>6
<1>5. ASSUME i \in B \ A PROVE enters /\ Place(new, f, i) >= n
  BY <1>5 DEF Behind
<1>6. ASSUME NEW x \in B \ A, NEW y \in B \ A PROVE x = y
  <2>1. CASE x # i /\ y # i
    BY <1>1, <1>4, <2>1, Places
  <2>2. ASSUME NEW z \in B \ A, z # i, i \in B \ A PROVE FALSE
    <3>1. Place(new, f, z) = n /\ Place(new, f, i) < Place(new, f, z)
      BY <1>1, <1>4, <1>5, <2>2, Places
    <3>2. Place(new, f, i) \in Nat
      BY <1>1, <1>5, <2>2, Places
    <3> QED
      BY <1>5, <2>2, <3>1, <3>2
  <2> QED
    BY <2>1, <2>2
<1>7. ASSUME ~enters PROVE B \subseteq A
  BY <1>4, <1>5, <1>7
<1>8. enters \in BOOLEAN
  OBVIOUS
<1> HIDE DEF A, B, enters
<1>9. Cardinality(A) \in Nat /\ Cardinality(B) \in Nat
        /\ Cardinality(B) <= Cardinality(A) + One(enters)
  BY <1>3, <1>6, <1>7, <1>8, OneMore
<1> QED
  BY <1>9 DEF A, B, enters

-----------------------------------------------------------------------------
(***************************************************************************)
(* The invariant.                                                          *)
(***************************************************************************)

\* How many places the reader is past.
ReadTo == IF listing.at = "shown" THEN listing.page * listing.perPage
          ELSE (listing.page - 1) * listing.perPage

\* A reading from page one meets no page that is not there.
StraightOn ==
    /\ listing.at = "idle" => ~reading.straight
    /\ reading.straight =>
         listing.at # "error" /\ (listing.page - 1) * listing.perPage <= MaxItems

\* Between the count and the select, the result has grown by what entered.
CountKept ==
    listing.at = "counted" =>
        /\ Total(items, listing.filter) <= listing.total + changed.torn
        /\ ~changed.dirty => Total(items, listing.filter) = listing.total

\* What was there at the start, is unseen, and is out of the result or at a
\* place that is past.
PassedBy ==
    reading.straight =>
        Cardinality(Passed(items, listing.filter, reading.first \ reading.seen, ReadTo))
            <= changed.left

\* What has been met twice, and what will be: it was seen, and its place is
\* still to come.
MetAgain ==
    reading.straight =>
        reading.repeats + Cardinality(Behind(items, listing.filter, reading.seen, ReadTo))
            <= changed.entered

\* After the last page.
SeenToTheEnd ==
    reading.straight /\ listing.at = "shown" /\ listing.page >= TotalPages(listing) =>
        Cardinality(reading.first \ reading.seen) <= changed.left + changed.torn

PageFull ==
    LET before == (listing.page - 1) * listing.perPage
        rest == IF listing.total > before THEN listing.total - before ELSE 0
    IN  listing.at = "shown" /\ ~changed.dirty /\ before <= IntMax =>
            Cardinality(listing.shown) = IF rest > listing.perPage THEN listing.perPage ELSE rest

ErrorIsFar == listing.at = "error" => (listing.page - 1) * listing.perPage > IntMax

ListInv ==
    /\ ListTypeOK /\ StraightOn /\ CountKept /\ PassedBy /\ MetAgain
    /\ SeenToTheEnd /\ PageFull /\ ErrorIsFar

Listing == [at : {"idle", "counted", "shown", "error"}, filter : Filters,
            perPage : PerPages, page : 1 .. IntMax, total : 0 .. MaxItems,
            shown : SUBSET Mine]
Reading == [straight : BOOLEAN, first : SUBSET Mine, seen : SUBSET Mine, repeats : Nat]
Changed == [all : 0 .. MaxChanges, left : Nat, entered : Nat, dirty : BOOLEAN, torn : Nat]

LEMMA TypeParts ==
    ListTypeOK <=> /\ items \in Views /\ begun \in 0 .. MaxItems /\ saving \in SUBSET Numbers
                   /\ listing \in Listing /\ reading \in Reading /\ changed \in Changed
  BY DEF ListTypeOK, Views, Listing, Reading, Changed

LEMMA Sizes ==
    ASSUME listing \in Listing
    PROVE  /\ listing.page \in Nat \ {0} /\ listing.perPage \in Nat \ {0}
           /\ listing.page - 1 \in Nat /\ listing.total \in Nat
           /\ (listing.page - 1) * listing.perPage \in Nat
           /\ listing.page * listing.perPage \in Nat
           /\ listing.page * listing.perPage
                = (listing.page - 1) * listing.perPage + listing.perPage
           /\ ReadTo \in Nat
<1> DEFINE m == listing.page - 1
           p == listing.perPage
<1>1. listing.page \in Nat \ {0} /\ listing.total \in Nat
  BY DEF Listing
<1>2. p \in Nat \ {0}
  BY DEF Listing
<1>3. m \in Nat /\ listing.page = m + 1 /\ m + 1 \in Nat
  BY <1>1
<1> HIDE DEF m, p
<1>4. m * p \in Nat /\ (m + 1) * p \in Nat /\ (m + 1) * p = m * p + p
  BY <1>2, <1>3, Products
<1> QED
  BY <1>1, <1>2, <1>3, <1>4 DEF m, p, ReadTo

LEMMA FiniteMine == \A S \in SUBSET Mine : IsFiniteSet(S) /\ Cardinality(S) \in Nat
<1>1. IsFiniteSet(1 .. MaxItems)
  <2>1. 1 \in Int /\ MaxItems \in Int
    OBVIOUS
  <2> QED
    BY <2>1, FS_Interval, Zenon
<1>2. Mine \subseteq 1 .. MaxItems
  BY DEF Numbers
<1> QED
  BY <1>1, <1>2, FS_Subset, FS_CardinalityType

LEMMA ListInitInv == ListInit => ListInv
<1> SUFFICES ASSUME ListInit PROVE ListInv
  OBVIOUS
<1>1. begun \in 0 .. MaxItems
  <2>1. PICK n \in 0 .. MaxItems : Library = 1 .. n
    OBVIOUS
  <2>2. Cardinality(1 .. n) = IF 1 > n THEN 0 ELSE n - 1 + 1
    <3>1. 1 \in Int /\ n \in Int
      OBVIOUS
    <3> QED
      BY <3>1, FS_Interval, Zenon
  <2> QED
    BY <2>1, <2>2 DEF ListInit
<1>2. items \in Views
  BY DEF ListInit, Views
<1>3. listing \in Listing /\ listing.at = "idle"
  BY DEF ListInit, Listing
<1>4. reading \in Reading /\ ~reading.straight
  BY DEF ListInit, NotReading, Reading
<1>5. changed \in Changed
  BY DEF ListInit, Changed
<1>6. saving \in SUBSET Numbers
  BY DEF ListInit
<1> QED
  BY <1>1, <1>2, <1>3, <1>4, <1>5, <1>6, TypeParts
  DEF ListInv, StraightOn, CountKept, PassedBy, MetAgain, SeenToTheEnd, PageFull, ErrorIsFar

-----------------------------------------------------------------------------
(***************************************************************************)
(* The steps of the reader.                                                *)
(***************************************************************************)

LEMMA CountFields ==
    ASSUME ListTypeOK, NEW page, NEW n \in 1 .. IntMax, n = IF page < 1 THEN 1 ELSE page,
           Count(page)
    PROVE  /\ listing' \in Listing
           /\ listing'.at = "counted" /\ listing'.page = n
           /\ listing'.filter = listing.filter /\ listing'.perPage = listing.perPage
           /\ listing'.total = Total(items, listing.filter)
<1> DEFINE t == Total(items, listing.filter)
<1>1. listing \in Listing /\ t \in 0 .. MaxItems
  BY FoundType, TypeParts
<1>2. listing' = [listing EXCEPT !.at = "counted", !.page = n, !.total = t, !.shown = {}]
  BY DEF Count
<1> HIDE DEF t
<1>3. {} \in SUBSET Mine /\ "counted" \in {"idle", "counted", "shown", "error"}
  OBVIOUS
<1>4. listing' \in Listing
  BY <1>1, <1>2, <1>3, Zenon DEF Listing
<1>5. /\ listing'.at = "counted" /\ listing'.page = n
      /\ listing'.filter = listing.filter /\ listing'.perPage = listing.perPage
      /\ listing'.total = t
  BY <1>1, <1>2, Zenon DEF Listing
<1> QED
  BY <1>4, <1>5 DEF t

LEMMA AskStep == ListInv /\ Ask => ListInv'
<1> SUFFICES ASSUME ListInv, Ask PROVE ListInv'
  OBVIOUS
<1> DEFINE f == listing.filter
<1>0. items \in Views /\ begun \in 0 .. MaxItems /\ saving \in SUBSET Numbers
        /\ listing \in Listing /\ reading \in Reading /\ changed \in Changed /\ ListTypeOK
  BY TypeParts DEF ListInv
<1>1. /\ listing' \in Listing /\ listing'.at = "counted" /\ listing'.page = 1
      /\ listing'.filter = f /\ listing'.perPage = listing.perPage
      /\ listing'.total = Total(items, f)
  <2>1. 1 \in 1 .. IntMax /\ 1 = IF 1 < 1 THEN 1 ELSE 1
    OBVIOUS
  <2> QED
    BY <1>0, <2>1, CountFields DEF Ask
<1>2. reading' = [straight |-> TRUE, first |-> Found(items, f), seen |-> {}, repeats |-> 0]
  BY DEF Ask
<1>3. items' = items /\ begun' = begun /\ saving' = saving /\ changed' = changed
  BY DEF Ask
<1>4. Found(items, f) \in SUBSET Mine /\ Total(items, f) \in 0 .. MaxItems
  BY <1>0, FoundType
<1>5. reading' \in Reading
  BY <1>2, <1>4 DEF Reading
<1>6. ListTypeOK'
  BY <1>0, <1>1, <1>3, <1>5 DEF ListTypeOK, Views, Listing, Reading, Changed
<1>7. /\ listing.perPage \in Nat \ {0} /\ (1 - 1) * listing.perPage = 0
  BY <1>0, Sizes
<1>8. ReadTo' = 0
  BY <1>1, <1>7 DEF ReadTo
<1>9. StraightOn'
  BY <1>1, <1>7 DEF StraightOn
<1>10. CountKept'
  BY <1>0, <1>1, <1>3, <1>4 DEF CountKept, Changed
<1>11. PassedBy'
  <2>1. Passed(items, f, Found(items, f) \ {}, 0) = {}
    BY <1>0, Places DEF Passed
  <2>2. Cardinality({}) = 0
    BY FS_EmptySet
  <2>3. reading'.first = Found(items, f) /\ reading'.seen = {}
    BY <1>2
  <2>4. Passed(items, f, reading'.first \ reading'.seen, ReadTo') = {}
    BY <1>8, <2>1, <2>3
  <2>5. changed.left \in Nat
    BY <1>0 DEF Changed
  <2>6. Cardinality(Passed(items', listing'.filter, reading'.first \ reading'.seen, ReadTo')) = 0
    BY <1>1, <1>3, <2>2, <2>4
  <2> QED
    BY <1>3, <2>5, <2>6 DEF PassedBy
<1>12. MetAgain'
  <2>1. Behind(items, f, {}, 0) = {}
    BY DEF Behind
  <2>2. Cardinality({}) = 0
    BY FS_EmptySet
  <2>3. reading'.seen = {} /\ reading'.repeats = 0
    BY <1>2
  <2>4. Behind(items, f, reading'.seen, ReadTo') = {}
    BY <1>8, <2>1, <2>3
  <2>5. changed.entered \in Nat
    BY <1>0 DEF Changed
  <2>6. Cardinality(Behind(items', listing'.filter, reading'.seen, ReadTo')) = 0
    BY <1>1, <1>3, <2>2, <2>4
  <2> QED
    BY <1>3, <2>3, <2>5, <2>6 DEF MetAgain
<1> QED
  BY <1>1, <1>6, <1>9, <1>10, <1>11, <1>12 DEF ListInv, SeenToTheEnd, PageFull, ErrorIsFar

LEMMA AskTypedStep == ListInv /\ (\E page \in TypedPages : AskTyped(page)) => ListInv'
<1> SUFFICES ASSUME ListInv, NEW page \in TypedPages, AskTyped(page) PROVE ListInv'
  OBVIOUS
<1>0. items \in Views /\ begun \in 0 .. MaxItems /\ saving \in SUBSET Numbers
        /\ listing \in Listing /\ reading \in Reading /\ changed \in Changed /\ ListTypeOK
  BY TypeParts DEF ListInv
<1>1. /\ listing' \in Listing /\ listing'.at = "counted"
      /\ listing'.filter = listing.filter
      /\ listing'.total = Total(items, listing.filter)
  <2> DEFINE n == IF page < 1 THEN 1 ELSE page
  <2>1. page \in -IntMax .. IntMax
    OBVIOUS
  <2>2. n \in 1 .. IntMax
    BY <2>1
  <2> HIDE DEF n
  <2>3. Count(page)
    BY DEF AskTyped
  <2>4. n = IF page < 1 THEN 1 ELSE page
    BY DEF n
  <2> QED
    BY <1>0, <2>2, <2>3, <2>4, CountFields
<1>2. UNCHANGED <<items, begun, saving, reading, changed>> /\ listing.at = "idle"
  BY DEF AskTyped
<1>3. ~reading.straight
  BY <1>2 DEF ListInv, StraightOn
<1>4. ListTypeOK'
  BY <1>0, <1>1, <1>2 DEF ListTypeOK, Views, Listing, Reading, Changed
<1>5. CountKept'
  BY <1>0, <1>1, <1>2, FoundType DEF CountKept, Changed
<1> QED
  BY <1>1, <1>2, <1>3, <1>4, <1>5
  DEF ListInv, StraightOn, PassedBy, MetAgain, SeenToTheEnd, PageFull, ErrorIsFar

LEMMA NextPageStep == ListInv /\ NextPage => ListInv'
<1> SUFFICES ASSUME ListInv, NextPage PROVE ListInv'
  OBVIOUS
<1>0. items \in Views /\ begun \in 0 .. MaxItems /\ saving \in SUBSET Numbers
        /\ listing \in Listing /\ reading \in Reading /\ changed \in Changed /\ ListTypeOK
  BY TypeParts DEF ListInv
<1> DEFINE n == listing.page
           p == listing.perPage
<1>1. n \in Nat \ {0} /\ p \in Nat \ {0} /\ n * p \in Nat /\ listing.total \in Nat
        /\ listing.total <= MaxItems
  BY <1>0, Sizes DEF Listing
<1>2. n * p < listing.total
  BY <1>1, LastPage DEF NextPage
<1>3. n <= n * p
  BY <1>1, Products
<1>4. n + 1 \in 1 .. IntMax /\ (n + 1) - 1 = n /\ ~(n + 1 < 1)
  <2> HIDE DEF n, p
  <2> QED
    BY <1>1, <1>2, <1>3
<1>5. /\ listing' \in Listing /\ listing'.at = "counted" /\ listing'.page = n + 1
      /\ listing'.filter = listing.filter /\ listing'.perPage = p
      /\ listing'.total = Total(items, listing.filter)
  <2>1. Count(n + 1)
    BY DEF NextPage
  <2> HIDE DEF n
  <2> QED
    BY <1>0, <1>4, <2>1, CountFields
<1>6. ReadTo' = n * p /\ ReadTo = n * p /\ (listing'.page - 1) * listing'.perPage = n * p
  BY <1>4, <1>5 DEF ReadTo, NextPage
<1>7. UNCHANGED <<items, begun, saving, reading>> /\ changed' = [changed EXCEPT !.dirty = FALSE]
  BY DEF NextPage
<1>8. changed' \in Changed /\ changed'.left = changed.left /\ changed'.entered = changed.entered
        /\ changed'.torn = changed.torn /\ changed.torn \in Nat
  BY <1>0, <1>7, Zenon DEF Changed
<1>9. ListTypeOK'
  BY <1>0, <1>5, <1>7, <1>8 DEF ListTypeOK, Views, Listing, Reading, Changed
<1>10. StraightOn'
  BY <1>1, <1>2, <1>5, <1>6 DEF StraightOn
<1>11. CountKept'
  BY <1>0, <1>5, <1>7, <1>8, FoundType DEF CountKept
<1>12. PassedBy' /\ MetAgain'
  BY <1>5, <1>6, <1>7, <1>8 DEF ListInv, PassedBy, MetAgain
<1> QED
  BY <1>5, <1>9, <1>10, <1>11, <1>12 DEF ListInv, SeenToTheEnd, PageFull, ErrorIsFar

LEMMA PrevPageStep == ListInv /\ PrevPage => ListInv'
<1> SUFFICES ASSUME ListInv, PrevPage PROVE ListInv'
  OBVIOUS
<1>0. items \in Views /\ begun \in 0 .. MaxItems /\ saving \in SUBSET Numbers
        /\ listing \in Listing /\ reading \in Reading /\ changed \in Changed /\ ListTypeOK
  BY TypeParts DEF ListInv
<1> DEFINE n == listing.page - 1
<1>1. n \in 1 .. IntMax /\ ~(n < 1)
  BY <1>0 DEF PrevPage, Listing
<1>2. Count(n)
  BY DEF PrevPage
<1> HIDE DEF n
<1>3. /\ listing' \in Listing /\ listing'.at = "counted"
      /\ listing'.filter = listing.filter
      /\ listing'.total = Total(items, listing.filter)
  BY <1>0, <1>1, <1>2, CountFields
<1>4. UNCHANGED <<items, begun, saving>> /\ changed' = [changed EXCEPT !.dirty = FALSE]
        /\ reading' = NotReading
  BY DEF PrevPage
<1>5. changed' \in Changed /\ changed'.torn = changed.torn /\ changed.torn \in Nat
  BY <1>0, <1>4, Zenon DEF Changed
<1>6. reading' \in Reading /\ ~reading'.straight
  BY <1>4 DEF NotReading, Reading
<1>7. ListTypeOK'
  BY <1>0, <1>3, <1>4, <1>5, <1>6 DEF ListTypeOK, Views, Listing, Reading, Changed
<1>8. CountKept'
  BY <1>0, <1>3, <1>4, <1>5, FoundType DEF CountKept
<1> QED
  BY <1>3, <1>6, <1>7, <1>8
  DEF ListInv, StraightOn, PassedBy, MetAgain, SeenToTheEnd, PageFull, ErrorIsFar

\* What one page holds: the items at its places.
LEMMA PageHolds ==
    ASSUME NEW view \in Views, NEW f, NEW o \in Nat, NEW p \in Nat \ {0}
    PROVE  Cardinality(Between(view, f, o, o + p - 1))
             = IF Total(view, f) > o
               THEN IF Total(view, f) - o > p THEN p ELSE Total(view, f) - o
               ELSE 0
<1> DEFINE n == Total(view, f)
           b == IF o + p - 1 < n THEN o + p - 1 ELSE n - 1
           here == Between(view, f, o, b)
<1>1. n \in Nat
  BY FoundType
<1>2. \A i \in Found(view, f) : Place(view, f, i) \in 0 .. n - 1
  BY Places
<1> HIDE DEF n
<1>3. b \in Int /\ b < n
  BY <1>1
<1>4. \A i \in Found(view, f) : Place(view, f, i) \in o .. b <=> Place(view, f, i) \in o .. o + p - 1
  BY <1>1, <1>2
<1>5. Between(view, f, o, o + p - 1) = here
  BY <1>4 DEF Between
<1>6. b < Total(view, f)
  BY <1>3 DEF n
<1>7. Cardinality(here) = IF o > b THEN 0 ELSE b - o + 1
  <2> HIDE DEF b
  <2> QED
    BY <1>3, <1>6, PlacesCount
<1>8. Cardinality(here) = IF n > o THEN IF n - o > p THEN p ELSE n - o ELSE 0
  <2> HIDE DEF here
  <2> QED
    BY <1>1, <1>7
<1> QED
  BY <1>5, <1>8 DEF n

LEMMA OffsetIs ==
    ASSUME NEW page, NEW p, NEW o \in Nat, o = (page - 1) * p, o <= IntMax
    PROVE  Offset(page, p) = o
  BY WrappedIs DEF Offset

LEMMA SelectFails ==
    ASSUME ListInv, Select, Offset(listing.page, listing.perPage) < 0
    PROVE  ListInv'
<1>0. items \in Views /\ begun \in 0 .. MaxItems /\ saving \in SUBSET Numbers
        /\ listing \in Listing /\ reading \in Reading /\ changed \in Changed
  BY TypeParts DEF ListInv
<1> DEFINE o == (listing.page - 1) * listing.perPage
<1>1. listing.page \in Nat \ {0} /\ listing.perPage \in Nat \ {0} /\ o \in Nat
  BY <1>0, Sizes
<1>2. o > IntMax
  <2> SUFFICES ASSUME o <= IntMax PROVE FALSE
    BY <1>1
  <2>1. o = (listing.page - 1) * listing.perPage
    OBVIOUS
  <2> HIDE DEF o
  <2>2. Offset(listing.page, listing.perPage) = o
    BY <1>1, <2>1, OffsetIs
  <2> QED
    BY <1>1, <2>2
<1>3. listing' = [listing EXCEPT !.at = "error"] /\ listing.at = "counted"
        /\ UNCHANGED <<items, begun, saving, reading, changed>>
  BY DEF Select
<1>4. /\ listing' \in Listing /\ listing'.at = "error" /\ listing'.page = listing.page
      /\ listing'.perPage = listing.perPage
  BY <1>0, <1>3, Zenon DEF Listing
<1>5. ~reading.straight
  BY <1>1, <1>2 DEF ListInv, StraightOn
<1>6. ListTypeOK'
  BY <1>0, <1>3, <1>4 DEF ListTypeOK, Views, Listing, Reading, Changed
<1>7. (listing'.page - 1) * listing'.perPage > IntMax
  BY <1>2, <1>4
<1> QED
  BY <1>3, <1>4, <1>5, <1>6, <1>7
  DEF ListInv, StraightOn, CountKept, PassedBy, MetAgain, SeenToTheEnd, PageFull, ErrorIsFar

LEMMA SelectShows ==
    ASSUME ListInv, Select, ~(Offset(listing.page, listing.perPage) < 0)
    PROVE  ListInv'
<1>0. items \in Views /\ begun \in 0 .. MaxItems /\ saving \in SUBSET Numbers
        /\ listing \in Listing /\ reading \in Reading /\ changed \in Changed
  BY TypeParts DEF ListInv
<1> DEFINE f == listing.filter
           p == listing.perPage
           shown == PageOf(items, f, listing.page, p)
           k == (listing.page - 1) * p
           n == Total(items, f)
<1>1. /\ listing.page \in Nat \ {0} /\ p \in Nat \ {0} /\ k \in Nat
      /\ listing.total \in Nat
  BY <1>0, Sizes
<1>2. /\ (listing.page - 1) * listing.perPage = k /\ p = listing.perPage
       /\ listing.page * listing.perPage = k + p
  BY <1>0, Sizes
<1>3. listing' = [listing EXCEPT !.at = "shown", !.shown = shown] /\ listing.at = "counted"
        /\ UNCHANGED <<items, begun, saving, changed>>
  BY DEF Select
<1>4. reading' = IF reading.straight
                 THEN [reading EXCEPT !.seen = reading.seen \cup shown,
                         !.repeats = reading.repeats + Cardinality(shown \cap reading.seen)]
                 ELSE reading
  BY DEF Select
<1>5. shown \in SUBSET Mine /\ shown \subseteq Found(items, f)
  BY <1>0, FoundType DEF PageOf
<1>6. n \in Nat /\ n <= MaxItems /\ Found(items, f) \in SUBSET Mine
  BY <1>0, FoundType
<1>7. k <= IntMax =>
        /\ shown = Between(items, f, k, k + p - 1)
        /\ Cardinality(shown) = IF n > k THEN IF n - k > p THEN p ELSE n - k ELSE 0
  <2> SUFFICES ASSUME k <= IntMax
               PROVE  /\ shown = Between(items, f, k, k + p - 1)
                      /\ Cardinality(shown) = IF n > k THEN IF n - k > p THEN p ELSE n - k ELSE 0
    OBVIOUS
  <2>1. k = (listing.page - 1) * p
    OBVIOUS
  <2> HIDE DEF k
  <2>2. Offset(listing.page, p) = k
    BY <1>1, <2>1, OffsetIs
  <2>3. shown = Between(items, f, k, k + p - 1)
    BY <2>2 DEF PageOf, Between
  <2> HIDE DEF shown, p
  <2>4. Cardinality(Between(items, f, k, k + p - 1))
          = IF n > k THEN IF n - k > p THEN p ELSE n - k ELSE 0
    BY <1>0, <1>1, PageHolds
  <2> QED
    BY <2>3, <2>4
<1>8. reading.straight => k <= MaxItems
  BY DEF ListInv, StraightOn
<1>9. reading.first \in SUBSET Mine /\ reading.seen \in SUBSET Mine /\ reading.repeats \in Nat
        /\ changed.left \in Nat /\ changed.entered \in Nat /\ changed.torn \in Nat
  BY <1>0 DEF Reading, Changed
<1>10. n <= listing.total + changed.torn /\ (~changed.dirty => n = listing.total)
  BY <1>3 DEF ListInv, CountKept
<1>11. PassedBy /\ MetAgain
  BY DEF ListInv
<1>12. ReadTo = k
  BY <1>3 DEF ReadTo
<1> HIDE DEF shown, n, f, k, p
<1>13. /\ listing' \in Listing /\ listing'.at = "shown" /\ listing'.page = listing.page
       /\ listing'.perPage = listing.perPage /\ listing'.filter = listing.filter
       /\ listing'.total = listing.total /\ listing'.shown = shown
  BY <1>0, <1>3, <1>5, Zenon DEF Listing
<1>14. (listing'.page - 1) * listing'.perPage = k /\ listing'.perPage = p
        /\ listing.perPage \in Nat \ {0}
  BY <1>1, <1>13, <1>2
<1>15. PageFull'
  BY <1>1, <1>3, <1>6, <1>7, <1>10, <1>13, <1>14 DEF PageFull
<1>16. Cardinality(shown \cap reading.seen) \in Nat
  BY <1>9, FiniteMine
<1>17. CASE ~reading.straight
  <2>1. reading' = reading
    BY <1>4, <1>17
  <2>2. ListTypeOK'
    BY <1>0, <1>3, <1>13, <2>1 DEF ListTypeOK, Views, Listing, Reading, Changed
  <2> QED
    BY <1>13, <1>17, <1>15, <2>1, <2>2
    DEF ListInv, StraightOn, CountKept, PassedBy, MetAgain, SeenToTheEnd, PageFull, ErrorIsFar
<1>18. CASE reading.straight
  <2> DEFINE seen == reading.seen \cup shown
             repeats == reading.repeats + Cardinality(shown \cap reading.seen)
  <2>1. seen \in SUBSET Mine /\ repeats \in Nat
    BY <1>5, <1>9, <1>16
  <2>2. reading' = [reading EXCEPT !.seen = seen, !.repeats = repeats]
    BY <1>4, <1>18
  <2> HIDE DEF seen, repeats
  <2>3. /\ reading' \in Reading /\ reading'.straight /\ reading'.first = reading.first
        /\ reading'.seen = seen /\ reading'.repeats = repeats
    BY <1>0, <1>18, <2>1, <2>2, Zenon DEF Reading
  <2>4. k <= IntMax /\ k <= MaxItems
    BY <1>1, <1>8, <1>18
  <2>5. shown = Between(items, f, k, k + p - 1)
    BY <1>7, <2>4
  <2>6. ReadTo' = k + p
    BY <1>13, <1>2 DEF ReadTo
  <2>7. \A i \in Found(items, f) : Place(items, f, i) \in Nat /\ Place(items, f, i) < n
    BY <1>0, <1>6, Places DEF n
  <2>8. ListTypeOK'
    BY <1>0, <1>3, <1>13, <2>3 DEF ListTypeOK, Views, Listing, Reading, Changed
  <2>9. StraightOn'
    BY <1>13, <1>2, <2>4 DEF StraightOn
  <2> DEFINE U == reading.first \ seen
             A == Passed(items, f, reading.first \ reading.seen, k)
             B == Passed(items, f, U, k + p)
  <2>10. B \subseteq A /\ A \in SUBSET Mine /\ B \in SUBSET Mine
    BY <1>1, <1>9, <2>5, <2>7, SMTT(20) DEF Passed, seen, Between
  <2>11. IsFiniteSet(A) /\ IsFiniteSet(B) /\ Cardinality(A) \in Nat /\ Cardinality(B) \in Nat
    BY <2>10, FiniteMine
  <2>12. Cardinality(B) <= Cardinality(A)
    BY <2>10, <2>11, FS_Subset
  <2>13. Cardinality(A) <= changed.left
    BY <1>11, <1>12, <1>18 DEF PassedBy, f
  <2>14. Cardinality(B) <= changed.left
    BY <1>9, <2>11, <2>12, <2>13
  <2>15. PassedBy'
    BY <1>3, <1>13, <2>3, <2>6, <2>14 DEF PassedBy, f
  <2> DEFINE C == Behind(items, f, reading.seen, k)
             D == Behind(items, f, seen, k + p)
  <2>16. C \in SUBSET Mine /\ D = C \ shown /\ C \cap shown = shown \cap reading.seen
    <3>1. C \in SUBSET Mine
      BY <1>9 DEF Behind
    <3>2. D = C \ shown
      BY <1>1, <2>5, <2>7 DEF Behind, seen, Between
    <3>3. C \cap shown = shown \cap reading.seen
      BY <1>1, <2>5, <2>7 DEF Behind, Between
    <3> QED
      BY <3>1, <3>2, <3>3
  <2>17. IsFiniteSet(C) /\ Cardinality(C) \in Nat
    BY <2>16, FiniteMine
  <2>18. Cardinality(D) = Cardinality(C) - Cardinality(C \cap shown)
    BY <2>16, <2>17, FS_Difference
  <2>19. reading.repeats + Cardinality(C) <= changed.entered
    BY <1>11, <1>12, <1>18 DEF MetAgain, f
  <2>20. repeats + Cardinality(D) <= changed.entered
    <3> HIDE DEF A, B, C, D, U
    <3>1. Cardinality(D) = Cardinality(C) - Cardinality(shown \cap reading.seen)
      BY <2>16, <2>18
    <3> QED
      BY <1>9, <1>16, <2>17, <2>19, <3>1 DEF repeats
  <2>21. MetAgain'
    BY <1>3, <1>13, <2>3, <2>6, <2>20 DEF MetAgain, f
  <2>22. ASSUME listing.page >= TotalPages(listing)
         PROVE  Cardinality(U) <= changed.left + changed.torn
    <3> DEFINE rest == Between(items, f, k + p, n - 1)
    <3>1. k + p >= listing.total
      <4>1. listing.page * listing.perPage >= listing.total
        BY <1>1, <1>14, <2>22, LastPage
      <4> QED
        BY <1>2, <4>1
    <3>2. k + p \in Nat /\ n - 1 \in Int /\ n - 1 < Total(items, f)
      BY <1>1, <1>6 DEF n
    <3>3. IsFiniteSet(rest) /\ Cardinality(rest) = IF k + p > n - 1 THEN 0 ELSE n - 1 - (k + p) + 1
      <4> DEFINE a == k + p
                 b == n - 1
      <4>1. a \in Nat /\ b \in Int /\ b < Total(items, f)
        BY <3>2
      <4> HIDE DEF a, b
      <4>2. IsFiniteSet(Between(items, f, a, b))
              /\ Cardinality(Between(items, f, a, b))
                   = IF a > b THEN 0 ELSE b - a + 1
        BY <1>0, <4>1, PlacesCount
      <4> QED
        BY <4>2 DEF a, b
    <3>4. Cardinality(rest) \in Nat /\ Cardinality(rest) <= changed.torn
      <4> DEFINE c == Cardinality(rest)
                 s == k + p
                 total == listing.total
                 torn == changed.torn
      <4> HIDE DEF A, B, C, D, U, rest
      <4>1. s \in Nat /\ s >= total /\ n \in Nat /\ torn \in Nat
        BY <1>6, <1>9, <3>1, <3>2
      <4>2. total \in Int /\ n <= total + torn
        BY <1>1, <1>10
      <4>3. c = IF s > n - 1 THEN 0 ELSE n - 1 - s + 1
        BY <3>3
      <4> HIDE DEF c, s, total, torn
      <4>4. c \in Nat /\ c <= torn
        BY <4>1, <4>2, <4>3
      <4> QED
        BY <4>4 DEF c, torn
    <3>5. U \subseteq B \cup rest
      BY <1>1, <1>6, <2>7 DEF Passed, Between
    <3> HIDE DEF U, B, rest
    <3>6. IsFiniteSet(B \cup rest)
            /\ Cardinality(B \cup rest)
                 = Cardinality(B) + Cardinality(rest) - Cardinality(B \cap rest)
      BY <2>11, <3>3, FS_Union
    <3>7. Cardinality(B \cap rest) \in Nat
      <4>1. IsFiniteSet(B \cap rest)
        BY <2>11, FS_Intersection
      <4> QED
        BY <4>1, FS_CardinalityType
    <3>8. Cardinality(U) <= Cardinality(B \cup rest) /\ Cardinality(U) \in Nat
      BY <3>5, <3>6, FS_Subset, FS_CardinalityType
    <3> QED
      BY <1>9, <2>11, <2>14, <3>4, <3>6, <3>7, <3>8
  <2>23. SeenToTheEnd'
    <3>1. TotalPages(listing') = TotalPages(listing)
      BY <1>13 DEF TotalPages
    <3> QED
      BY <1>3, <1>13, <2>3, <2>22, <3>1 DEF SeenToTheEnd
  <2> QED
    BY <1>13, <1>15, <2>8, <2>9, <2>15, <2>21, <2>23 DEF ListInv, CountKept, ErrorIsFar
<1> QED
  BY <1>17, <1>18

-----------------------------------------------------------------------------
(***************************************************************************)
(* The steps of the others.                                                *)
(***************************************************************************)

\* What a change counts.
LEMMA ChangeFields ==
    ASSUME ListInv, NEW i \in Numbers, NEW row \in ItemRow \cup {NoRow}, Change(i, row)
    PROVE  LET f == listing.filter IN
           /\ Differ(items, items', i)
           /\ changed' \in Changed
           /\ changed'.left = changed.left + One(i \in Found(items, f))
           /\ changed'.entered = changed.entered + One(i \in Found(items', f))
           /\ changed'.torn = changed.torn
                + (IF listing.at = "counted" THEN One(i \in Found(items', f)) ELSE 0)
           /\ changed'.dirty <=> changed.dirty \/ listing.at = "counted"
           /\ listing.at # "idle" /\ UNCHANGED <<begun, listing, reading>>
<1> DEFINE f == listing.filter
           enters == IF i \in Found(items', f) THEN 1 ELSE 0
           leaves == IF i \in Found(items, f) THEN 1 ELSE 0
           counted == IF listing.at = "counted" THEN 1 ELSE 0
<1>0. items \in Views /\ changed \in Changed
  BY TypeParts DEF ListInv
<1>1. items' = [items EXCEPT ![i] = row]
  BY DEF Change
<1>2. Differ(items, items', i)
  BY <1>0, <1>1 DEF Differ, Views
<1>3. changed' = [all |-> changed.all + 1, left |-> changed.left + leaves,
                  entered |-> changed.entered + enters,
                  dirty |-> changed.dirty \/ counted = 1,
                  torn |-> changed.torn + enters * counted]
  BY DEF Change
<1>4. /\ enters = One(i \in Found(items', f)) /\ enters \in {0, 1}
      /\ leaves = One(i \in Found(items, f)) /\ leaves \in {0, 1}
  BY DEF One
<1>5. enters * counted = (IF listing.at = "counted" THEN enters ELSE 0)
        /\ (counted = 1 <=> listing.at = "counted")
  BY <1>4
<1> HIDE DEF enters, leaves, counted
<1>6. /\ changed.all \in Nat /\ changed.all < MaxChanges
      /\ changed.left \in Nat /\ changed.entered \in Nat /\ changed.torn \in Nat
      /\ changed.dirty \in BOOLEAN
  BY <1>0 DEF Change, Changed
<1>7. /\ changed.all + 1 \in 0 .. MaxChanges /\ changed.left + leaves \in Nat
      /\ changed.entered + enters \in Nat /\ changed.torn + enters * counted \in Nat
  BY <1>4, <1>5, <1>6, SMTT(20)
<1>8. changed' \in Changed
  BY <1>3, <1>7 DEF Changed
<1>9. listing.at # "idle" /\ UNCHANGED <<begun, listing, reading>>
  BY DEF Change
<1> QED
  BY <1>2, <1>3, <1>4, <1>5, <1>8, <1>9

\* The result grows by one at most, and only by what enters.
LEMMA TotalStep ==
    ASSUME NEW view, NEW new, NEW f, NEW i, Differ(view, new, i)
    PROVE  Total(new, f) <= Total(view, f) + One(i \in Found(new, f))
<1> DEFINE A == Found(view, f)
           B == Found(new, f)
           enters == i \in B
<1>1. IsFiniteSet(A) /\ IsFiniteSet(B)
  BY FoundType DEF Differ
<1>2. \A j \in B \ A : j = i
  BY OthersStay
<1>3. enters \in BOOLEAN /\ (~enters => B \subseteq A) /\ \A x, y \in B \ A : x = y
  BY <1>2
<1>4. Total(view, f) = Cardinality(A) /\ Total(new, f) = Cardinality(B)
  BY DEF Total
<1> HIDE DEF A, B, enters
<1>5. Cardinality(B) <= Cardinality(A) + One(enters)
  BY <1>1, <1>3, OneMore
<1> QED
  BY <1>4, <1>5 DEF enters, B

LEMMA ChangeStep ==
    ASSUME ListInv, NEW i \in Numbers, NEW row \in ItemRow \cup {NoRow}, Change(i, row),
           saving' \in SUBSET Numbers
    PROVE  ListInv'
<1> DEFINE f == listing.filter
           leaves == i \in Found(items, f)
           enters == i \in Found(items', f)
<1>0. items \in Views /\ begun \in 0 .. MaxItems
        /\ listing \in Listing /\ reading \in Reading /\ changed \in Changed
  BY TypeParts DEF ListInv
<1>1. Differ(items, items', i) /\ changed' \in Changed
  BY ChangeFields
<1>2. /\ changed'.left = changed.left + One(leaves)
      /\ changed'.entered = changed.entered + One(enters)
      /\ changed'.torn = changed.torn + (IF listing.at = "counted" THEN One(enters) ELSE 0)
      /\ changed'.dirty <=> changed.dirty \/ listing.at = "counted"
  BY ChangeFields
<1>3. listing.at # "idle" /\ begun' = begun /\ listing' = listing /\ reading' = reading
  BY ChangeFields
<1>4. ListTypeOK'
  BY <1>0, <1>1, <1>3 DEF ListTypeOK, Views, Listing, Reading, Changed, Differ
<1>5. /\ changed.left \in Nat /\ changed.entered \in Nat /\ changed.torn \in Nat
      /\ One(leaves) \in {0, 1} /\ One(enters) \in {0, 1}
  BY <1>0 DEF Changed, One
<1>6. reading.first \ reading.seen \in SUBSET Mine /\ reading.seen \in SUBSET Mine
        /\ reading.repeats \in Nat /\ ReadTo \in Nat
  BY <1>0, Sizes DEF Reading
<1>7. IsFiniteSet(reading.first \ reading.seen) /\ IsFiniteSet(reading.seen)
        /\ Cardinality(reading.first \ reading.seen) \in Nat
  BY <1>6, FiniteMine
<1>8. ReadTo' = ReadTo
  BY <1>3 DEF ReadTo
<1> HIDE DEF leaves, enters
<1>9. StraightOn' /\ PageFull' /\ ErrorIsFar'
  BY <1>2, <1>3 DEF ListInv, StraightOn, PageFull, ErrorIsFar
<1>10. CountKept'
  <2> SUFFICES ASSUME listing.at = "counted"
               PROVE  Total(items', f) <= listing.total + changed'.torn /\ changed'.dirty
    BY <1>3 DEF CountKept
  <2>1. Total(items', f) <= Total(items, f) + One(enters)
    BY <1>1, TotalStep DEF enters
  <2>2. Total(items, f) \in Nat /\ Total(items', f) \in Nat
    BY <1>1, FoundType DEF Differ
  <2>3. Total(items, f) <= listing.total + changed.torn
    BY DEF ListInv, CountKept
  <2>4. listing.total \in Nat
    BY <1>0, Sizes
  <2> HIDE DEF f
  <2> QED
    BY <1>2, <1>5, <2>1, <2>2, <2>3, <2>4
<1>11. PassedBy'
  <2> SUFFICES ASSUME reading.straight
               PROVE  Cardinality(Passed(items', f, reading.first \ reading.seen, ReadTo))
                        <= changed'.left
    BY <1>3, <1>8 DEF PassedBy
  <2> DEFINE U == reading.first \ reading.seen
             n == ReadTo
  <2>1. Cardinality(Passed(items, f, U, n)) <= changed.left
    BY DEF ListInv, PassedBy
  <2>2. /\ Cardinality(Passed(items, f, U, n)) \in Nat
        /\ Cardinality(Passed(items', f, U, n)) \in Nat
        /\ Cardinality(Passed(items', f, U, n)) <= Cardinality(Passed(items, f, U, n)) + One(leaves)
    <3> HIDE DEF U, n
    <3> QED
      BY <1>1, <1>6, <1>7, PassedStep DEF U, n, leaves
  <2> HIDE DEF U, n
  <2>3. Cardinality(Passed(items', f, U, n)) <= changed'.left
    BY <1>2, <1>5, <2>1, <2>2
  <2> QED
    BY <2>3 DEF U, n
<1>12. MetAgain'
  <2> SUFFICES ASSUME reading.straight
               PROVE  reading.repeats + Cardinality(Behind(items', f, reading.seen, ReadTo))
                        <= changed'.entered
    BY <1>3, <1>8 DEF MetAgain
  <2> DEFINE S == reading.seen
             n == ReadTo
  <2>1. reading.repeats + Cardinality(Behind(items, f, S, n)) <= changed.entered
    BY DEF ListInv, MetAgain
  <2>2. /\ Cardinality(Behind(items, f, S, n)) \in Nat
        /\ Cardinality(Behind(items', f, S, n)) \in Nat
        /\ Cardinality(Behind(items', f, S, n)) <= Cardinality(Behind(items, f, S, n)) + One(enters)
    BY <1>1, <1>6, <1>7, BehindStep DEF enters
  <2> HIDE DEF S, n
  <2>3. reading.repeats + Cardinality(Behind(items', f, S, n)) <= changed'.entered
    BY <1>2, <1>5, <1>6, <2>1, <2>2
  <2> QED
    BY <2>3 DEF S, n
<1>13. SeenToTheEnd'
  BY <1>2, <1>3, <1>5, <1>7 DEF ListInv, SeenToTheEnd
<1> QED
  BY <1>4, <1>9, <1>10, <1>11, <1>12, <1>13 DEF ListInv

LEMMA ListStepInv == ListInv /\ [ListNext]_listVars => ListInv'
<1> SUFFICES ASSUME ListInv, [ListNext]_listVars PROVE ListInv'
  OBVIOUS
<1>0. items \in Views /\ saving \in SUBSET Numbers /\ begun \in 0 .. MaxItems
  BY TypeParts DEF ListInv
<1>1. CASE Ask
  BY <1>1, AskStep
<1>2. CASE \E page \in TypedPages : AskTyped(page)
  BY <1>2, AskTypedStep
<1>3. CASE NextPage
  BY <1>3, NextPageStep
<1>4. CASE PrevPage
  BY <1>4, PrevPageStep
<1>5. CASE Select
  BY <1>5, SelectFails, SelectShows
<1>6. CASE BeginSave
  <2>1. begun' \in 0 .. MaxItems /\ saving' \in SUBSET Numbers
    BY <1>0, <1>6 DEF BeginSave, Numbers
  <2>2. items' = items /\ listing' = listing /\ reading' = reading /\ changed' = changed
    BY <1>6 DEF BeginSave
  <2>3. ListTypeOK'
    BY <2>1, <2>2 DEF ListInv, ListTypeOK
  <2> QED
    BY <2>2, <2>3 DEF ListInv, StraightOn, CountKept, PassedBy, MetAgain, SeenToTheEnd,
                      PageFull, ErrorIsFar, ReadTo
<1>7. ASSUME NEW i \in Numbers, DeleteRow(i) PROVE ListInv'
  BY <1>0, <1>7, ChangeStep DEF DeleteRow
<1>8. ASSUME NEW i \in Numbers, NEW tags \in TagSets, ReplaceTags(i, tags) PROVE ListInv'
  <2>1. [items[i] EXCEPT !.tags = tags] \in ItemRow
    <3>1. items[i] \in ItemRow /\ tags \in SUBSET Tags
      BY <1>0, <1>8 DEF ReplaceTags, Views
    <3> QED
      BY <3>1, Zenon DEF ItemRow
  <2> QED
    BY <1>0, <1>8, <2>1, ChangeStep DEF ReplaceTags
<1>9. ASSUME NEW i \in Numbers, NEW text \in BOOLEAN, StoreText(i, text) PROVE ListInv'
  <2>1. [items[i] EXCEPT !.text = text, !.fetched = TRUE] \in ItemRow
    <3>1. items[i] \in ItemRow /\ TRUE \in BOOLEAN
      BY <1>0, <1>9 DEF StoreText, Views
    <3> QED
      BY <3>1, Zenon DEF ItemRow
  <2> QED
    BY <1>0, <1>9, <2>1, ChangeStep DEF StoreText
<1>10. ASSUME NEW i \in Numbers, NEW text \in BOOLEAN, NEW tags \in TagSets,
              CommitSave(i, tags, text)
       PROVE  ListInv'
  <2>1. [tags |-> tags, text |-> text, fetched |-> FALSE] \in ItemRow
    BY DEF ItemRow
  <2>2. saving' \in SUBSET Numbers
    BY <1>0, <1>10 DEF CommitSave
  <2> QED
    BY <1>10, <2>1, <2>2, ChangeStep DEF CommitSave
<1>11. CASE UNCHANGED listVars
  BY <1>11 DEF listVars, ListInv, ListTypeOK, StraightOn, CountKept, PassedBy, MetAgain,
               SeenToTheEnd, PageFull, ErrorIsFar, ReadTo
<1> QED
  BY <1>1, <1>2, <1>3, <1>4, <1>5, <1>6, <1>7, <1>8, <1>9, <1>10, <1>11 DEF ListNext

LEMMA ListInvariant == ListSpec => []ListInv
  BY ListInitInv, ListStepInv, PTL DEF ListSpec

-----------------------------------------------------------------------------
(***************************************************************************)
(* Theorems                                                                *)
(***************************************************************************)

\* The variables keep their types, whatever is asked for and changed.
THEOREM ListTypeCorrect == ListSpec => []ListTypeOK
<1>1. ListInv => ListTypeOK
  BY DEF ListInv
<1> QED
  BY <1>1, ListInvariant, PTL

\* Of what was there all the time, a reader from page one to the last misses
\* one for each item that left and one for each torn count at most
\* (store.go 196-245, server.go 479-484).
THEOREM NotManyMissed == ListSpec => []MissedBounded
<1>1. ListInv => MissedBounded
  <2> SUFFICES ASSUME ListInv, reading.straight, listing.at = "shown",
                      listing.page >= TotalPages(listing)
               PROVE  Cardinality((reading.first \cap Found(items, listing.filter)) \ reading.seen)
                        <= changed.left + changed.torn
    BY DEF MissedBounded
  <2> DEFINE A == (reading.first \cap Found(items, listing.filter)) \ reading.seen
             B == reading.first \ reading.seen
  <2>1. A \subseteq B /\ B \in SUBSET Mine
    BY TypeParts DEF ListInv, Reading
  <2>2. Cardinality(B) <= changed.left + changed.torn
    BY DEF ListInv, SeenToTheEnd
  <2>3. changed.left \in Nat /\ changed.torn \in Nat
    BY TypeParts DEF ListInv, Changed
  <2> HIDE DEF A, B
  <2>4. IsFiniteSet(B) /\ Cardinality(B) \in Nat
    BY <2>1, FiniteMine
  <2>5. Cardinality(A) <= Cardinality(B) /\ Cardinality(A) \in Nat
    BY <2>1, <2>4, FS_Subset, FS_CardinalityType
  <2>6. Cardinality(A) <= changed.left + changed.torn
    BY <2>2, <2>3, <2>4, <2>5
  <2> QED
    BY <2>6 DEF A
<1> QED
  BY <1>1, ListInvariant, PTL

\* Such a reader meets no more items twice than have entered the result
\* (store.go 230).
THEOREM NotManyRepeated == ListSpec => []RepeatsBounded
<1>1. ListInv => RepeatsBounded
  <2> SUFFICES ASSUME ListInv, reading.straight PROVE reading.repeats <= changed.entered
    BY DEF RepeatsBounded
  <2> DEFINE B == Behind(items, listing.filter, reading.seen, ReadTo)
  <2>1. reading.seen \in SUBSET Mine /\ reading.repeats \in Nat /\ changed.entered \in Nat
    BY TypeParts DEF ListInv, Reading, Changed
  <2>2. B \in SUBSET Mine
    BY <2>1 DEF Behind
  <2>3. reading.repeats + Cardinality(B) <= changed.entered
    BY DEF ListInv, MetAgain
  <2> HIDE DEF B
  <2>4. Cardinality(B) \in Nat
    BY <2>2, FiniteMine
  <2> QED
    BY <2>1, <2>3, <2>4
<1> QED
  BY <1>1, ListInvariant, PTL

\* A page whose count still holds is full, only an offset beyond an int is
\* refused, and a tag counts what its own list has (store.go 173, 196-231,
\* 457-465).
THEOREM ListCountsAgree == ListSpec => []CountsAgree
<1>1. ListInv => CountsAgree
  <2> SUFFICES ASSUME ListInv PROVE CountsAgree
    OBVIOUS
  <2>1. ASSUME NEW g \in Tags
        PROVE  TagCount(items, g) = Total(items, [tag |-> g, q |-> FALSE, relevance |-> FALSE])
    <3> DEFINE f == [tag |-> g, q |-> FALSE, relevance |-> FALSE]
    <3>1. items \in Views
      BY TypeParts DEF ListInv
    <3>2. f.tag = g /\ f.q = FALSE /\ g # NoTag
      OBVIOUS
    <3> HIDE DEF f
    <3>3. ASSUME NEW i \in Mine PROVE i \in Found(items, f) <=> items[i] # NoRow /\ g \in items[i].tags
      <4>1. i \in Found(items, f) <=> InResult(items[i], f)
        BY <3>1, FoundIs
      <4>2. InResult(items[i], f) <=> items[i] # NoRow /\ \E t \in JoinTags(items[i]) : t = g
        BY <3>2 DEF InResult, Hit
      <4>3. items[i] # NoRow => (g \in JoinTags(items[i]) <=> g \in items[i].tags)
        BY <3>2 DEF JoinTags
      <4> QED
        BY <4>1, <4>2, <4>3
    <3>4. Found(items, f) \subseteq Mine
      BY <3>1, FoundType
    <3>5. Found(items, f) = {i \in Mine : items[i] # NoRow /\ g \in items[i].tags}
      BY <3>3, <3>4
    <3> QED
      BY <3>5 DEF TagCount, Total, f
  <2> QED
    BY <2>1 DEF ListInv, PageFull, ErrorIsFar, CountsAgree
<1> QED
  BY <1>1, ListInvariant, PTL
=============================================================================
