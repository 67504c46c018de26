----------------------------- MODULE PartsProofs -----------------------------
(***************************************************************************)
(* The parts of MCParts: the spellings of a URL and the text of a page,    *)
(* and what all parts together inherit from each.                          *)
(***************************************************************************)
EXTENDS MCParts, RateLimiterProofs, FormProofs, ItemListProofs,
        SequenceTheorems, WellFoundedInduction

-----------------------------------------------------------------------------
(***************************************************************************)
(* InOrder.  The k-th of a finite set is the one with k - 1 before it.     *)
(***************************************************************************)

Nth(S, R, k) == CHOOSE i \in S : Cardinality(Before(R, S, i)) = k - 1

\* The k-th is found, everything is some k-th, and their order is R.
LEMMA NthIs ==
    ASSUME NEW S, IsFiniteSet(S), NEW R, Orders(R, S)
    PROVE  /\ Cardinality(S) \in Nat
           /\ \A k \in 1 .. Cardinality(S) :
                Nth(S, R, k) \in S /\ Cardinality(Before(R, S, Nth(S, R, k))) = k - 1
           /\ \A i \in S : \E k \in 1 .. Cardinality(S) : Nth(S, R, k) = i
           /\ \A k, l \in 1 .. Cardinality(S) :
                <<Nth(S, R, k), Nth(S, R, l)>> \in R <=> k < l
<1> DEFINE n == Cardinality(S)
           place == [i \in S |-> Cardinality(Before(R, S, i))]
<1>1. n \in Nat
  BY FS_CardinalityType
<1>2. place \in Bijection(S, 0 .. n - 1)
  BY PlacesAreNumbers
<1>3. /\ \A i \in S : place[i] \in 0 .. n - 1
      /\ \A i, j \in S : place[i] = place[j] => i = j
      /\ \A m \in 0 .. n - 1 : \E i \in S : place[i] = m
  BY <1>2 DEF Bijection, Injection, Surjection, IsInjective
<1>4. ASSUME NEW k \in 1 .. n
      PROVE  Nth(S, R, k) \in S /\ place[Nth(S, R, k)] = k - 1
  <2>1. \E i \in S : place[i] = k - 1
    BY <1>1, <1>3
  <2> QED
    BY <2>1 DEF Nth
<1>5. ASSUME NEW i \in S PROVE \E k \in 1 .. n : Nth(S, R, k) = i
  <2> DEFINE k == place[i] + 1
  <2>1. k \in 1 .. n /\ k - 1 = place[i]
    BY <1>1, <1>3
  <2> HIDE DEF k, place, n
  <2> QED
    BY <1>3, <1>4, <2>1
<1>6. ASSUME NEW k \in 1 .. n, NEW l \in 1 .. n
      PROVE  <<Nth(S, R, k), Nth(S, R, l)>> \in R <=> k < l
  <2> DEFINE i == Nth(S, R, k)
             j == Nth(S, R, l)
  <2>1. i \in S /\ j \in S /\ place[i] = k - 1 /\ place[j] = l - 1
    BY <1>4
  <2>2. <<i, j>> \in R => place[i] < place[j]
    BY <2>1, PlacesGrow
  <2>3. <<j, i>> \in R => place[j] < place[i]
    BY <2>1, PlacesGrow
  <2>4. i # j => <<i, j>> \in R \/ <<j, i>> \in R
    BY <2>1 DEF Orders
  <2> HIDE DEF place, i, j
  <2>5. <<i, j>> \in R <=> k < l
    BY <1>1, <2>1, <2>2, <2>3, <2>4
  <2> QED
    BY <2>5 DEF i, j
<1> QED
  BY <1>1, <1>4, <1>5, <1>6

\* Sets of the same order have the same k-th.
Keeps(phi, S, R, T, Q) ==
    /\ phi \in Bijection(S, T)
    /\ \A i, j \in S : <<i, j>> \in R <=> <<phi[i], phi[j]>> \in Q

LEMMA SameNth ==
    ASSUME NEW S, IsFiniteSet(S), NEW R, Orders(R, S),
           NEW T, NEW Q, Orders(Q, T), NEW phi, Keeps(phi, S, R, T, Q)
    PROVE  /\ IsFiniteSet(T) /\ Cardinality(T) = Cardinality(S)
           /\ \A k \in 1 .. Cardinality(S) : Nth(T, Q, k) = phi[Nth(S, R, k)]
<1>1. IsFiniteSet(T) /\ Cardinality(T) = Cardinality(S)
  BY FS_Bijection DEF ExistsBijection, Keeps
<1>2. /\ \A i \in S : phi[i] \in T
      /\ \A i, j \in S : phi[i] = phi[j] => i = j
      /\ \A t \in T : \E i \in S : phi[i] = t
  BY DEF Keeps, Bijection, Injection, Surjection, IsInjective
<1>3. ASSUME NEW i \in S
      PROVE  Cardinality(Before(Q, T, phi[i])) = Cardinality(Before(R, S, i))
  <2> DEFINE B == Before(R, S, i)
             f == [j \in B |-> phi[j]]
  <2>1. B \subseteq S /\ IsFiniteSet(B)
    BY FS_Subset DEF Before
  <2>2. f \in Bijection(B, Before(Q, T, phi[i]))
    <3>1. \A j \in B : f[j] \in Before(Q, T, phi[i])
      BY <1>2 DEF Before, Keeps
    <3>2. \A j, k \in B : f[j] = f[k] => j = k
      BY <1>2, <2>1
    <3>3. \A t \in Before(Q, T, phi[i]) : \E j \in B : f[j] = t
      BY <1>2 DEF Before, Keeps
    <3> QED
      BY <3>1, <3>2, <3>3 DEF Bijection, Injection, Surjection, IsInjective
  <2> QED
    BY <2>1, <2>2, FS_Bijection DEF ExistsBijection
<1>4. ASSUME NEW k \in 1 .. Cardinality(S)
      PROVE  Nth(T, Q, k) = phi[Nth(S, R, k)]
  <2>1. Nth(S, R, k) \in S /\ Cardinality(Before(R, S, Nth(S, R, k))) = k - 1
    BY NthIs
  <2>2. phi[Nth(S, R, k)] \in T /\ Cardinality(Before(Q, T, phi[Nth(S, R, k)])) = k - 1
    BY <1>2, <1>3, <2>1
  <2>3. PICK l \in 1 .. Cardinality(T) : Nth(T, Q, l) = phi[Nth(S, R, k)]
    BY <1>1, <2>2, NthIs
  <2>4. Cardinality(Before(Q, T, Nth(T, Q, l))) = l - 1
    BY <1>1, NthIs
  <2>5. l = k
    BY <1>1, <2>2, <2>3, <2>4, FS_CardinalityType
  <2> QED
    BY <2>3, <2>5
<1> QED
  BY <1>1, <1>4

\* The order of the numbers.
Less == {p \in Int \X Int : p[1] < p[2]}

LEMMA LessOrders == \A S \in SUBSET Int : Orders(Less, S)
  BY DEF Orders, Less

LEMMA InNumberOrder ==
    ASSUME NEW s, NEW S \in SUBSET Int
    PROVE  InOrder(s, S, <) = [k \in 1 .. Cardinality(S) |-> s[Nth(S, Less, k)]]
<1> DEFINE at(k) == CHOOSE i \in S : Cardinality({j \in S : j < i}) = k - 1
<1>1. ASSUME NEW k PROVE at(k) = Nth(S, Less, k)
  <2>1. \A i \in S : {j \in S : j < i} = Before(Less, S, i)
    BY DEF Before, Less
  <2> QED
    BY <2>1 DEF Nth
<1>2. InOrder(s, S, <) = [k \in 1 .. Cardinality(S) |-> s[at(k)]]
  BY DEF InOrder
<1> QED
  BY <1>1, <1>2

-----------------------------------------------------------------------------
(***************************************************************************)
(* Queries.  InKeyOrder depends on the pairs of a set of positions and on  *)
(* the order of those that have the same key.                              *)
(***************************************************************************)

KeyOrder(q, S) ==
    {p \in S \X S : \/ q[p[1]][1] < q[p[2]][1]
                    \/ q[p[1]][1] = q[p[2]][1] /\ p[1] < p[2]}

\* Positions of pairs that Query() reads.
Reads(q, S) == S \in SUBSET (1 .. Len(q)) /\ \A i \in S : q[i] \in Keys \X Values

LEMMA ReadPositions ==
    ASSUME NEW q \in Seq(Pairs), NEW S, Reads(q, S)
    PROVE  /\ IsFiniteSet(S) /\ S \in SUBSET Int
           /\ \A i \in S : q[i][1] \in Int
           /\ Orders(KeyOrder(q, S), S)
<1>1. Len(q) \in Nat /\ 1 \in Int
  BY LenProperties
<1>2. IsFiniteSet(1 .. Len(q))
  BY <1>1, FS_Interval
<1>3. S \in SUBSET (1 .. Len(q)) /\ \A i \in S : q[i] \in Keys \X Values
  BY DEF Reads
<1>4. IsFiniteSet(S)
  BY <1>2, <1>3, FS_Subset
<1>5. S \in SUBSET Int
  BY <1>1, <1>3
<1>6. \A i \in S : q[i][1] \in Int
  BY <1>3, UrlAssumption DEF Keys
<1>7. \A i, j \in S : <<i, j>> \in KeyOrder(q, S)
                        <=> q[i][1] < q[j][1] \/ (q[i][1] = q[j][1] /\ i < j)
  BY DEF KeyOrder
<1> DEFINE R == KeyOrder(q, S)
           key(i) == q[i][1]
<1> HIDE DEF R, key
<1>8. \A i, j \in S : <<i, j>> \in R <=> key(i) < key(j) \/ (key(i) = key(j) /\ i < j)
  BY <1>7 DEF R, key
<1>9. S \in SUBSET Int /\ \A i \in S : key(i) \in Int
  BY <1>5, <1>6 DEF key
<1>10. Orders(R, S)
  <2>1. \A i \in S : <<i, i>> \notin R
    BY <1>8, <1>9
  <2>2. \A i, j \in S : i # j => <<i, j>> \in R \/ <<j, i>> \in R
    BY <1>8, <1>9
  <2>3. \A i, j, k \in S : <<i, j>> \in R /\ <<j, k>> \in R => <<i, k>> \in R
    BY <1>8, <1>9
  <2> QED
    BY <2>1, <2>2, <2>3 DEF Orders
<1> QED
  BY <1>4, <1>5, <1>6, <1>10 DEF R

LEMMA InKeyOrderIs ==
    ASSUME NEW q, NEW S
    PROVE  InKeyOrder(q, S) = [k \in 1 .. Cardinality(S) |-> q[Nth(S, KeyOrder(q, S), k)]]
<1> DEFINE before(j, i) == \/ q[j][1] < q[i][1]
                           \/ q[j][1] = q[i][1] /\ j < i
           at(k) == CHOOSE i \in S : Cardinality({j \in S : before(j, i)}) = k - 1
<1>1. ASSUME NEW k PROVE at(k) = Nth(S, KeyOrder(q, S), k)
  <2>1. \A i \in S : {j \in S : before(j, i)} = Before(KeyOrder(q, S), S, i)
    BY DEF Before, KeyOrder
  <2> QED
    BY <2>1 DEF Nth
<1>2. InKeyOrder(q, S) = [k \in 1 .. Cardinality(S) |-> q[at(k)]]
  BY DEF InKeyOrder, InOrder
<1> HIDE DEF at
<1> QED
  BY <1>1, <1>2

\* Two queries with the same pairs, in the same order for each key.
Moves(phi, q, S, r, T) ==
    /\ phi \in Bijection(S, T)
    /\ \A i \in S : r[phi[i]] = q[i]
    /\ \A i, j \in S : q[i][1] = q[j][1] /\ i < j => phi[i] < phi[j]

LEMMA SameKeyOrder ==
    ASSUME NEW q \in Seq(Pairs), NEW S, Reads(q, S),
           NEW r \in Seq(Pairs), NEW T, Reads(r, T),
           NEW phi, Moves(phi, q, S, r, T)
    PROVE  InKeyOrder(q, S) = InKeyOrder(r, T)
<1> DEFINE R == KeyOrder(q, S)
           Q == KeyOrder(r, T)
<1>0. /\ phi \in Bijection(S, T)
      /\ \A i \in S : r[phi[i]] = q[i]
      /\ \A i, j \in S : q[i][1] = q[j][1] /\ i < j => phi[i] < phi[j]
  BY DEF Moves
<1>1. /\ IsFiniteSet(S) /\ Orders(R, S) /\ S \in SUBSET Int
      /\ \A i \in S : q[i][1] \in Int
  BY ReadPositions
<1>2. Orders(Q, T) /\ T \in SUBSET Int
  BY ReadPositions
<1>3. \A i \in S : phi[i] \in T
  BY <1>0 DEF Bijection, Injection
<1>4. ASSUME NEW i \in S, NEW j \in S PROVE <<i, j>> \in R <=> <<phi[i], phi[j]>> \in Q
  <2>1. <<i, j>> \in R <=> q[i][1] < q[j][1] \/ (q[i][1] = q[j][1] /\ i < j)
    BY DEF KeyOrder
  <2>2. <<phi[i], phi[j]>> \in Q
          <=> q[i][1] < q[j][1] \/ (q[i][1] = q[j][1] /\ phi[i] < phi[j])
    BY <1>0, <1>3 DEF KeyOrder
  <2>3. q[i][1] = q[j][1] => (i < j <=> phi[i] < phi[j])
    <3> SUFFICES ASSUME q[i][1] = q[j][1] PROVE i < j <=> phi[i] < phi[j]
      OBVIOUS
    <3>1. i < j => phi[i] < phi[j]
      BY <1>0
    <3>2. j < i => phi[j] < phi[i]
      BY <1>0
    <3>3. i \in Int /\ j \in Int /\ phi[i] \in Int /\ phi[j] \in Int
      BY <1>1, <1>2, <1>3
    <3> QED
      BY <3>1, <3>2, <3>3
  <2> QED
    BY <2>1, <2>2, <2>3
<1> HIDE DEF R, Q
<1>5. /\ Cardinality(T) = Cardinality(S)
      /\ \A k \in 1 .. Cardinality(S) : Nth(T, Q, k) = phi[Nth(S, R, k)]
  <2>1. Keeps(phi, S, R, T, Q)
    BY <1>0, <1>4 DEF Keeps
  <2> QED
    BY <1>1, <1>2, <2>1, SameNth
<1>6. \A k \in 1 .. Cardinality(S) : Nth(S, R, k) \in S
  BY <1>1, NthIs
<1>7. \A k \in 1 .. Cardinality(S) : r[Nth(T, Q, k)] = q[Nth(S, R, k)]
  BY <1>0, <1>5, <1>6
<1>8. /\ InKeyOrder(q, S) = [k \in 1 .. Cardinality(S) |-> q[Nth(S, R, k)]]
      /\ InKeyOrder(r, T) = [k \in 1 .. Cardinality(T) |-> r[Nth(T, Q, k)]]
  BY InKeyOrderIs DEF R, Q
<1> QED
  BY <1>5, <1>7, <1>8

\* What Kept keeps can be read.
LEMMA KeptIsRead == \A p \in Pairs : Kept(p) => p \in Keys \X Values
  BY DEF Kept, Pairs

KeptAt(q) == {i \in DOMAIN q : Kept(q[i])}

LEMMA KeptReads == \A q \in Seq(Pairs) : Reads(q, KeptAt(q))
<1> SUFFICES ASSUME NEW q \in Seq(Pairs) PROVE Reads(q, KeptAt(q))
  OBVIOUS
<1>1. DOMAIN q = 1 .. Len(q) /\ \A i \in 1 .. Len(q) : q[i] \in Pairs
  BY LenProperties, ElementOfSeq
<1> QED
  BY <1>1, KeptIsRead DEF Reads, KeptAt

LEMMA CanonQueryIs == \A q : CanonQuery(q) = InKeyOrder(q, KeptAt(q))
  BY DEF CanonQuery, KeptAt

LEMMA Inserted ==
    ASSUME NEW q \in Seq(Pairs), NEW i \in 1 .. Len(q) + 1, NEW e \in Pairs
    PROVE  /\ InsertAt(q, i, e) \in Seq(Pairs)
           /\ Len(InsertAt(q, i, e)) = Len(q) + 1
           /\ InsertAt(q, i, e)[i] = e
           /\ \A j \in 1 .. Len(q) : InsertAt(q, i, e)[IF j < i THEN j ELSE j + 1] = q[j]
<1> DEFINE front == SubSeq(q, 1, i - 1)
           c == SubSeq(q, i, Len(q))
<1>1. /\ Len(q) \in Nat
      /\ front \in Seq(Pairs) /\ Len(front) = i - 1 /\ \A j \in 1 .. i - 1 : front[j] = q[j]
  BY SubSeqProperties
<1>2. c \in Seq(Pairs) /\ Len(c) = Len(q) - i + 1 /\ \A j \in 1 .. Len(c) : c[j] = q[i + j - 1]
  BY <1>1, SubSeqProperties
<1> HIDE DEF front, c
<1>3. /\ front \o <<e>> \in Seq(Pairs) /\ Len(front \o <<e>>) = i
      /\ (front \o <<e>>)[i] = e
      /\ \A j \in 1 .. i - 1 : (front \o <<e>>)[j] = q[j]
  <2> DEFINE o == <<e>>
  <2>1. o \in Seq(Pairs) /\ Len(o) = 1 /\ o[1] = e
    OBVIOUS
  <2> HIDE DEF o
  <2>2. /\ front \o o \in Seq(Pairs) /\ Len(front \o o) = i
        /\ (front \o o)[i] = e
        /\ \A j \in 1 .. i - 1 : (front \o o)[j] = q[j]
    <3>1. /\ front \o o \in Seq(Pairs) /\ Len(front \o o) = Len(front) + Len(o)
          /\ \A j \in 1 .. Len(front) + Len(o) :
                (front \o o)[j] = IF j <= Len(front) THEN front[j] ELSE o[j - Len(front)]
      BY <1>1, <2>1, ConcatProperties
    <3>2. i \in Int /\ 1 <= i
      BY <1>1
    <3> DEFINE ho == front \o o
    <3> HIDE DEF ho
    <3>3. /\ ho \in Seq(Pairs) /\ Len(ho) = i
          /\ \A j \in 1 .. i : ho[j] = IF j <= i - 1 THEN front[j] ELSE o[j - (i - 1)]
      BY <1>1, <2>1, <3>1, <3>2 DEF ho
    <3>4. ho[i] = o[1]
      BY <3>2, <3>3
    <3>5. \A j \in 1 .. i - 1 : ho[j] = q[j]
      BY <1>1, <3>2, <3>3
    <3> QED
      BY <2>1, <3>3, <3>4, <3>5 DEF ho
  <2> QED
    BY <2>2 DEF o
<1>4. InsertAt(q, i, e) = (front \o <<e>>) \o c
  BY DEF InsertAt, front, c
<1> DEFINE d == front \o <<e>>
<1> HIDE DEF d
<1>5. d \in Seq(Pairs) /\ Len(d) = i /\ d[i] = e /\ \A j \in 1 .. i - 1 : d[j] = q[j]
  BY <1>3 DEF d
<1>6. /\ d \o c \in Seq(Pairs) /\ Len(d \o c) = Len(q) + 1
      /\ \A j \in 1 .. i : (d \o c)[j] = d[j]
      /\ \A j \in i + 1 .. Len(q) + 1 : (d \o c)[j] = c[j - i]
  BY <1>1, <1>2, <1>5
<1>7. ASSUME NEW j \in 1 .. Len(q)
      PROVE  (d \o c)[IF j < i THEN j ELSE j + 1] = q[j]
  <2>1. CASE j < i
    BY <1>1, <1>5, <1>6, <2>1
  <2>2. CASE ~(j < i)
    <3>1. (d \o c)[j + 1] = c[j + 1 - i]
      BY <1>1, <1>6, <2>2
    <3>2. c[j + 1 - i] = q[j]
      BY <1>1, <1>2, <2>2
    <3> QED
      BY <2>2, <3>1, <3>2
  <2> QED
    BY <2>1, <2>2
<1> QED
  BY <1>1, <1>4, <1>5, <1>6, <1>7 DEF d

\* A pair that is dropped changes nothing.
LEMMA DroppedPair ==
    ASSUME NEW q \in Seq(Pairs), NEW i \in 1 .. Len(q) + 1, NEW e \in Pairs, ~Kept(e)
    PROVE  CanonQuery(InsertAt(q, i, e)) = CanonQuery(q)
<1> DEFINE r == InsertAt(q, i, e)
           n == Len(q)
           at(j) == IF j < i THEN j ELSE j + 1
           S == KeptAt(q)
           T == KeptAt(r)
           phi == [j \in S |-> at(j)]
<1>1. /\ n \in Nat /\ r \in Seq(Pairs) /\ Len(r) = n + 1 /\ r[i] = e
      /\ \A j \in 1 .. n : r[at(j)] = q[j]
  BY Inserted, LenProperties, Zenon
<1> HIDE DEF r
<1>2. DOMAIN q = 1 .. n /\ DOMAIN r = 1 .. n + 1
  BY <1>1
<1> HIDE DEF n
<1>3. S \in SUBSET (1 .. n) /\ T \in SUBSET (1 .. n + 1)
  BY <1>2 DEF KeptAt
<1>4. \A j \in S : at(j) \in T
  BY <1>1, <1>2 DEF KeptAt, n
<1>5. \A j, k \in S : at(j) = at(k) => j = k
  BY <1>1, <1>3
<1>6. ASSUME NEW t \in T PROVE \E j \in S : at(j) = t
  <2>1. t # i /\ t \in 1 .. n + 1 /\ i \in 1 .. n + 1 /\ Kept(r[t])
    BY <1>1, <1>2 DEF KeptAt, n
  <2> DEFINE j == IF t < i THEN t ELSE t - 1
  <2>2. j \in 1 .. n /\ at(j) = t
    BY <1>1, <2>1
  <2>3. j \in S
    BY <1>1, <1>2, <2>1, <2>2 DEF KeptAt
  <2> QED
    BY <2>2, <2>3
<1>7. phi \in Bijection(S, T)
  <2> HIDE DEF S, T, at
  <2> QED
    BY <1>4, <1>5, <1>6 DEF Bijection, Injection, Surjection, IsInjective
<1>8. \A j \in S : r[phi[j]] = q[j]
  BY <1>1, <1>3
<1>9. \A j, k \in S : q[j][1] = q[k][1] /\ j < k => phi[j] < phi[k]
  <2>1. \A j, k \in S : j < k => at(j) < at(k)
    BY <1>1, <1>3 DEF n
  <2> HIDE DEF at
  <2> QED
    BY <2>1
<1>10. Reads(q, S) /\ Reads(r, T)
  BY <1>1, KeptReads
<1>11. Moves(phi, q, S, r, T)
  BY <1>7, <1>8, <1>9 DEF Moves
<1> HIDE DEF phi, S, T
<1> QED
  BY <1>1, <1>10, <1>11, SameKeyOrder, CanonQueryIs DEF S, T, r


\* Two pairs may change places, unless both can be read and have one key.
LEMMA SwappedPairs ==
    ASSUME NEW q \in Seq(Pairs), NEW i \in 1 .. Len(q) - 1,
           BadPair \notin {q[i], q[i + 1]} => q[i][1] # q[i + 1][1]
    PROVE  CanonQuery(ReplaceAt(ReplaceAt(q, i, q[i + 1]), i + 1, q[i])) = CanonQuery(q)
<1> DEFINE r == ReplaceAt(ReplaceAt(q, i, q[i + 1]), i + 1, q[i])
           n == Len(q)
           at(j) == IF j = i THEN i + 1 ELSE IF j = i + 1 THEN i ELSE j
           S == KeptAt(q)
           T == KeptAt(r)
           phi == [j \in S |-> at(j)]
<1>1. /\ n \in Nat /\ i \in 1 .. n /\ i + 1 \in 1 .. n
      /\ DOMAIN q = 1 .. n /\ \A j \in 1 .. n : q[j] \in Pairs
  BY LenProperties, ElementOfSeq
<1>2. /\ DOMAIN r = 1 .. n
      /\ \A j \in 1 .. n : r[at(j)] = q[j] /\ r[j] = q[at(j)]
      /\ r \in [1 .. n -> Pairs]
  BY <1>1 DEF ReplaceAt
<1>3. r \in Seq(Pairs)
  BY <1>1, <1>2
<1>4. \A j \in 1 .. n : at(j) \in 1 .. n /\ at(at(j)) = j
  BY <1>1
<1> HIDE DEF r, n
<1>5. S \in SUBSET (1 .. n) /\ T \in SUBSET (1 .. n)
  BY <1>1, <1>2 DEF KeptAt
<1>6. \A j \in S : at(j) \in T
  BY <1>1, <1>2, <1>4, <1>5 DEF KeptAt
<1>7. \A t \in T : at(t) \in S
  BY <1>1, <1>2, <1>4, <1>5 DEF KeptAt
<1>8. phi \in Bijection(S, T)
  <2> HIDE DEF S, T, at
  <2>1. \A j, k \in S : at(j) = at(k) => j = k
    BY <1>4, <1>5
  <2>2. \A t \in T : \E j \in S : at(j) = t
    BY <1>4, <1>5, <1>7
  <2> QED
    BY <1>6, <2>1, <2>2 DEF Bijection, Injection, Surjection, IsInjective
<1>9. \A j \in S : r[phi[j]] = q[j]
  BY <1>2, <1>5
<1>10. \A j, k \in S : q[j][1] = q[k][1] /\ j < k => phi[j] < phi[k]
  <2>1. \A j, k \in S : j < k /\ ~(j = i /\ k = i + 1) => at(j) < at(k)
    <3> HIDE DEF S
    <3> QED
      BY <1>1, <1>5
  <2>2. i \in S /\ i + 1 \in S => q[i][1] # q[i + 1][1]
    BY DEF KeptAt, Kept
  <2> HIDE DEF at, S
  <2> QED
    BY <2>1, <2>2
<1>11. Reads(q, S) /\ Reads(r, T)
  BY <1>3, KeptReads
<1>12. Moves(phi, q, S, r, T)
  BY <1>8, <1>9, <1>10 DEF Moves
<1> HIDE DEF phi, S, T
<1> QED
  BY <1>3, <1>11, <1>12, SameKeyOrder, CanonQueryIs DEF S, T, r

\* Where the k-th pair of the canonical query was before.
From(q, k) == Nth(KeptAt(q), KeyOrder(q, KeptAt(q)), k)

LEMMA CanonPlaces ==
    ASSUME NEW q \in Seq(Pairs), NEW n, n = Cardinality(KeptAt(q))
    PROVE  /\ n \in Nat
           /\ CanonQuery(q) \in Seq(Pairs) /\ DOMAIN CanonQuery(q) = 1 .. n
           /\ \A k \in 1 .. n : CanonQuery(q)[k] = q[From(q, k)] /\ Kept(CanonQuery(q)[k])
           /\ \A k \in 1 .. n : From(q, k) \in KeptAt(q)
           /\ \A i \in KeptAt(q) : \E k \in 1 .. n : From(q, k) = i
           /\ \A k, l \in 1 .. n : From(q, k) = From(q, l) => k = l
           /\ \A k, l \in 1 .. n : q[From(q, k)][1] = q[From(q, l)][1] /\ k < l
                                    => From(q, k) < From(q, l)
<1> DEFINE S == KeptAt(q)
           R == KeyOrder(q, S)
           c == CanonQuery(q)
<1>1. /\ DOMAIN q = 1 .. Len(q) /\ \A i \in S : Kept(q[i]) /\ i \in 1 .. Len(q) /\ q[i] \in Pairs
  BY LenProperties, ElementOfSeq DEF KeptAt
<1>2. Reads(q, S)
  BY KeptReads
<1>3. IsFiniteSet(S) /\ Orders(R, S)
  BY <1>2, ReadPositions
<1>4. c = [k \in 1 .. n |-> q[From(q, k)]]
  BY CanonQueryIs, InKeyOrderIs DEF From
<1> HIDE DEF S, c
<1>5. /\ n \in Nat
      /\ \A k \in 1 .. n : From(q, k) \in S
      /\ \A i \in S : \E k \in 1 .. n : From(q, k) = i
      /\ \A k, l \in 1 .. n : <<From(q, k), From(q, l)>> \in R <=> k < l
  <2>1. \A k : From(q, k) = Nth(S, R, k)
    BY DEF From, S
  <2>2. n = Cardinality(S)
    BY DEF S
  <2> QED
    BY <1>3, <2>1, <2>2, NthIs
<1>6. \A k, l \in 1 .. n : From(q, k) = From(q, l) => k = l
  <2>1. ASSUME NEW k \in 1 .. n, NEW l \in 1 .. n, k < l PROVE From(q, k) # From(q, l)
    BY <1>3, <1>5, <2>1 DEF Orders
  <2>2. \A k, l \in 1 .. n : k < l \/ l < k \/ k = l
    BY <1>5
  <2> QED
    BY <2>1, <2>2
<1>7. /\ c \in Seq(Pairs)
      /\ DOMAIN c = 1 .. n /\ \A k \in 1 .. n : c[k] = q[From(q, k)] /\ Kept(c[k])
  <2>1. \A k \in 1 .. n : q[From(q, k)] \in Pairs /\ Kept(q[From(q, k)])
    BY <1>1, <1>5
  <2>2. DOMAIN c = 1 .. n /\ \A k \in 1 .. n : c[k] = q[From(q, k)]
    BY <1>4
  <2>3. c \in [1 .. n -> Pairs]
    BY <1>4, <2>1
  <2>4. c \in Seq(Pairs)
    BY <1>5, <2>3
  <2>5. \A k \in 1 .. n : Kept(c[k])
    BY <2>1, <2>2
  <2> QED
    BY <2>2, <2>4, <2>5
<1>8. ASSUME NEW k \in 1 .. n, NEW l \in 1 .. n, q[From(q, k)][1] = q[From(q, l)][1], k < l
      PROVE  From(q, k) < From(q, l)
  <2> DEFINE i == From(q, k)
             j == From(q, l)
  <2>1. <<i, j>> \in R
    BY <1>5, <1>8
  <2>2. q[i][1] = q[j][1] /\ q[i][1] \in Int
    BY <1>2, <1>5, <1>8, ReadPositions
  <2> HIDE DEF i, j
  <2>3. i < j
    BY <2>1, <2>2 DEF KeyOrder
  <2> QED
    BY <2>3 DEF i, j
<1> QED
  BY <1>5, <1>6, <1>7, <1>8 DEF S, c

\* A canonical query is its own.
LEMMA CanonTwice ==
    ASSUME NEW q \in Seq(Pairs)
    PROVE  /\ CanonQuery(q) \in Seq(Pairs)
           /\ CanonQuery(CanonQuery(q)) = CanonQuery(q)
<1> DEFINE S == KeptAt(q)
           n == Cardinality(S)
           c == CanonQuery(q)
           psi == [k \in 1 .. n |-> From(q, k)]
<1>1. /\ n \in Nat /\ c \in Seq(Pairs) /\ DOMAIN c = 1 .. n
      /\ \A k \in 1 .. n : c[k] = q[From(q, k)] /\ Kept(c[k]) /\ From(q, k) \in S
      /\ \A i \in S : \E k \in 1 .. n : From(q, k) = i
      /\ \A k, l \in 1 .. n : From(q, k) = From(q, l) => k = l
      /\ \A k, l \in 1 .. n : q[From(q, k)][1] = q[From(q, l)][1] /\ k < l
                               => From(q, k) < From(q, l)
  BY CanonPlaces
<1>2. KeptAt(c) = 1 .. n
  BY <1>1 DEF KeptAt
<1> HIDE DEF S, c, n
<1>3. psi \in Bijection(1 .. n, S)
  BY <1>1 DEF Bijection, Injection, Surjection, IsInjective
<1>4. Moves(psi, c, 1 .. n, q, S)
  BY <1>1, <1>3 DEF Moves
<1>5. Reads(c, 1 .. n) /\ Reads(q, S)
  BY <1>1, <1>2, KeptReads DEF S
<1>6. InKeyOrder(c, 1 .. n) = InKeyOrder(q, S)
  <2> HIDE DEF psi
  <2> QED
    BY <1>1, <1>4, <1>5, SameKeyOrder
<1>7. CanonQuery(c) = c
  BY <1>2, <1>6, CanonQueryIs DEF S, c
<1> QED
  BY <1>1, <1>7 DEF c

-----------------------------------------------------------------------------
(***************************************************************************)
(* Paths.                                                                  *)
(***************************************************************************)

\* A set of numbers up to n that is not empty has a greatest.
LEMMA MaxIs ==
    ASSUME NEW n \in Nat, NEW S \in SUBSET (0 .. n), S # {}
    PROVE  Max(S) \in S /\ \A x \in S : x <= Max(S)
<1> DEFINE T == {n - x : x \in S}
<1>1. T \subseteq Nat /\ T # {}
  OBVIOUS
<1>2. PICK t \in T : \A u \in T : ~(<<u, t>> \in OpToRel(<, Nat))
  BY <1>1, NatLessThanWellFounded, WFMin
<1>3. \A u \in T : ~(u < t)
  BY <1>1, <1>2 DEF OpToRel
<1>4. PICK x \in S : t = n - x
  OBVIOUS
<1>5. \A y \in S : x >= y
  <2> SUFFICES ASSUME NEW y \in S PROVE x >= y
    OBVIOUS
  <2>1. ~(n - y < n - x)
    BY <1>3, <1>4
  <2>2. n \in Int /\ x \in Int /\ y \in Int
    OBVIOUS
  <2> QED
    BY <2>1, <2>2
<1>6. Max(S) \in S /\ \A y \in S : Max(S) >= y
  BY <1>5 DEF Max
<1> QED
  BY <1>6

\* Where a path ends without its slashes.
EndsAt(path, n) ==
    /\ n \in 0 .. Len(path)
    /\ n > 0 => path[n] # "/"
    /\ \A j \in n + 1 .. Len(path) : path[j] = "/"

LEMMA Ends ==
    ASSUME NEW X, NEW path \in Seq(X)
    PROVE  \E n \in 0 .. Len(path) :
                /\ EndsAt(path, n)
                /\ TrimSlashes(path) = IF n = 0 THEN <<"/">> ELSE SubSeq(path, 1, n)
<1> DEFINE I == {i \in 1 .. Len(path) : path[i] # "/"}
           n == IF I # {} THEN Max(I) ELSE 0
<1>1. Len(path) \in Nat
  BY LenProperties
<1>2. EndsAt(path, n)
  <2>1. CASE I = {}
    BY <1>1, <2>1 DEF EndsAt
  <2>2. CASE I # {}
    <3>1. I \in SUBSET (0 .. Len(path))
      BY <1>1
    <3> DEFINE m == Max(I)
    <3>2. m \in I /\ \A x \in I : x <= m
      <4> HIDE DEF I
      <4> QED
        BY <1>1, <2>2, <3>1, MaxIs
    <3> HIDE DEF m
    <3>3. EndsAt(path, m)
      BY <1>1, <3>2 DEF EndsAt
    <3> QED
      BY <2>2, <3>3 DEF m
  <2> QED
    BY <2>1, <2>2
<1>3. n \in 0 .. Len(path)
  BY <1>2 DEF EndsAt
<1>5. TrimSlashes(path) = IF SubSeq(path, 1, n) = <<>> THEN <<"/">> ELSE SubSeq(path, 1, n)
  BY DEF TrimSlashes, SelectLastInSeq
<1> HIDE DEF n, I
<1>6. n = 0 <=> SubSeq(path, 1, n) = <<>>
  BY <1>1, <1>3
<1> QED
  BY <1>2, <1>3, <1>5, <1>6

LEMMA EndsOnce ==
    ASSUME NEW X, NEW path \in Seq(X), NEW n, EndsAt(path, n)
    PROVE  TrimSlashes(path) = IF n = 0 THEN <<"/">> ELSE SubSeq(path, 1, n)
<1>1. PICK m \in 0 .. Len(path) :
        /\ EndsAt(path, m)
        /\ TrimSlashes(path) = IF m = 0 THEN <<"/">> ELSE SubSeq(path, 1, m)
  BY Ends
<1>2. n = m
  BY <1>1 DEF EndsAt
<1> QED
  BY <1>1, <1>2

Plain == {"/", "a"}
Spelled == {"/", "a", "%61", "%2F"}

\* A path that TrimSlashes leaves alone.
Tidy(path) == path = <<"/">> \/ (path # <<>> /\ Last(path) # "/")

LEMMA TidyKept ==
    ASSUME NEW X, NEW path \in Seq(X), Tidy(path)
    PROVE  TrimSlashes(path) = path
<1>1. Len(path) \in Nat /\ (path # <<>> => Len(path) > 0)
  BY LenProperties, EmptySeq
<1>2. CASE path = <<"/">>
  <2>1. EndsAt(path, 0)
    BY <1>2 DEF EndsAt
  <2> QED
    BY <1>2, <2>1, EndsOnce
<1>3. CASE path # <<>> /\ Last(path) # "/"
  <2>1. EndsAt(path, Len(path))
    BY <1>1, <1>3 DEF EndsAt, Last
  <2>2. TrimSlashes(path) = SubSeq(path, 1, Len(path))
    BY <1>1, <1>3, <2>1, EndsOnce
  <2>3. SubSeq(path, 1, Len(path)) = path
    BY <1>1
  <2> QED
    BY <2>2, <2>3
<1> QED
  BY <1>2, <1>3 DEF Tidy

LEMMA SlashesTrimmed ==
    ASSUME NEW X, "/" \in X, NEW path \in Seq(X)
    PROVE  TrimSlashes(path) \in Seq(X) /\ Tidy(TrimSlashes(path))
<1>1. PICK n \in 0 .. Len(path) :
        /\ EndsAt(path, n)
        /\ TrimSlashes(path) = IF n = 0 THEN <<"/">> ELSE SubSeq(path, 1, n)
  BY Ends
<1>2. CASE n = 0
  <2>1. TrimSlashes(path) = <<"/">>
    BY <1>1, <1>2
  <2>2. <<"/">> \in Seq(X)
    OBVIOUS
  <2> QED
    BY <2>1, <2>2 DEF Tidy
<1>3. CASE n # 0
  <2> DEFINE t == SubSeq(path, 1, n)
  <2>1. Len(path) \in Nat /\ n \in 1 .. Len(path)
    BY <1>3, LenProperties
  <2>2. t \in Seq(X) /\ Len(t) = n /\ t[n] = path[n]
    BY <2>1
  <2>3. path[n] # "/"
    BY <1>1, <2>1 DEF EndsAt
  <2> HIDE DEF t
  <2>4. t # <<>> /\ Last(t) # "/"
    BY <2>1, <2>2, <2>3 DEF Last
  <2>5. TrimSlashes(path) = t
    BY <1>1, <1>3 DEF t
  <2> QED
    BY <2>2, <2>4, <2>5 DEF Tidy
<1> QED
  BY <1>2, <1>3

Plainly(path) == [i \in DOMAIN path |-> Decoded(path[i])]

LEMMA Decode ==
    ASSUME NEW path \in Seq(Spelled)
    PROVE  /\ Plainly(path) \in Seq(Plain)
           /\ Len(Plainly(path)) = Len(path)
           /\ \A i \in 1 .. Len(path) : Plainly(path)[i] = Decoded(path[i])
           /\ path \in Seq(Plain) => Plainly(path) = path
           /\ EndsInSlash(Plainly(path)) <=> EndsInSlash(path)
<1> DEFINE n == Len(path)
           d == Plainly(path)
<1>1. n \in Nat /\ path \in [1 .. n -> Spelled] /\ DOMAIN path = 1 .. n
  BY LenProperties
<1>2. \A t \in Spelled : Decoded(t) \in Plain /\ Decoded(Decoded(t)) = Decoded(t)
  BY DEF Spelled, Plain, Decoded
<1>3. d \in [1 .. n -> Plain] /\ \A i \in 1 .. n : d[i] = Decoded(path[i])
  BY <1>1, <1>2 DEF Plainly
<1> HIDE DEF d, n
<1>4. d \in Seq(Plain) /\ Len(d) = n /\ DOMAIN d = 1 .. n
  BY <1>1, <1>3
<1>5. path \in Seq(Plain) => d = path
  <2> SUFFICES ASSUME path \in Seq(Plain) PROVE d = path
    OBVIOUS
  <2>1. \A i \in 1 .. n : path[i] \in Plain
    BY DEF n
  <2>2. \A t \in Plain : Decoded(t) = t
    BY DEF Plain, Decoded
  <2>3. \A i \in 1 .. n : d[i] = path[i]
    BY <1>3, <2>1, <2>2
  <2> QED
    BY <1>1, <1>4, <2>3
<1>6. EndsInSlash(d) <=> EndsInSlash(path)
  <2>1. d = <<>> <=> n = 0
    BY <1>1, <1>4
  <2>2. path = <<>> <=> n = 0
    BY <1>1 DEF n
  <2>3. n # 0 => Decoded(Last(d)) = Decoded(Last(path))
    BY <1>1, <1>2, <1>3, <1>4 DEF Last, n
  <2> QED
    BY <2>1, <2>2, <2>3 DEF EndsInSlash
<1> QED
  BY <1>3, <1>4, <1>5, <1>6 DEF d, n

LEMMA CanonPathIs ==
    ASSUME NEW path \in Seq(Spelled)
    PROVE  CanonPath(path) = IF Plainly(path) # <<"/">> /\ EndsInSlash(path)
                             THEN TrimSlashes(Plainly(path)) ELSE path
BY Decode DEF CanonPath, Plainly

\* A path of plain tokens, with its slashes or without.
LEMMA CanonPlain ==
    ASSUME NEW path \in Seq(Plain)
    PROVE  CanonPath(path) = IF path = <<>> THEN path ELSE TrimSlashes(path)
<1>1. path \in Seq(Spelled)
  BY DEF Plain, Spelled
<1>2. Plainly(path) = path
  BY <1>1, Decode
<1>3. path # <<>> => Last(path) \in Plain
  BY LenProperties DEF Last
<1>4. path # <<>> /\ ~EndsInSlash(path) => Last(path) # "/"
  BY <1>3 DEF EndsInSlash, Decoded, Plain
<1>5. path # <<>> /\ ~(path # <<"/">> /\ EndsInSlash(path)) => TrimSlashes(path) = path
  BY <1>4, TidyKept DEF Tidy
<1>6. path = <<>> => ~EndsInSlash(path)
  BY DEF EndsInSlash
<1> QED
  BY <1>1, <1>2, <1>5, <1>6, CanonPathIs

LEMMA CanonPathTwice ==
    ASSUME NEW path \in Seq(Spelled)
    PROVE  CanonPath(path) \in Seq(Spelled) /\ CanonPath(CanonPath(path)) = CanonPath(path)
<1> DEFINE t == TrimSlashes(Plainly(path))
<1>1. t \in Seq(Plain) /\ Tidy(t)
  BY Decode, SlashesTrimmed DEF Plain
<1>2. t \in Seq(Spelled)
  <2> HIDE DEF t
  <2> QED
    BY <1>1 DEF Plain, Spelled
<1>3. CanonPath(t) = t
  <2> HIDE DEF t
  <2>1. TrimSlashes(t) = t
    BY <1>1, TidyKept
  <2> QED
    BY <1>1, <2>1, CanonPlain
<1> HIDE DEF t
<1>4. CanonPath(path) = t \/ CanonPath(path) = path
  BY CanonPathIs DEF t
<1> QED
  BY <1>2, <1>3, <1>4

LEMMA SlashTrimmed ==
    ASSUME NEW path \in Seq(Plain)
    PROVE  TrimSlashes(Append(path, "/")) = TrimSlashes(path)
<1> DEFINE q == Append(path, "/")
           m == Len(path)
<1>1. /\ m \in Nat /\ q \in Seq(Plain) /\ Len(q) = m + 1
      /\ q[m + 1] = "/" /\ \A i \in 1 .. m : q[i] = path[i]
  BY DEF Plain
<1>2. PICK n \in 0 .. m :
        /\ EndsAt(path, n)
        /\ TrimSlashes(path) = IF n = 0 THEN <<"/">> ELSE SubSeq(path, 1, n)
  BY Ends
<1> HIDE DEF q
<1>3. EndsAt(q, n)
  BY <1>1, <1>2 DEF EndsAt
<1>4. TrimSlashes(q) = IF n = 0 THEN <<"/">> ELSE SubSeq(q, 1, n)
  BY <1>1, <1>3, EndsOnce
<1>5. SubSeq(q, 1, n) = SubSeq(path, 1, n)
  BY <1>1, <1>2
<1>6. CASE n = 0
  BY <1>2, <1>4, <1>6 DEF q
<1>7. CASE n # 0
  <2>1. TrimSlashes(path) = SubSeq(path, 1, n)
    BY <1>2, <1>7
  <2>2. TrimSlashes(q) = SubSeq(q, 1, n)
    BY <1>4, <1>7
  <2> QED
    BY <1>5, <2>1, <2>2 DEF q
<1> QED
  BY <1>6, <1>7

\* The canonical path of one that is given a slash has no escapes.
LEMMA SlashAppended ==
    ASSUME NEW path \in Seq(Spelled)
    PROVE  /\ ~Escaped(CanonPath(Append(path, "/")))
           /\ path # <<>> => CanonPath(Append(path, "/")) = TrimSlashes(Plainly(path))
<1> DEFINE q == Append(path, "/")
           d == Plainly(path)
           m == Len(path)
<1>1. /\ m \in Nat /\ q \in Seq(Spelled) /\ Len(q) = m + 1
      /\ q[m + 1] = "/" /\ \A i \in 1 .. m : q[i] = path[i]
  BY DEF Spelled
<1>2. /\ d \in Seq(Plain) /\ Len(d) = m
      /\ \A i \in 1 .. m : d[i] = Decoded(path[i])
  BY Decode
<1>3. /\ Plainly(q) \in Seq(Plain) /\ Len(Plainly(q)) = m + 1
      /\ \A i \in 1 .. m + 1 : Plainly(q)[i] = Decoded(q[i])
  <2> HIDE DEF q
  <2> QED
    BY <1>1, Decode
<1> HIDE DEF q, d
<1>4. Plainly(q) = Append(d, "/")
  <2>1. Append(d, "/") \in Seq(Plain) /\ Len(Append(d, "/")) = m + 1
    BY <1>1, <1>2 DEF Plain
  <2>2. \A i \in 1 .. m + 1 : Plainly(q)[i] = Append(d, "/")[i]
    <3> SUFFICES ASSUME NEW i \in 1 .. m + 1 PROVE Plainly(q)[i] = Append(d, "/")[i]
      OBVIOUS
    <3>1. CASE i = m + 1
      BY <1>1, <1>2, <1>3, <3>1 DEF Decoded
    <3>2. CASE i # m + 1
      <4>1. i \in 1 .. m
        BY <1>1, <3>2
      <4> QED
        BY <1>1, <1>2, <1>3, <4>1
    <3> QED
      BY <3>1, <3>2
  <2> QED
    BY <1>3, <2>1, <2>2
<1>5. EndsInSlash(q)
  BY <1>1 DEF EndsInSlash, Last, Decoded
<1>6. \A x \in Seq(Plain) : ~Escaped(x)
  BY DEF Escaped, Plain
<1>7. CASE path = <<>>
  <2>1. d = <<>> /\ m = 0
    BY <1>2, <1>7
  <2>2. q = <<"/">> /\ Plainly(q) = <<"/">>
    BY <1>4, <1>7, <2>1 DEF q
  <2>3. CanonPath(q) = <<"/">> /\ q \in Seq(Plain)
    <3>1. CanonPath(q) = q
      BY <1>1, <2>2, CanonPathIs
    <3>2. <<"/">> \in Seq(Plain)
      BY DEF Plain
    <3> QED
      BY <2>2, <3>1, <3>2
  <2> QED
    BY <1>6, <1>7, <2>2, <2>3 DEF q
<1>8. CASE path # <<>>
  <2>1. m # 0
    BY <1>1, <1>8
  <2>2. Plainly(q) # <<"/">>
    BY <1>1, <1>3, <2>1
  <2>3. CanonPath(q) = TrimSlashes(d)
    BY <1>1, <1>2, <1>4, <1>5, <2>2, CanonPathIs, SlashTrimmed
  <2>4. TrimSlashes(d) \in Seq(Plain)
    BY <1>2, SlashesTrimmed DEF Plain
  <2> QED
    BY <1>6, <2>3, <2>4 DEF q, d
<1> QED
  BY <1>7, <1>8

\* A slash changes nothing in a path without escapes, nor after another.
LEMMA SlashAdded ==
    ASSUME NEW path \in Seq(Spelled), path # <<>>, path[1] = "/",
           Escaped(path) => EndsInSlash(path)
    PROVE  CanonPath(Append(path, "/")) = CanonPath(path)
<1>1. CanonPath(Append(path, "/")) = TrimSlashes(Plainly(path))
  BY SlashAppended
<1>2. CASE Escaped(path)
  <2>1. Plainly(path) # <<"/">>
    <3> SUFFICES ASSUME Plainly(path) = <<"/">> PROVE FALSE
      OBVIOUS
    <3>1. Len(path) = 1
      BY Decode
    <3>2. \A i \in DOMAIN path : path[i] = "/"
      BY <3>1
    <3> QED
      BY <1>2, <3>2 DEF Escaped
  <2> QED
    BY <1>1, <1>2, <2>1, CanonPathIs
<1>3. CASE ~Escaped(path)
  <2>1. \A i \in 1 .. Len(path) : path[i] \in Plain
    BY <1>3, LenProperties, ElementOfSeq DEF Escaped, Spelled, Plain
  <2>2. path \in Seq(Plain)
    BY <2>1, LenProperties
  <2>3. Plainly(path) = path
    BY <2>2, Decode
  <2> QED
    BY <1>1, <2>2, <2>3, CanonPlain
<1> QED
  BY <1>2, <1>3

\* A canonical path is empty only of an empty one.
LEMMA CanonNotEmpty ==
    ASSUME NEW path \in Seq(Spelled)
    PROVE  CanonPath(path) = <<>> <=> path = <<>>
<1>1. TrimSlashes(Plainly(path)) # <<>>
  <2>1. Tidy(TrimSlashes(Plainly(path)))
    BY Decode, SlashesTrimmed DEF Plain
  <2>2. <<"/">> # <<>>
    OBVIOUS
  <2> QED
    BY <2>1, <2>2 DEF Tidy
<1>2. path = <<>> => ~EndsInSlash(path)
  BY DEF EndsInSlash
<1> QED
  BY <1>1, <1>2, CanonPathIs

-----------------------------------------------------------------------------
(***************************************************************************)
(* The spellings of a page that are one item.                              *)
(***************************************************************************)

LEMMA Bounded ==
    ASSUME NEW S, NEW n \in Int
    PROVE  BoundedSeq(S, n) \subseteq Seq(S)
<1> SUFFICES ASSUME NEW s \in BoundedSeq(S, n) PROVE s \in Seq(S)
  OBVIOUS
<1>1. PICK m \in 0 .. n : s \in [1 .. m -> S]
  BY DEF BoundedSeq, SeqOf
<1>2. m \in Nat
  OBVIOUS
<1> QED
  BY <1>1, <1>2

LEMMA UrlShape ==
    /\ Paths \subseteq Seq(Spelled)
    /\ Queries \subseteq Seq(Pairs)
    /\ \A u \in Urls :
        /\ u \in [path : Seq(Spelled), query : Seq(Pairs), bare : BOOLEAN]
        /\ u.path \in Paths /\ u.query \in Queries
<1>1. MaxPath - 1 \in Int /\ MaxQuery \in Int /\ Tokens \subseteq Spelled
  BY UrlAssumption DEF Spelled
<1>2. BoundedSeq(Tokens, MaxPath - 1) \subseteq Seq(Spelled)
  <2>1. BoundedSeq(Tokens, MaxPath - 1) \subseteq Seq(Tokens)
    BY <1>1, Bounded
  <2>2. \A s \in Seq(Tokens) : s \in Seq(Spelled)
    BY <1>1
  <2> QED
    BY <2>1, <2>2
<1>3. Paths \subseteq Seq(Spelled)
  <2>1. \A p \in Seq(Spelled) : <<"/">> \o p \in Seq(Spelled)
    BY DEF Spelled
  <2>2. <<>> \in Seq(Spelled)
    OBVIOUS
  <2> QED
    BY <1>2, <2>1, <2>2 DEF Paths
<1>4. Queries \subseteq Seq(Pairs)
  BY <1>1, Bounded DEF Queries
<1>5. ASSUME NEW u \in Urls
      PROVE  /\ u \in [path : Seq(Spelled), query : Seq(Pairs), bare : BOOLEAN]
             /\ u.path \in Paths /\ u.query \in Queries
  BY <1>3, <1>4 DEF Urls
<1> QED
  BY <1>3, <1>4, <1>5

\* URLs of the same canonical path and query.
LEMMA SameCanonical ==
    \A u, v1 : CanonPath(u.path) = CanonPath(v1.path) /\ CanonQuery(u.query) = CanonQuery(v1.query)
                 /\ u.bare = v1.bare => Canonicalize(u) = Canonicalize(v1)
  BY DEF Canonicalize

\* A spelling that is taken for another page keeps a trace of why.
Apart(u) ==
    \/ saved.bare /\ ~u.bare
    \/ saved.path = <<>> /\ u.path # <<>>
    \/ Escaped(saved.path) /\ ~Escaped(CanonPath(u.path)) /\ u.path # <<>>

UrlInv ==
    /\ url \in Urls /\ split \in BOOLEAN
    /\ split => saved # NoUrl /\ Apart(url)
    /\ saved # NoUrl /\ ~split => Canonicalize(url) = saved

LEMMA UrlParts ==
    ASSUME NEW u \in Urls
    PROVE  /\ u.path \in Seq(Spelled) /\ u.query \in Seq(Pairs) /\ u.bare \in BOOLEAN
           /\ u.path # <<>> => u.path[1] = "/"
<1>1. u.path \in Seq(Spelled) /\ u.query \in Seq(Pairs) /\ u.bare \in BOOLEAN /\ u.path \in Paths
  BY UrlShape
<1>2. ASSUME u.path # <<>> PROVE u.path[1] = "/"
  <2>1. PICK p \in BoundedSeq(Tokens, MaxPath - 1) : u.path = <<"/">> \o p
    BY <1>1, <1>2 DEF Paths
  <2>2. p \in Seq(Tokens)
    BY Bounded, UrlAssumption
  <2> QED
    BY <2>1, <2>2
<1> QED
  BY <1>1, <1>2

LEMMA ApartIs == UrlInv /\ Apart(url) => Canonicalize(url) # saved
<1> SUFFICES ASSUME UrlInv, Apart(url), Canonicalize(url) = saved PROVE FALSE
  OBVIOUS
<1>1. url.path \in Seq(Spelled)
  BY UrlParts DEF UrlInv
<1>2. saved.path = CanonPath(url.path) /\ saved.bare = url.bare
  BY DEF Canonicalize
<1> QED
  BY <1>1, <1>2, CanonNotEmpty DEF Apart

\* A step that opens another spelling of the page, and one that opens a
\* spelling the code takes for another page.
LEMMA UrlStep ==
    ASSUME UrlInv, NEW u, Open(u),
           \/ split' = split /\ Canonicalize(u) = Canonicalize(url)
           \/ split' = TRUE /\ Apart(u),
           Apart(url) => Apart(u)
    PROVE  UrlInv'
<1>1. url' = u /\ u \in Urls /\ saved' = saved /\ saved # NoUrl
  BY DEF Open
<1>2. Apart(url)' <=> Apart(u)
  BY <1>1 DEF Apart
<1>3. Canonicalize(url)' = Canonicalize(u)
  BY <1>1
<1>4. CASE split' = split /\ Canonicalize(u) = Canonicalize(url)
  BY <1>1, <1>2, <1>3, <1>4 DEF UrlInv
<1>5. CASE split' = TRUE /\ Apart(u)
  BY <1>1, <1>2, <1>5 DEF UrlInv
<1> QED
  BY <1>4, <1>5

LEMMA TrackingAdded ==
    ASSUME UrlInv, NEW i \in 1 .. Len(url.query) + 1, NEW pair \in Pairs, AddTracking(i, pair)
    PROVE  UrlInv'
<1>1. /\ url \in [path : Seq(Spelled), query : Seq(Pairs), bare : BOOLEAN]
      /\ split \in BOOLEAN
      /\ split => saved # NoUrl /\ Apart(url)
      /\ saved # NoUrl /\ ~split => Canonicalize(url) = saved
  BY UrlShape DEF UrlInv
<1> DEFINE u == [url EXCEPT !.query = InsertAt(url.query, i, pair), !.bare = FALSE]
<1>2. u.path = url.path /\ u.bare = FALSE /\ u.query = InsertAt(url.query, i, pair)
  BY <1>1
<1>3. Open(u) /\ split' = (split \/ url.bare) /\ ~Kept(pair)
  BY DEF AddTracking, Kept
<1> HIDE DEF u
<1>4. CanonQuery(u.query) = CanonQuery(url.query)
  BY <1>1, <1>2, <1>3, DroppedPair
<1>5. Apart(url) => Apart(u)
  BY <1>2 DEF Apart
<1>6. CASE split \/ ~url.bare
  <2>1. ~url.bare => Canonicalize(u) = Canonicalize(url)
    BY <1>1, <1>2, <1>4, SameCanonical
  <2>2. split => split' = TRUE /\ Apart(u)
    BY <1>1, <1>3, <1>5
  <2>3. ~split => split' = split
    BY <1>1, <1>3, <1>6
  <2> QED
    BY <1>3, <1>5, <1>6, <2>1, <2>2, <2>3, UrlStep
<1>7. CASE ~split /\ url.bare
  <2>1. saved.bare
    BY <1>1, <1>3, <1>7 DEF Open, Canonicalize
  <2>2. Apart(u) /\ split' = TRUE
    BY <1>2, <1>3, <1>7, <2>1 DEF Apart
  <2> QED
    BY <1>3, <1>5, <2>2, UrlStep
<1> QED
  BY <1>6, <1>7

LEMMA SlashIsAdded == ASSUME UrlInv, AddSlash PROVE UrlInv'
<1>1. /\ url \in [path : Seq(Spelled), query : Seq(Pairs), bare : BOOLEAN]
      /\ split \in BOOLEAN
      /\ split => saved # NoUrl /\ Apart(url)
      /\ saved # NoUrl /\ ~split => Canonicalize(url) = saved
  BY UrlShape DEF UrlInv
<1> DEFINE u == [url EXCEPT !.path = Append(url.path, "/")]
           lost == Escaped(url.path) /\ ~EndsInSlash(url.path)
<1>2. u.query = url.query /\ u.bare = url.bare /\ u.path = Append(url.path, "/")
  BY <1>1
<1>3. Open(u) /\ split' = (split \/ url.path = <<>> \/ lost) /\ saved # NoUrl
  BY DEF AddSlash, Open
<1> HIDE DEF u
<1>4. u.path # <<>> /\ ~Escaped(CanonPath(u.path))
  <2>1. url.path \in Seq(Spelled)
    BY <1>1
  <2> QED
    BY <1>2, <2>1, SlashAppended
<1>5. Apart(url) => Apart(u)
  BY <1>2, <1>4 DEF Apart
<1>6. CASE split
  <2>1. split' = TRUE /\ Apart(u)
    BY <1>1, <1>3, <1>5, <1>6
  <2> QED
    BY <1>3, <1>5, <2>1, UrlStep
<1>7. CASE ~split /\ (url.path = <<>> \/ lost)
  <2>1. saved.path = CanonPath(url.path)
    BY <1>1, <1>3, <1>7 DEF Canonicalize
  <2>2. CASE url.path = <<>>
    <3>1. saved.path = <<>>
      BY <1>1, <2>1, <2>2, CanonNotEmpty
    <3>2. Apart(u) /\ split' = TRUE
      BY <1>3, <1>4, <2>2, <3>1 DEF Apart
    <3> QED
      BY <1>3, <1>5, <3>2, UrlStep
  <2>3. CASE lost
    <3>1. saved.path = url.path
      BY <1>1, <2>1, <2>3, CanonPathIs
    <3>2. Apart(u) /\ split' = TRUE
      BY <1>3, <1>4, <2>3, <3>1 DEF Apart
    <3> QED
      BY <1>3, <1>5, <3>2, UrlStep
  <2> QED
    BY <1>7, <2>2, <2>3
<1>8. CASE ~split /\ url.path # <<>> /\ ~lost
  <2>1. url.path \in Seq(Spelled) /\ url.path[1] = "/"
    BY <1>8, UrlParts DEF UrlInv
  <2>2. CanonPath(u.path) = CanonPath(url.path)
    BY <1>2, <1>8, <2>1, SlashAdded
  <2>3. Canonicalize(u) = Canonicalize(url) /\ split' = split
    BY <1>1, <1>2, <1>3, <1>8, <2>2, SameCanonical
  <2> QED
    BY <1>3, <1>5, <2>3, UrlStep
<1> QED
  BY <1>6, <1>7, <1>8

LEMMA UrlInvHolds == UrlSpec => []UrlInv
<1>1. UrlInit => UrlInv
  BY DEF UrlInit, UrlInv
<1>2. UrlInv /\ [UrlNext]_urlVars => UrlInv'
  <2> SUFFICES ASSUME UrlInv, [UrlNext]_urlVars PROVE UrlInv'
    OBVIOUS
  <2>0. url \in [path : Seq(Spelled), query : Seq(Pairs), bare : BOOLEAN]
    BY UrlShape DEF UrlInv
  <2>1. CASE SavePage
    BY <2>1 DEF SavePage, UrlInv
  <2>2. ASSUME NEW i \in 1 .. Len(url.query) + 1, NEW pair \in Pairs, AddTracking(i, pair)
        PROVE  UrlInv'
    BY <2>2, TrackingAdded
  <2>3. ASSUME NEW i \in 1 .. Len(url.query) - 1, SwapPairs(i) PROVE UrlInv'
    <3> DEFINE q == ReplaceAt(ReplaceAt(url.query, i, url.query[i + 1]), i + 1, url.query[i])
               u == [url EXCEPT !.query = q]
    <3>1. u.path = url.path /\ u.bare = url.bare /\ u.query = q
      BY <2>0
    <3>2. Open(u) /\ split' = split
          /\ (BadPair \notin {url.query[i], url.query[i + 1]}
                => url.query[i][1] # url.query[i + 1][1])
      BY <2>3 DEF SwapPairs
    <3>3. CanonQuery(q) = CanonQuery(url.query)
      BY <2>0, <3>2, SwappedPairs
    <3> HIDE DEF u, q
    <3>4. Canonicalize(u) = Canonicalize(url) /\ (Apart(url) => Apart(u))
      BY <3>1, <3>3, SameCanonical DEF Apart
    <3> QED
      BY <3>2, <3>4, UrlStep
  <2>4. CASE AddSlash
    BY <2>4, SlashIsAdded
  <2>5. CASE OpenCanonical
    <3> DEFINE u == Canonicalize(url)
    <3>1. u.path = CanonPath(url.path) /\ u.query = CanonQuery(url.query) /\ u.bare = url.bare
      BY DEF Canonicalize
    <3>2. CanonPath(u.path) = CanonPath(url.path) /\ CanonQuery(u.query) = CanonQuery(url.query)
      BY <2>0, <3>1, CanonPathTwice, CanonTwice
    <3>3. u.path # <<>> <=> url.path # <<>>
      BY <2>0, <3>1, CanonNotEmpty
    <3>4. Open(u) /\ split' = split
      BY <2>5 DEF OpenCanonical
    <3> HIDE DEF u
    <3>5. Canonicalize(u) = Canonicalize(url) /\ (Apart(url) => Apart(u))
      BY <3>1, <3>2, <3>3, SameCanonical DEF Apart
    <3> QED
      BY <3>4, <3>5, UrlStep
  <2>6. CASE UNCHANGED urlVars
    BY <2>6 DEF urlVars, UrlInv, Apart
  <2> QED
    BY <2>1, <2>2, <2>3, <2>4, <2>5, <2>6 DEF UrlNext
<1> QED
  BY <1>1, <1>2, PTL DEF UrlSpec

\* However the tracking parameters, the order of the keys and the slashes at
\* the end of its path are written, a page leads to the item it was first
\* saved as, and so does the item's own link, but for the three spellings
\* that split it, from which nothing leads back.
THEOREM OnePageOneItem == UrlSpec => []SpellingsJoin
<1>1. UrlInv => SpellingsJoin
  BY ApartIs DEF UrlInv, SpellingsJoin
<1> QED
  BY <1>1, UrlInvHolds, PTL

-----------------------------------------------------------------------------
(***************************************************************************)
(* Two pages of one item.                                                  *)
(***************************************************************************)

\* The canonical query has the pairs of each key that is not tracking, in
\* their order.
LEMMA PairsKept ==
    ASSUME NEW q \in Seq(Pairs), NEW k \in Keys \ Tracking
    PROVE  PairsOf(CanonQuery(q), k) = PairsOf(q, k)
<1> DEFINE S == KeptAt(q)
           n == Cardinality(S)
           c == CanonQuery(q)
           A == {i \in DOMAIN q : q[i] \in {k} \X Values}
           B == {m \in DOMAIN c : c[m] \in {k} \X Values}
           phi == [m \in B |-> From(q, m)]
<1>1. /\ n \in Nat /\ c \in Seq(Pairs) /\ DOMAIN c = 1 .. n
      /\ \A m \in 1 .. n : c[m] = q[From(q, m)] /\ Kept(c[m]) /\ From(q, m) \in S
      /\ \A i \in S : \E m \in 1 .. n : From(q, m) = i
      /\ \A m, l \in 1 .. n : From(q, m) = From(q, l) => m = l
      /\ \A m, l \in 1 .. n : q[From(q, m)][1] = q[From(q, l)][1] /\ m < l
                               => From(q, m) < From(q, l)
  BY CanonPlaces
<1>2. DOMAIN q = 1 .. Len(q) /\ Len(q) \in Nat
  BY LenProperties
<1>3. A \subseteq S
  BY UrlAssumption DEF KeptAt, Kept, Keys
<1>4. S \subseteq 1 .. Len(q)
  BY <1>2 DEF KeptAt
<1> HIDE DEF S, c, n
<1>5. \A m \in B : m \in 1 .. n /\ From(q, m) \in A
  BY <1>1, <1>2, <1>4
<1>6. \A i \in A : \E m \in B : From(q, m) = i
  BY <1>1, <1>3
<1>7. \A m \in 1 .. n : From(q, m) \in Int
  <2>1. S \subseteq Int
    BY <1>2, <1>4
  <2> QED
    BY <1>1, <2>1
<1>8. ASSUME NEW m \in B, NEW l \in B
      PROVE  m < l <=> From(q, m) < From(q, l)
  <2> DEFINE i == From(q, m)
             j == From(q, l)
  <2>1. q[i][1] = q[j][1]
    BY <1>5
  <2>2. m < l => i < j
    BY <1>1, <1>5, <2>1
  <2>3. l < m => j < i
    BY <1>1, <1>5, <2>1
  <2>4. m \in Int /\ l \in Int /\ i \in Int /\ j \in Int
    BY <1>5, <1>7
  <2>5. m = l => i = j
    OBVIOUS
  <2> HIDE DEF i, j
  <2>6. m < l <=> i < j
    BY <2>2, <2>3, <2>4, <2>5
  <2> QED
    BY <2>6 DEF i, j
<1>9. /\ IsFiniteSet(B) /\ B \in SUBSET Int /\ A \in SUBSET Int
  <2>1. 1 \in Int /\ n \in Int /\ B \subseteq 1 .. n
    BY <1>1
  <2>2. IsFiniteSet(B)
    BY <2>1, FS_Interval, FS_Subset
  <2> QED
    BY <1>2, <2>1, <2>2
<1>10. phi \in Bijection(B, A)
  <2> HIDE DEF A, B
  <2> QED
    BY <1>1, <1>5, <1>6 DEF Bijection, Injection, Surjection, IsInjective
<1> HIDE DEF A, B
<1>11. \A m, l \in B : <<m, l>> \in Less <=> <<phi[m], phi[l]>> \in Less
  BY <1>5, <1>7, <1>8, <1>9 DEF Less
<1>12. Orders(Less, A) /\ Orders(Less, B)
  BY <1>9, LessOrders
<1>13. \A m \in B : q[phi[m]] = c[m]
  BY <1>1, <1>5
<1>14. Keeps(phi, B, Less, A, Less)
  BY <1>10, <1>11 DEF Keeps
<1> HIDE DEF phi
<1>15. /\ Cardinality(A) = Cardinality(B)
       /\ \A j \in 1 .. Cardinality(B) : Nth(A, Less, j) = phi[Nth(B, Less, j)]
  BY <1>9, <1>12, <1>14, SameNth
<1>16. \A j \in 1 .. Cardinality(B) : Nth(B, Less, j) \in B
  BY <1>9, <1>12, NthIs
<1>17. \A j \in 1 .. Cardinality(B) : q[Nth(A, Less, j)] = c[Nth(B, Less, j)]
  BY <1>13, <1>15, <1>16
<1>18. /\ PairsOf(c, k) = [j \in 1 .. Cardinality(B) |-> c[Nth(B, Less, j)]]
       /\ PairsOf(q, k) = [j \in 1 .. Cardinality(A) |-> q[Nth(A, Less, j)]]
  BY <1>9, InNumberOrder DEF PairsOf, A, B
<1> QED
  BY <1>15, <1>17, <1>18 DEF c

\* Without an encoded slash that is trimmed, the site is asked for the same by
\* a path and its canonical one, but for slashes at the end.
Escapes(p) == EndsInSlash(p) /\ \E i \in DOMAIN p : p[i] = "%2F"

LEMMA SitePathIs ==
    ASSUME NEW p \in Seq(Spelled), ~Escapes(p)
    PROVE  TrimSlashes(SitePath(CanonPath(p))) = TrimSlashes(SitePath(p))
<1>1. CASE EndsInSlash(p) /\ Plainly(p) # <<"/">>
  <2> DEFINE d == Plainly(p)
             t == TrimSlashes(d)
             read(x) == IF x = "%61" THEN "a" ELSE x
  <2>1. \A i \in DOMAIN p : p[i] \in Spelled /\ p[i] # "%2F"
    BY <1>1, LenProperties, ElementOfSeq DEF Escapes
  <2>2. \A x \in Spelled : x # "%2F" => Decoded(x) = read(x)
    BY DEF Decoded, Spelled
  <2>3. SitePath(p) = d
    BY <2>1, <2>2 DEF Plainly, SitePath
  <2>4. d \in Seq(Plain) /\ CanonPath(p) = t
    BY <1>1, Decode, CanonPathIs
  <2>5. t \in Seq(Plain) /\ Tidy(t)
    <3> HIDE DEF d
    <3> QED
      BY <2>4, SlashesTrimmed DEF Plain
  <2> HIDE DEF d, t
  <2>6. SitePath(t) = t
    <3>1. \A i \in DOMAIN t : t[i] \in Plain
      BY <2>5, LenProperties, ElementOfSeq
    <3>2. \A x \in Plain : x # "%61"
      BY DEF Plain
    <3>3. \A i \in DOMAIN t : SitePath(t)[i] = t[i]
      BY <3>1, <3>2 DEF SitePath
    <3>4. t = [i \in DOMAIN t |-> t[i]] /\ SitePath(t) = [i \in DOMAIN t |-> SitePath(t)[i]]
      BY <2>5 DEF SitePath
    <3> QED
      BY <3>3, <3>4
  <2>7. TrimSlashes(t) = t
    BY <2>5, TidyKept
  <2> QED
    BY <2>3, <2>4, <2>6, <2>7 DEF t
<1>2. CASE ~(EndsInSlash(p) /\ Plainly(p) # <<"/">>)
  BY <1>2, CanonPathIs
<1> QED
  BY <1>1, <1>2

\* Two pages that lead to one item differ, at most, in the order of their
\* keys, in pairs that are tracking or that nobody can read, or in slashes at
\* the end of a path, if neither path has an encoded one there.
THEOREM OneItemOnePage == UrlSpec => []PagesApart
<1>1. UrlInv => PagesApart
  <2> SUFFICES ASSUME UrlInv PROVE PagesApart
    OBVIOUS
  <2>1. url.path \in Seq(Spelled) /\ url.query \in Seq(Pairs)
    BY UrlShape DEF UrlInv
  <2>2. ASSUME NEW p \in Paths, CanonPath(p) = CanonPath(url.path),
               TrimSlashes(SitePath(p)) # TrimSlashes(SitePath(url.path))
        PROVE  \E r \in {p, url.path} : EndsInSlash(r) /\ \E i \in DOMAIN r : r[i] = "%2F"
    <3>1. p \in Seq(Spelled)
      BY UrlShape
    <3>2. Escapes(p) \/ Escapes(url.path)
      <4> SUFFICES ASSUME ~Escapes(p), ~Escapes(url.path) PROVE FALSE
        OBVIOUS
      <4>1. TrimSlashes(SitePath(CanonPath(p))) = TrimSlashes(SitePath(p))
        BY <3>1, SitePathIs
      <4>2. TrimSlashes(SitePath(CanonPath(url.path))) = TrimSlashes(SitePath(url.path))
        BY <2>1, SitePathIs
      <4> QED
        BY <2>2, <4>1, <4>2
    <3> QED
      BY <3>2 DEF Escapes
  <2>3. ASSUME NEW q \in Queries, CanonQuery(q) = CanonQuery(url.query),
               NEW k \in Keys \ Tracking
        PROVE  PairsOf(q, k) = PairsOf(url.query, k)
    <3>1. q \in Seq(Pairs)
      BY UrlShape
    <3> QED
      BY <2>1, <2>3, <3>1, PairsKept
  <2> QED
    BY <2>2, <2>3 DEF PagesApart
<1> QED
  BY <1>1, UrlInvHolds, PTL

-----------------------------------------------------------------------------
(***************************************************************************)
(* Normalized text, and text that is cut.                                  *)
(***************************************************************************)

\* Neighbours stay neighbours.
LEMMA NextTo ==
    ASSUME NEW S \in SUBSET Int, IsFiniteSet(S),
           NEW k \in 1 .. Cardinality(S), Nth(S, Less, k) + 1 \in S
    PROVE  /\ k + 1 \in 1 .. Cardinality(S)
           /\ Nth(S, Less, k + 1) = Nth(S, Less, k) + 1
<1> DEFINE n == Cardinality(S)
           at(m) == Nth(S, Less, m)
<1>1. /\ n \in Nat
      /\ \A m \in 1 .. n : at(m) \in S
      /\ \A i \in S : \E m \in 1 .. n : at(m) = i
      /\ \A m, l \in 1 .. n : <<at(m), at(l)>> \in Less <=> m < l
  BY LessOrders, NthIs
<1>2. k \in 1 .. n /\ at(k) + 1 \in S
  OBVIOUS
<1> HIDE DEF n, at
<1>3. \A m, l \in 1 .. n : at(m) \in Int /\ (at(m) < at(l) <=> m < l)
  BY <1>1 DEF Less
<1>4. PICK l \in 1 .. n : at(l) = at(k) + 1
  BY <1>1, <1>2
<1>5. k < l
  BY <1>2, <1>3, <1>4
<1>6. ~(k + 1 < l)
  <2> SUFFICES ASSUME k + 1 < l PROVE FALSE
    OBVIOUS
  <2>1. k + 1 \in 1 .. n
    BY <1>1, <1>2
  <2>2. at(k) < at(k + 1) /\ at(k + 1) < at(l)
    BY <1>2, <1>3, <2>1
  <2> QED
    BY <1>2, <1>3, <1>4, <2>1, <2>2
<1>7. l = k + 1
  BY <1>1, <1>2, <1>5, <1>6
<1> QED
  BY <1>4, <1>7 DEF n, at

LEMMA JustBefore ==
    ASSUME NEW S \in SUBSET Int, IsFiniteSet(S),
           NEW k \in 1 .. Cardinality(S), Nth(S, Less, k) - 1 \in S
    PROVE  /\ k - 1 \in 1 .. Cardinality(S)
           /\ Nth(S, Less, k - 1) = Nth(S, Less, k) - 1
<1> DEFINE n == Cardinality(S)
           at(m) == Nth(S, Less, m)
<1>1. /\ n \in Nat
      /\ \A m \in 1 .. n : at(m) \in S
      /\ \A i \in S : \E m \in 1 .. n : at(m) = i
      /\ \A m, l \in 1 .. n : <<at(m), at(l)>> \in Less <=> m < l
  BY LessOrders, NthIs
<1>2. k \in 1 .. n /\ at(k) - 1 \in S
  OBVIOUS
<1>3. PICK l \in 1 .. n : at(l) = at(k) - 1
  BY <1>1, <1>2
<1> HIDE DEF n, at
<1>4. at(l) + 1 = at(k) /\ at(k) \in S /\ at(k) \in Int
  <2>1. at(k) \in S
    BY <1>1, <1>2
  <2>2. at(k) \in Int
    BY <2>1
  <2> QED
    BY <1>3, <2>1, <2>2
<1>5. l + 1 \in 1 .. n /\ at(l + 1) = at(k)
  <2>1. at(l) + 1 \in S
    BY <1>4
  <2> QED
    BY <1>3, <1>4, <2>1, NextTo DEF n, at
<1>6. l + 1 = k
  <2>1. ~(l + 1 < k) /\ ~(k < l + 1)
    <3>1. <<at(k), at(k)>> \notin Less
      BY <1>4 DEF Less
    <3> QED
      BY <1>1, <1>2, <1>5, <3>1
  <2> QED
    BY <1>1, <1>2, <1>5, <2>1
<1>7. k - 1 = l
  BY <1>2, <1>6
<1> QED
  BY <1>3, <1>7 DEF n, at

\* The positions whose byte stays.
Stays(t, i) == \/ t[i] # "s"
               \/ i > 1 /\ t[i - 1] # "s" /\ \E j \in i .. Len(t) : t[j] # "s"
Staying(t) == {i \in DOMAIN t : Stays(t, i)}
Place1(t, k) == Nth(Staying(t), Less, k)

LEMMA NormalIs ==
    ASSUME NEW t \in Seq(Bytes), NEW n, n = Cardinality(Staying(t))
    PROVE  /\ n \in Nat /\ IsFiniteSet(Staying(t)) /\ Staying(t) \in SUBSET Int
           /\ DOMAIN t = 1 .. Len(t) /\ Len(t) \in Nat
           /\ NormalizeText(t) \in Seq(Bytes) /\ Len(NormalizeText(t)) = n
           /\ \A k \in 1 .. n : /\ Place1(t, k) \in Staying(t)
                                /\ NormalizeText(t)[k] = t[Place1(t, k)]
           /\ \A i \in Staying(t) : \E k \in 1 .. n : Place1(t, k) = i
           /\ \A k, l \in 1 .. n : Place1(t, k) < Place1(t, l) <=> k < l
<1> DEFINE S == Staying(t)
           N == NormalizeText(t)
<1>1. DOMAIN t = 1 .. Len(t) /\ Len(t) \in Nat /\ \A i \in 1 .. Len(t) : t[i] \in Bytes
  BY LenProperties, ElementOfSeq
<1>2. S \in SUBSET (1 .. Len(t))
  BY <1>1 DEF Staying
<1>3. IsFiniteSet(S) /\ S \in SUBSET Int
  <2>1. 1 \in Int /\ Len(t) \in Int
    BY <1>1
  <2> QED
    BY <1>2, <2>1, FS_Interval, FS_Subset
<1>4. N = InOrder(t, S, <)
  BY DEF NormalizeText, Staying, Stays
<1>5. N = [k \in 1 .. n |-> t[Place1(t, k)]]
  BY <1>3, <1>4, InNumberOrder DEF Place1
<1> HIDE DEF S, N
<1>6. /\ n \in Nat
      /\ \A k \in 1 .. n : Place1(t, k) \in S
      /\ \A i \in S : \E k \in 1 .. n : Place1(t, k) = i
      /\ \A k, l \in 1 .. n : <<Place1(t, k), Place1(t, l)>> \in Less <=> k < l
  <2>1. \A k : Place1(t, k) = Nth(S, Less, k)
    BY DEF Place1, S
  <2>2. n = Cardinality(S)
    BY DEF S
  <2>3. Orders(Less, S)
    BY <1>3, LessOrders
  <2> QED
    BY <1>3, <2>1, <2>2, <2>3, NthIs
<1>7. N \in [1 .. n -> Bytes] /\ \A k \in 1 .. n : N[k] = t[Place1(t, k)]
  <2>1. \A k \in 1 .. n : t[Place1(t, k)] \in Bytes
    BY <1>1, <1>2, <1>6
  <2> QED
    BY <1>5, <2>1
<1>8. N \in Seq(Bytes) /\ Len(N) = n
  BY <1>6, <1>7
<1>9. \A k, l \in 1 .. n : Place1(t, k) < Place1(t, l) <=> k < l
  BY <1>3, <1>6 DEF Less
<1> QED
  BY <1>1, <1>3, <1>6, <1>7, <1>8, <1>9 DEF S, N

\* A character is whole in the normalized text if it was before.
LEMMA NormalWhole ==
    ASSUME NEW t \in Seq(Bytes), NEW k \in 1 .. Cardinality(Staying(t))
    PROVE  Whole(NormalizeText(t), k) <=> Whole(t, Place1(t, k))
<1> DEFINE n == Cardinality(Staying(t))
           S == Staying(t)
           at(m) == Place1(t, m)
           N == NormalizeText(t)
<1>1. /\ n \in Nat /\ IsFiniteSet(S) /\ S \in SUBSET Int
      /\ DOMAIN t = 1 .. Len(t) /\ Len(t) \in Nat
      /\ \A m \in 1 .. n : at(m) \in S /\ N[m] = t[at(m)]
      /\ \A i \in S : \E m \in 1 .. n : at(m) = i
      /\ \A m, l \in 1 .. n : at(m) < at(l) <=> m < l
  BY NormalIs
<1>2. at(k) - 1 \in S => k - 1 \in 1 .. n /\ at(k - 1) = at(k) - 1
  BY <1>1, JustBefore DEF Place1
<1>3. \A i \in S : i \in 1 .. Len(t)
  BY <1>1 DEF Staying
<1>4. \A i \in 1 .. Len(t) : t[i] # "s" => i \in S
  BY <1>1 DEF Staying, Stays
<1>5. \A i \in 1 .. Len(t) : i > 1 /\ t[i - 1] # "s" /\ (\E j \in i .. Len(t) : t[j] # "s") => i \in S
  BY <1>1 DEF Staying, Stays
<1> HIDE DEF n, S, at, N
<1>6. k \in 1 .. n /\ at(k) \in 1 .. Len(t) /\ N[k] = t[at(k)]
  BY <1>1, <1>3 DEF n
<1>7. ASSUME Whole(t, at(k)) PROVE Whole(N, k)
  <2>1. t[at(k)] = "C" /\ at(k) > 1 /\ t[at(k) - 1] = "L"
    BY <1>7 DEF Whole
  <2>2. at(k) - 1 \in S
    BY <1>1, <1>4, <1>6, <2>1
  <2>3. k - 1 \in 1 .. n /\ N[k - 1] = "L"
    BY <1>1, <1>2, <2>1, <2>2
  <2> QED
    BY <1>1, <1>6, <2>1, <2>3 DEF Whole
<1>8. ASSUME Whole(N, k) PROVE Whole(t, at(k))
  <2>1. N[k] = "C" /\ k > 1 /\ N[k - 1] = "L"
    BY <1>8 DEF Whole
  <2> DEFINE i == at(k)
             j == at(k - 1)
  <2>2. k - 1 \in 1 .. n /\ k - 1 < k
    BY <1>1, <1>6, <2>1
  <2>3. j \in S /\ j \in 1 .. Len(t) /\ t[j] = "L" /\ t[i] = "C" /\ i \in 1 .. Len(t)
    BY <1>1, <1>3, <1>6, <2>1, <2>2
  <2>4. j < i
    BY <1>1, <1>6, <2>2
  <2> HIDE DEF i, j
  <2>5. j + 1 \in S
    <3>1. j + 1 \in 1 .. Len(t) /\ j + 1 > 1 /\ (j + 1) - 1 = j /\ i \in j + 1 .. Len(t)
      BY <1>1, <2>3, <2>4
    <3> QED
      BY <1>5, <2>3, <3>1
  <2>6. ~(j + 1 < i)
    <3> SUFFICES ASSUME j + 1 < i PROVE FALSE
      OBVIOUS
    <3>1. PICK m \in 1 .. n : at(m) = j + 1
      BY <1>1, <2>5
    <3>2. k - 1 < m /\ m < k
      BY <1>1, <1>6, <2>2, <2>3, <3>1 DEF i, j
    <3> QED
      BY <1>1, <1>6, <3>2
  <2>7. i - 1 = j /\ i > 1
    BY <1>1, <2>3, <2>4, <2>6
  <2>8. Whole(t, i)
    BY <2>3, <2>7 DEF Whole
  <2> QED
    BY <2>8 DEF i
<1> QED
  BY <1>7, <1>8 DEF n, at, N

LEMMA NormalValid ==
    ASSUME NEW t \in Seq(Bytes), Valid(t)
    PROVE  Valid(NormalizeText(t))
<1> DEFINE n == Cardinality(Staying(t))
           S == Staying(t)
           at(m) == Place1(t, m)
           N == NormalizeText(t)
<1>1. /\ n \in Nat /\ IsFiniteSet(S) /\ S \in SUBSET Int
      /\ DOMAIN t = 1 .. Len(t) /\ Len(t) \in Nat
      /\ N \in Seq(Bytes) /\ Len(N) = n
      /\ \A m \in 1 .. n : at(m) \in S /\ N[m] = t[at(m)]
  BY NormalIs
<1>2. \A k \in 1 .. n : at(k) + 1 \in S => k + 1 \in 1 .. n /\ at(k + 1) = at(k) + 1
  BY <1>1, NextTo DEF Place1
<1>3. \A i \in S : i \in 1 .. Len(t)
  BY <1>1 DEF Staying
<1>4. \A i \in 1 .. Len(t) : t[i] # "s" => i \in S
  BY <1>1 DEF Staying, Stays
<1>5. \A k \in 1 .. n : Whole(t, at(k)) => Whole(N, k)
  BY NormalWhole
<1> HIDE DEF n, S, at, N
<1>6. ASSUME NEW k \in 1 .. n, N[k] = "L" PROVE k < Len(N) /\ N[k + 1] = "C"
  <2>1. at(k) \in 1 .. Len(t) /\ t[at(k)] = "L"
    BY <1>1, <1>3, <1>6
  <2>2. at(k) < Len(t) /\ t[at(k) + 1] = "C"
    BY <1>1, <2>1 DEF Valid
  <2>3. at(k) + 1 \in S
    BY <1>1, <1>4, <2>1, <2>2
  <2>4. k + 1 \in 1 .. n /\ at(k + 1) = at(k) + 1
    BY <1>2, <2>3
  <2> QED
    BY <1>1, <2>2, <2>4
<1>7. ASSUME NEW k \in 1 .. n, N[k] = "C" PROVE Whole(N, k)
  <2>1. at(k) \in 1 .. Len(t) /\ t[at(k)] = "C"
    BY <1>1, <1>3, <1>7
  <2> QED
    BY <1>1, <1>5, <2>1 DEF Valid
<1>8. DOMAIN N = 1 .. n
  BY <1>1
<1> QED
  BY <1>6, <1>7, <1>8 DEF Valid, N

\* A valid text can be cut before any byte that begins a character.
LEMMA ValidPart ==
    ASSUME NEW t \in Seq(Bytes), Valid(t), NEW n \in 0 .. Len(t), n = 0 \/ t[n] # "L"
    PROVE  Valid(SubSeq(t, 1, n))
<1> DEFINE c == SubSeq(t, 1, n)
<1>1. /\ Len(t) \in Nat /\ DOMAIN t = 1 .. Len(t)
      /\ Len(c) = n /\ DOMAIN c = 1 .. n /\ \A i \in 1 .. n : c[i] = t[i]
  BY LenProperties
<1> HIDE DEF c
<1>2. ASSUME NEW i \in 1 .. n, c[i] = "L" PROVE i < n /\ c[i + 1] = "C"
  <2>1. t[i] = "L" /\ i \in DOMAIN t /\ n # 0
    BY <1>1, <1>2
  <2>2. t[i + 1] = "C"
    BY <2>1 DEF Valid
  <2>3. i # n
    BY <2>1
  <2>4. i + 1 \in 1 .. n
    BY <1>1, <2>3
  <2> QED
    BY <1>1, <2>2, <2>4
<1>3. ASSUME NEW i \in 1 .. n, c[i] = "C" PROVE Whole(c, i)
  <2>1. Whole(t, i)
    BY <1>1, <1>3 DEF Valid
  <2>2. i > 1 /\ t[i - 1] = "L"
    BY <2>1 DEF Whole
  <2>3. i - 1 \in 1 .. n
    BY <1>1, <2>2
  <2> QED
    BY <1>1, <1>3, <2>2, <2>3 DEF Whole
<1> QED
  BY <1>1, <1>2, <1>3 DEF Valid, c

LEMMA Truncated ==
    ASSUME NEW t \in Seq(Bytes), NEW limit \in Nat, NEW c, c = TruncateUTF8(t, limit)
    PROVE  /\ c \in Seq(Bytes) /\ Len(c) <= limit
           /\ c = t \/ Valid(c)
           /\ Valid(t) => Valid(c) /\ (c # t => Len(c) >= limit - 1)
<1> DEFINE S == {n \in 0 .. limit : Valid(SubSeq(t, 1, n))}
           m == Max(S)
<1>1. Len(t) \in Nat /\ DOMAIN t = 1 .. Len(t)
  BY LenProperties
<1>2. CASE Len(t) <= limit
  BY <1>2 DEF TruncateUTF8
<1>3. CASE ~(Len(t) <= limit)
  <2>1. c = SubSeq(t, 1, m)
    BY <1>3 DEF TruncateUTF8
  <2>2. 0 \in S
    <3>1. SubSeq(t, 1, 0) = <<>>
      BY <1>1
    <3> QED
      BY <3>1 DEF Valid
  <2>3. m \in S /\ \A x \in S : x <= m
    <3>1. S \in SUBSET (0 .. limit) /\ S # {}
      BY <2>2
    <3> HIDE DEF S
    <3> QED
      BY <3>1, MaxIs
  <2>4. m \in 0 .. limit /\ Valid(c)
    BY <2>1, <2>3
  <2>5. \A x \in 0 .. limit : Valid(SubSeq(t, 1, x)) => x <= m
    BY <2>3
  <2> HIDE DEF S, m
  <2>6. c \in Seq(Bytes) /\ Len(c) = m
    BY <1>1, <1>3, <2>1, <2>4
  <2>7. ASSUME Valid(t) PROVE m >= limit - 1
    <3>1. CASE limit = 0 \/ t[limit] # "L"
      <4>1. limit \in 0 .. Len(t)
        BY <1>1, <1>3
      <4>2. Valid(SubSeq(t, 1, limit))
        BY <2>7, <3>1, <4>1, ValidPart
      <4> QED
        BY <2>4, <2>5, <4>2
    <3>2. CASE limit # 0 /\ t[limit] = "L"
      <4>1. limit - 1 \in 0 .. Len(t) /\ limit - 1 \in 0 .. limit
        BY <1>1, <1>3, <3>2
      <4>2. limit - 1 = 0 \/ t[limit - 1] # "L"
        <5> SUFFICES ASSUME limit - 1 # 0, t[limit - 1] = "L" PROVE FALSE
          OBVIOUS
        <5>1. limit - 1 \in DOMAIN t
          BY <1>1, <4>1
        <5>2. t[(limit - 1) + 1] = "C"
          BY <2>7, <5>1 DEF Valid
        <5> QED
          BY <3>2, <5>2
      <4>3. Valid(SubSeq(t, 1, limit - 1))
        BY <2>7, <4>1, <4>2, ValidPart
      <4> QED
        BY <2>5, <4>1, <4>3
    <3> QED
      BY <3>1, <3>2
  <2> QED
    BY <2>4, <2>6, <2>7
<1> QED
  BY <1>2, <1>3

-----------------------------------------------------------------------------
(***************************************************************************)
(* FlattenSeq.  What it joins is found in the result, in order.            *)
(***************************************************************************)

\* g[i] joins the first i of ss, up to the m-th.
Joins(ss, g, m) ==
    /\ g = [i \in 1 .. m |-> g[i]]
    /\ \A i \in 1 .. m : g[i] = IF i = 1 THEN ss[i] ELSE g[i - 1] \o ss[i]

\* A property of numbers that has no least exception has none.
LEMMA NoLeast ==
    ASSUME NEW T \in SUBSET Nat, \A x \in T : \E y \in T : y < x
    PROVE  T = {}
<1> SUFFICES ASSUME T # {} PROVE FALSE
  OBVIOUS
<1>1. PICK x \in T : \A y \in T : ~(<<y, x>> \in OpToRel(<, Nat))
  BY NatLessThanWellFounded, WFMin
<1>2. PICK y \in T : y < x
  OBVIOUS
<1>3. <<y, x>> \in OpToRel(<, Nat)
  BY <1>2 DEF OpToRel
<1> QED
  BY <1>1, <1>3

LEMMA JoinsTo ==
    ASSUME NEW ss, NEW n \in Nat
    PROVE  \E g : Joins(ss, g, n)
<1> DEFINE T == {m \in 0 .. n : ~\E g : Joins(ss, g, m)}
<1>1. ASSUME NEW m \in T PROVE \E y \in T : y < m
  <2>1. m # 0
    <3>1. Joins(ss, [i \in 1 .. 0 |-> ss[i]], 0)
      BY DEF Joins
    <3> QED
      BY <3>1
  <2>2. CASE m - 1 \in T
    BY <2>2
  <2>3. CASE m - 1 \notin T
    <3>1. m - 1 \in 0 .. n /\ m \in Nat /\ m > 0
      BY <2>1
    <3>2. PICK h : Joins(ss, h, m - 1)
      BY <2>3, <3>1
    <3> DEFINE g == [i \in 1 .. m |-> IF i < m THEN h[i]
                                     ELSE IF m = 1 THEN ss[m] ELSE h[m - 1] \o ss[m]]
    <3>3. \A i \in 1 .. m - 1 : g[i] = h[i]
      BY <3>1
    <3>4. g[m] = IF m = 1 THEN ss[m] ELSE h[m - 1] \o ss[m]
      BY <3>1
    <3>5. g = [i \in 1 .. m |-> g[i]]
      OBVIOUS
    <3> HIDE DEF g
    <3>6. ASSUME NEW i \in 1 .. m PROVE g[i] = IF i = 1 THEN ss[i] ELSE g[i - 1] \o ss[i]
      <4>1. CASE i = m
        <5>1. m # 1 => g[m - 1] = h[m - 1]
          BY <3>1, <3>3
        <5> QED
          BY <3>4, <4>1, <5>1
      <4>2. CASE i # m
        <5>1. i \in 1 .. m - 1 /\ (i # 1 => i - 1 \in 1 .. m - 1)
          BY <3>1, <4>2
        <5>2. h[i] = IF i = 1 THEN ss[i] ELSE h[i - 1] \o ss[i]
          BY <3>2, <5>1 DEF Joins
        <5> QED
          BY <3>3, <5>1, <5>2
      <4> QED
        BY <4>1, <4>2
    <3>7. Joins(ss, g, m)
      BY <3>5, <3>6 DEF Joins
    <3> QED
      BY <3>7
  <2> QED
    BY <2>2, <2>3
<1>2. T \in SUBSET Nat
  OBVIOUS
<1> HIDE DEF T
<1>3. T = {}
  BY <1>1, <1>2, NoLeast
<1> QED
  BY <1>3 DEF T

LEMMA FlattenExpanded ==
    ASSUME NEW ss, Len(ss) # 0
    PROVE  FlattenSeq(ss) =
             (CHOOSE h : h = [i \in 1 .. Len(ss) |-> IF i = 1 THEN ss[i] ELSE h[i - 1] \o ss[i]])[Len(ss)]
BY Zenon DEF FlattenSeq

LEMMA FlattenIs ==
    ASSUME NEW X, NEW ss \in Seq(X), Len(ss) # 0
    PROVE  \E g : Joins(ss, g, Len(ss)) /\ FlattenSeq(ss) = g[Len(ss)]
<1> DEFINE f == CHOOSE h : h = [i \in 1 .. Len(ss) |-> IF i = 1 THEN ss[i] ELSE h[i - 1] \o ss[i]]
<1>1. Len(ss) \in Nat
  BY LenProperties
<1>2. PICK g : Joins(ss, g, Len(ss))
  BY <1>1, JoinsTo
<1>3. g = [i \in 1 .. Len(ss) |-> IF i = 1 THEN ss[i] ELSE g[i - 1] \o ss[i]]
  BY <1>2 DEF Joins
<1>4. f = [i \in 1 .. Len(ss) |-> IF i = 1 THEN ss[i] ELSE f[i - 1] \o ss[i]]
  BY <1>3
<1>5. FlattenSeq(ss) = f[Len(ss)]
  BY FlattenExpanded, Zenon
<1> HIDE DEF f
<1>6. Joins(ss, f, Len(ss))
  BY <1>4 DEF Joins
<1> QED
  BY <1>5, <1>6

\* t is in u, after its first o.
Part(t, u, o) == o \in Nat /\ o + Len(t) <= Len(u) /\ \A p \in 1 .. Len(t) : u[o + p] = t[p]

LEMMA Concatenated ==
    ASSUME NEW X, NEW u \in Seq(X), NEW x \in Seq(X)
    PROVE  /\ Len(u) \in Nat /\ Len(x) \in Nat
           /\ u \o x \in Seq(X) /\ Len(u \o x) = Len(u) + Len(x)
           /\ \A p \in 1 .. Len(u) : (u \o x)[p] = u[p]
           /\ \A p \in 1 .. Len(x) : (u \o x)[Len(u) + p] = x[p]
BY ConcatProperties, LenProperties

LEMMA PartGrows ==
    ASSUME NEW X, NEW t \in Seq(X), NEW u \in Seq(X), NEW x \in Seq(X), NEW o, Part(t, u, o)
    PROVE  Part(t, u \o x, o)
<1> DEFINE y == u \o x
<1>1. /\ Len(t) \in Nat /\ Len(u) \in Nat /\ Len(x) \in Nat
      /\ Len(y) = Len(u) + Len(x) /\ \A p \in 1 .. Len(u) : y[p] = u[p]
  BY Concatenated
<1> HIDE DEF y
<1>2. \A p \in 1 .. Len(t) : o + p \in 1 .. Len(u)
  BY <1>1 DEF Part
<1>3. Part(t, y, o)
  BY <1>1, <1>2 DEF Part
<1> QED
  BY <1>3 DEF y

LEMMA PartEnds ==
    ASSUME NEW X, NEW u \in Seq(X), NEW x \in Seq(X)
    PROVE  Part(x, u \o x, Len(u)) /\ Part(u, u \o x, 0)
<1> DEFINE y == u \o x
<1>1. /\ Len(u) \in Nat /\ Len(x) \in Nat
      /\ Len(y) = Len(u) + Len(x) /\ \A p \in 1 .. Len(u) : y[p] = u[p]
      /\ \A p \in 1 .. Len(x) : y[Len(u) + p] = x[p]
  BY Concatenated
<1> HIDE DEF y
<1>2. Part(x, y, Len(u)) /\ Part(u, y, 0)
  BY <1>1 DEF Part
<1> QED
  BY <1>2 DEF y

\* A part of a part.
LEMMA PartOfPart ==
    ASSUME NEW X, NEW t \in Seq(X), NEW u \in Seq(X), NEW x \in Seq(X), NEW o, NEW p,
           Part(t, u, o), Part(u, x, p)
    PROVE  Part(t, x, p + o)
<1>1. Len(t) \in Nat /\ Len(u) \in Nat /\ Len(x) \in Nat
  BY LenProperties
<1>2. \A k \in 1 .. Len(t) : o + k \in 1 .. Len(u)
  BY <1>1 DEF Part
<1>3. ASSUME NEW k \in 1 .. Len(t) PROVE x[(p + o) + k] = t[k]
  <2>1. x[p + (o + k)] = u[o + k] /\ u[o + k] = t[k]
    BY <1>2 DEF Part
  <2>2. (p + o) + k = p + (o + k)
    BY DEF Part
  <2> QED
    BY <2>1, <2>2
<1> QED
  BY <1>1, <1>3 DEF Part

\* Adding the same at the end.
PartAtEnd(t, u, o) == Part(t, u, o) /\ Len(u) = o + Len(t)

LEMMA PartExtends ==
    ASSUME NEW X, NEW t \in Seq(X), NEW u \in Seq(X), NEW x \in Seq(X), NEW o,
           PartAtEnd(t, u, o)
    PROVE  PartAtEnd(t \o x, u \o x, o)
<1> DEFINE m == Len(t)
<1>a. /\ Len(u) \in Nat /\ Len(x) \in Nat /\ Len(u \o x) = Len(u) + Len(x)
      /\ \A p \in 1 .. Len(u) : (u \o x)[p] = u[p]
      /\ \A p \in 1 .. Len(x) : (u \o x)[Len(u) + p] = x[p]
  BY Concatenated
<1>b. /\ m \in Nat /\ Len(t \o x) = m + Len(x)
      /\ \A p \in 1 .. m : (t \o x)[p] = t[p]
      /\ \A p \in 1 .. Len(x) : (t \o x)[m + p] = x[p]
  BY Concatenated
<1> DEFINE y == u \o x
           z == t \o x
<1>0. /\ Len(y) = Len(u) + Len(x) /\ \A p \in 1 .. Len(u) : y[p] = u[p]
      /\ \A p \in 1 .. Len(x) : y[Len(u) + p] = x[p]
  BY <1>a, Zenon
<1>1. /\ m \in Nat /\ Len(u) \in Nat /\ Len(x) \in Nat
      /\ Len(z) = m + Len(x) /\ \A p \in 1 .. m : z[p] = t[p]
      /\ \A p \in 1 .. Len(x) : z[m + p] = x[p]
  BY <1>a, <1>b, Zenon
<1>2. o \in Nat /\ \A p \in 1 .. m : u[o + p] = t[p]
  BY DEF Part, PartAtEnd
<1>3. Len(u) = o + m
  BY DEF PartAtEnd
<1> HIDE DEF y, z, m
<1>4. ASSUME NEW p \in 1 .. Len(z) PROVE y[o + p] = z[p]
  <2>1. CASE p <= m
    <3>1. p \in 1 .. m /\ o + p \in 1 .. Len(u)
      BY <1>1, <1>2, <1>3, <2>1
    <3> QED
      BY <1>0, <1>1, <1>2, <3>1
  <2>2. CASE ~(p <= m)
    <3> DEFINE k == Len(x)
    <3>0. p \in 1 .. m + k /\ k \in Nat /\ m \in Nat /\ o \in Nat
      BY <1>1, <1>2
    <3> HIDE DEF k
    <3>1. p - m \in 1 .. k /\ m + (p - m) = p /\ Len(u) + (p - m) = o + p
      BY <1>3, <2>2, <3>0
    <3>2. y[Len(u) + (p - m)] = x[p - m] /\ z[m + (p - m)] = x[p - m]
      BY <1>0, <1>1, <3>1 DEF k
    <3> QED
      BY <3>1, <3>2
  <2> QED
    BY <2>1, <2>2
<1>5. PartAtEnd(z, y, o)
  BY <1>0, <1>1, <1>2, <1>3, <1>4 DEF Part, PartAtEnd
<1> QED
  BY <1>5 DEF y, z

\* Nothing is a part of everything.
LEMMA NoPart ==
    ASSUME NEW X, NEW u \in Seq(X), NEW o \in 0 .. Len(u)
    PROVE  Part(<<>>, u, o)
BY LenProperties DEF Part

LEMMA JoinsType ==
    ASSUME NEW X, NEW n \in Nat, NEW ss, \A i \in 1 .. n : ss[i] \in Seq(X),
           NEW g, Joins(ss, g, n)
    PROVE  \A i \in 1 .. n : g[i] \in Seq(X)
<1> DEFINE T == {i \in 1 .. n : g[i] \notin Seq(X)}
<1>1. ASSUME NEW i \in T PROVE \E y \in T : y < i
  <2>0. i \in 1 .. n /\ ss[i] \in Seq(X) /\ g[i] = IF i = 1 THEN ss[i] ELSE g[i - 1] \o ss[i]
    BY DEF Joins
  <2>1. i # 1
    BY <2>0
  <2>2. i - 1 \in 1 .. n /\ g[i] = g[i - 1] \o ss[i]
    <3>1. i \in 1 .. n
      OBVIOUS
    <3>2. i - 1 \in 1 .. n
      BY <2>1, <3>1
    <3>3. g[i] = g[i - 1] \o ss[i]
      BY <2>0, <2>1, Zenon
    <3> QED
      BY <3>2, <3>3
  <2>3. i - 1 \in T
    <3>1. ss[i] \in Seq(X)
      OBVIOUS
    <3>2. g[i - 1] \in Seq(X) => g[i - 1] \o ss[i] \in Seq(X)
      BY <3>1, ConcatProperties
    <3> QED
      BY <2>2, <3>2
  <2> QED
    BY <2>3
<1>2. T \in SUBSET Nat
  OBVIOUS
<1> HIDE DEF T
<1>3. T = {}
  BY <1>1, <1>2, NoLeast
<1> QED
  BY <1>3 DEF T

\* Each of the sequences is a part of what they are joined to.
LEMMA ElementPart ==
    ASSUME NEW X, NEW n \in Nat, NEW ss, \A i \in 1 .. n : ss[i] \in Seq(X),
           NEW g, Joins(ss, g, n), NEW k \in 1 .. n
    PROVE  \E o \in Nat : Part(ss[k], g[n], o)
<1>1. \A i \in 1 .. n : g[i] \in Seq(X)
  BY JoinsType
<1> DEFINE T == {i \in k .. n : ~\E o \in Nat : Part(ss[k], g[i], o)}
<1>2. ASSUME NEW i \in T PROVE \E y \in T : y < i
  <2>0. i \in 1 .. n /\ k <= i /\ i \in Int /\ k \in Int /\ 1 <= k
    OBVIOUS
  <2>1. CASE i = k
    <3>1. CASE k = 1
      <4>1. g[k] = ss[k]
        BY <3>1 DEF Joins
      <4>2. Part(ss[k], g[k], 0)
        BY <4>1, LenProperties DEF Part
      <4> QED
        BY <2>1, <4>2
    <3>2. CASE k # 1
      <4>1. k - 1 \in 1 .. n
        BY <2>0, <3>2
      <4>2. g[k] = g[k - 1] \o ss[k]
        BY <3>2 DEF Joins
      <4>3. g[k - 1] \in Seq(X) /\ ss[k] \in Seq(X)
        BY <1>1, <4>1
      <4>4. Part(ss[k], g[k], Len(g[k - 1]))
        BY <4>2, <4>3, PartEnds
      <4>5. Len(g[k - 1]) \in Nat
        BY <4>3, LenProperties
      <4> QED
        BY <2>1, <4>4, <4>5
    <3> QED
      BY <3>1, <3>2
  <2>2. CASE i # k
    <3>1. i - 1 \in 1 .. n /\ i - 1 \in k .. n /\ i - 1 < i /\ i # 1
      BY <2>0, <2>2
    <3>2. g[i] = g[i - 1] \o ss[i]
      BY <2>0, <3>1 DEF Joins
    <3>3. g[i - 1] \in Seq(X) /\ ss[k] \in Seq(X) /\ ss[i] \in Seq(X)
      BY <1>1, <2>0, <3>1
    <3>4. ASSUME NEW o \in Nat, Part(ss[k], g[i - 1], o) PROVE FALSE
      <4>1. Part(ss[k], g[i], o)
        BY <3>2, <3>3, <3>4, PartGrows
      <4> QED
        BY <4>1
    <3>5. i - 1 \in T
      BY <3>1, <3>4
    <3> QED
      BY <3>1, <3>5
  <2> QED
    BY <2>1, <2>2
<1>3. T \in SUBSET Nat
  OBVIOUS
<1> HIDE DEF T
<1>4. T = {}
  BY <1>2, <1>3, NoLeast
<1> QED
  BY <1>4 DEF T

\* So is what an interval of them is joined to.
Only(ss, tt, n, k, l) == \A i \in 1 .. n : tt[i] = IF i \in k .. l THEN ss[i] ELSE <<>>

LEMMA IntervalPart ==
    ASSUME NEW X, NEW n \in Nat, NEW ss, \A i \in 1 .. n : ss[i] \in Seq(X),
           NEW k \in 1 .. n, NEW l \in k .. n, NEW tt, Only(ss, tt, n, k, l),
           NEW g, Joins(ss, g, n), NEW h, Joins(tt, h, n)
    PROVE  \E o \in Nat : Part(h[n], g[n], o)
<1>1. \A i \in 1 .. n : g[i] \in Seq(X)
  BY JoinsType
<1>2. \A i \in 1 .. n : tt[i] \in Seq(X)
  <2>1. <<>> \in Seq(X)
    OBVIOUS
  <2> QED
    BY <2>1 DEF Only
<1>3. \A i \in 1 .. n : h[i] \in Seq(X)
  BY <1>2, JoinsType
<1>4. /\ k \in Int /\ l \in Int /\ 1 <= k /\ k <= l /\ l <= n
      /\ \A i \in 1 .. n : g[i] = IF i = 1 THEN ss[i] ELSE g[i - 1] \o ss[i]
      /\ \A i \in 1 .. n : h[i] = IF i = 1 THEN tt[i] ELSE h[i - 1] \o tt[i]
  <2>1. k \in Int /\ l \in Int /\ 1 <= k /\ k <= l /\ l <= n
    OBVIOUS
  <2>2. \A i \in 1 .. n : g[i] = IF i = 1 THEN ss[i] ELSE g[i - 1] \o ss[i]
    BY DEF Joins
  <2>3. \A i \in 1 .. n : h[i] = IF i = 1 THEN tt[i] ELSE h[i - 1] \o tt[i]
    BY DEF Joins
  <2> QED
    BY <2>1, <2>2, <2>3
<1> DEFINE o == IF k = 1 THEN 0 ELSE Len(g[k - 1])
           P(i) == /\ i < k => h[i] = <<>>
                   /\ k <= i /\ i <= l => PartAtEnd(h[i], g[i], o)
                   /\ l < i => Part(h[i], g[i], o)
           T == {i \in 1 .. n : ~P(i)}
<1>5. o \in Nat
  <2>1. k # 1 => k - 1 \in 1 .. n
    BY <1>4
  <2> QED
    BY <1>1, <2>1, LenProperties
<1>6. ASSUME NEW i \in T PROVE \E y \in T : y < i
  <2>0. i \in 1 .. n /\ i \in Int
    OBVIOUS
  <2>1. i # 1 => i - 1 \in 1 .. n /\ i - 1 < i
    BY <2>0
  <2>2. i # 1 => g[i] = g[i - 1] \o ss[i] /\ h[i] = h[i - 1] \o tt[i]
    BY <1>4, <2>0
  <2>3. SUFFICES ASSUME i # 1 => P(i - 1) PROVE P(i)
    <3>1. ~P(i)
      OBVIOUS
    <3>2. ASSUME i # 1, ~P(i - 1) PROVE \E y \in T : y < i
      <4>1. i - 1 \in T
        BY <2>1, <3>2
      <4> QED
        BY <2>1, <3>2, <4>1
    <3> QED
      BY <2>3, <3>1, <3>2
  <2>4. CASE i < k
    <3>1. tt[i] = <<>>
      BY <1>4, <2>0, <2>4 DEF Only
    <3>2. i # 1 => h[i - 1] = <<>>
      BY <1>4, <2>0, <2>1, <2>3, <2>4
    <3>3. h[i] = <<>>
      <4>1. CASE i = 1
        BY <1>4, <2>0, <3>1, <4>1
      <4>2. CASE i # 1
        BY <2>2, <3>1, <3>2, <4>2
      <4> QED
        BY <4>1, <4>2
    <3> QED
      BY <1>4, <2>0, <2>4, <3>3
  <2>5. CASE k <= i /\ i <= l
    <3>1. tt[i] = ss[i] /\ ss[i] \in Seq(X)
      BY <1>4, <2>0, <2>5 DEF Only
    <3>2. PartAtEnd(h[i], g[i], o)
      <4>1. CASE i = 1
        <5>1. h[i] = ss[i] /\ g[i] = ss[i] /\ o = 0
          BY <1>4, <2>0, <2>5, <3>1, <4>1
        <5>2. Part(ss[i], ss[i], 0) /\ Len(ss[i]) = 0 + Len(ss[i])
          BY <3>1, LenProperties DEF Part
        <5> QED
          BY <5>1, <5>2 DEF PartAtEnd
      <4>2. CASE i # 1 /\ i = k
        <5>1. h[i - 1] = <<>> /\ g[i - 1] \in Seq(X) /\ o = Len(g[i - 1])
          BY <1>1, <1>4, <2>0, <2>1, <2>3, <4>2
        <5> DEFINE u == g[i - 1]
        <5>2. PartAtEnd(<<>>, u, Len(u)) /\ <<>> \in Seq(X) /\ u \in Seq(X)
          BY <5>1, LenProperties DEF Part, PartAtEnd
        <5> HIDE DEF u
        <5>3. PartAtEnd(<<>> \o ss[i], u \o ss[i], Len(u))
          BY <3>1, <5>2, PartExtends
        <5> QED
          BY <2>2, <3>1, <4>2, <5>1, <5>3 DEF u
      <4>3. CASE i # 1 /\ i # k
        <5>1. PartAtEnd(h[i - 1], g[i - 1], o)
          BY <1>4, <2>0, <2>1, <2>3, <2>5, <4>3
        <5>2. h[i - 1] \in Seq(X) /\ g[i - 1] \in Seq(X)
          BY <1>1, <1>3, <2>1, <4>3
        <5>3. PartAtEnd(h[i - 1] \o ss[i], g[i - 1] \o ss[i], o)
          <6> HIDE DEF o
          <6> QED
            BY <3>1, <5>1, <5>2, PartExtends
        <5> QED
          BY <2>2, <3>1, <4>3, <5>3
      <4> QED
        BY <4>1, <4>2, <4>3
    <3> QED
      BY <1>4, <2>0, <2>5, <3>2
  <2>6. CASE l < i
    <3>1. tt[i] = <<>> /\ ss[i] \in Seq(X) /\ i # 1
      BY <1>4, <2>0, <2>6 DEF Only
    <3>2. h[i - 1] \in Seq(X) /\ g[i - 1] \in Seq(X)
      BY <1>1, <1>3, <2>1, <3>1
    <3>3. h[i] = h[i - 1]
      BY <2>2, <3>1, <3>2
    <3>4. Part(h[i - 1], g[i - 1], o)
      <4>1. CASE i - 1 <= l
        <5>1. k <= i - 1
          BY <1>4, <2>0, <2>6, <4>1
        <5> HIDE DEF o
        <5>2. PartAtEnd(h[i - 1], g[i - 1], o)
          BY <2>3, <3>1, <4>1, <5>1
        <5> QED
          BY <5>2 DEF PartAtEnd
      <4>2. CASE ~(i - 1 <= l)
        BY <1>4, <2>0, <2>3, <3>1, <4>2
      <4> QED
        BY <4>1, <4>2
    <3>5. Part(h[i], g[i], o)
      <4> HIDE DEF o
      <4> QED
        BY <2>2, <3>1, <3>2, <3>3, <3>4, PartGrows
    <3> QED
      BY <1>4, <2>0, <2>6, <3>5
  <2> QED
    BY <1>4, <2>0, <2>4, <2>5, <2>6
<1>7. T \in SUBSET Nat
  OBVIOUS
<1> HIDE DEF T
<1>8. T = {}
  BY <1>6, <1>7, NoLeast
<1>9. P(n)
  BY <1>4, <1>8 DEF T
<1>10. Part(h[n], g[n], o)
  <2> HIDE DEF o
  <2>1. k <= n /\ (n <= l \/ l < n)
    BY <1>4
  <2>2. PartAtEnd(h[n], g[n], o) \/ Part(h[n], g[n], o)
    BY <1>9, <2>1
  <2> QED
    BY <2>2 DEF PartAtEnd
<1> QED
  BY <1>5, <1>10

-----------------------------------------------------------------------------
(***************************************************************************)
(* The tree of a page: what an element contains is it and the elements     *)
(* after it, up to some last one.                                          *)
(***************************************************************************)

Tree ==
    /\ nodes \in [Nodes -> Node]
    /\ nodes[Body].up = 0 /\ "block" \notin nodes[Body].kinds
    /\ \A n \in Nodes \ {Body} : nodes[n].up \in 1 .. n - 1 /\ Inside(n - 1, nodes[n].up)

InsideOf(g, n, m) ==
    /\ g = [j \in 0 .. m |-> g[j]]
    /\ \A j \in 0 .. m : g[j] = (j # 0 /\ (j = n \/ g[nodes[j].up]))

LEMMA ContainsTo ==
    ASSUME Tree, NEW n
    PROVE  \E g : InsideOf(g, n, MaxNodes)
<1>0. MaxNodes \in Nat /\ \A m \in Nodes : m \in 1 .. MaxNodes /\ nodes[m].up \in 0 .. m - 1
  BY PageAssumption DEF Nodes, Tree, Body
<1> DEFINE T == {m \in 0 .. MaxNodes : ~\E g : InsideOf(g, n, m)}
<1>1. ASSUME NEW m \in T PROVE \E y \in T : y < m
  <2>1. m # 0
    <3> DEFINE g == [j \in 0 .. 0 |-> FALSE]
    <3>1. g = [j \in 0 .. 0 |-> g[j]] /\ \A j \in 0 .. 0 : j = 0 /\ g[j] = FALSE
      OBVIOUS
    <3> HIDE DEF g
    <3>2. \A j \in 0 .. 0 : g[j] = (j # 0 /\ (j = n \/ g[nodes[j].up]))
      BY <3>1
    <3>3. InsideOf(g, n, 0)
      BY <3>1, <3>2 DEF InsideOf
    <3> QED
      BY <3>3
  <2>2. CASE m - 1 \in T
    BY <1>0, <2>2
  <2>3. CASE m - 1 \notin T
    <3>1. m - 1 \in 0 .. MaxNodes /\ m \in Nat /\ m > 0 /\ m \in Nodes
      BY <1>0, <2>1 DEF Nodes
    <3>2. PICK h : InsideOf(h, n, m - 1)
      BY <2>3, <3>1
    <3> DEFINE g == [j \in 0 .. m |-> IF j < m THEN h[j] ELSE m = n \/ h[nodes[m].up]]
    <3>3. \A j \in 0 .. m - 1 : g[j] = h[j]
      BY <3>1
    <3>4. g[m] = (m = n \/ h[nodes[m].up])
      BY <3>1
    <3>5. g = [j \in 0 .. m |-> g[j]]
      OBVIOUS
    <3> HIDE DEF g
    <3>6. ASSUME NEW j \in 0 .. m PROVE g[j] = (j # 0 /\ (j = n \/ g[nodes[j].up]))
      <4>1. CASE j = m
        <5>1. nodes[m].up \in 0 .. m - 1
          BY <1>0, <3>1
        <5> QED
          BY <3>1, <3>3, <3>4, <4>1, <5>1
      <4>2. CASE j # m
        <5>1. j \in 0 .. m - 1
          BY <3>1, <4>2
        <5>2. h[j] = (j # 0 /\ (j = n \/ h[nodes[j].up]))
          BY <3>2, <5>1 DEF InsideOf
        <5>3. j # 0 => nodes[j].up \in 0 .. m - 1
          BY <1>0, <3>1, <5>1 DEF Nodes
        <5> QED
          BY <3>3, <5>1, <5>2, <5>3
      <4> QED
        BY <4>1, <4>2
    <3>7. InsideOf(g, n, m)
      BY <3>5, <3>6 DEF InsideOf
    <3> QED
      BY <3>7
  <2> QED
    BY <2>2, <2>3
<1>2. T \in SUBSET Nat
  BY <1>0
<1> HIDE DEF T
<1>3. T = {}
  BY <1>1, <1>2, NoLeast
<1> QED
  BY <1>0, <1>3 DEF T

LEMMA InsideIs ==
    ASSUME Tree, NEW n
    PROVE  /\ ~Inside(0, n)
           /\ \A j \in Nodes : Inside(j, n) <=> j = n \/ Inside(nodes[j].up, n)
<1> DEFINE f == CHOOSE h : h = [j \in 0 .. MaxNodes |-> j # 0 /\ (j = n \/ h[nodes[j].up])]
<1>1. PICK g : InsideOf(g, n, MaxNodes)
  BY ContainsTo
<1>2. g = [j \in 0 .. MaxNodes |-> j # 0 /\ (j = n \/ g[nodes[j].up])]
  BY <1>1 DEF InsideOf
<1>3. f = [j \in 0 .. MaxNodes |-> j # 0 /\ (j = n \/ f[nodes[j].up])]
  BY <1>2
<1>4. \A j : Inside(j, n) = f[j]
  BY DEF Inside
<1> HIDE DEF f
<1>5. \A j \in 0 .. MaxNodes : f[j] = (j # 0 /\ (j = n \/ f[nodes[j].up]))
  BY <1>3
<1>6. 0 \in 0 .. MaxNodes /\ \A j \in Nodes : j \in 0 .. MaxNodes /\ j # 0
  BY PageAssumption DEF Nodes
<1> QED
  BY <1>4, <1>5, <1>6

\* Elements in an element come after it, and the body contains them all.
LEMMA InsideAfter ==
    ASSUME Tree, NEW n \in Nodes
    PROVE  \A j \in Nodes : Inside(j, n) => n <= j
<1>0. \A j \in Nodes : j \in Nat /\ nodes[j].up \in 0 .. j - 1 /\ (nodes[j].up # 0 => nodes[j].up \in Nodes)
  BY PageAssumption DEF Nodes, Tree, Body
<1> DEFINE T == {j \in Nodes : Inside(j, n) /\ ~(n <= j)}
<1>1. ASSUME NEW j \in T PROVE \E y \in T : y < j
  <2>1. j \in Nodes /\ Inside(j, n) /\ j < n /\ n \in Nat /\ j \in Nat
    BY <1>0
  <2>2. Inside(nodes[j].up, n)
    BY <2>1, InsideIs
  <2>3. nodes[j].up # 0
    BY <2>2, InsideIs
  <2>4. nodes[j].up \in Nodes /\ nodes[j].up < j
    BY <1>0, <2>1, <2>3
  <2>5. nodes[j].up \in T
    BY <1>0, <2>1, <2>2, <2>4
  <2> QED
    BY <2>4, <2>5
<1>2. T \in SUBSET Nat
  BY <1>0
<1> HIDE DEF T
<1>3. T = {}
  BY <1>1, <1>2, NoLeast
<1> QED
  BY <1>3 DEF T

LEMMA InsideBody ==
    ASSUME Tree
    PROVE  Body \in Nodes /\ \A j \in Nodes : Inside(j, Body)
<1>0. \A j \in Nodes : j \in Nat /\ (j # Body => nodes[j].up \in Nodes /\ nodes[j].up < j)
  BY PageAssumption DEF Nodes, Tree, Body
<1> DEFINE T == {j \in Nodes : ~Inside(j, Body)}
<1>1. ASSUME NEW j \in T PROVE \E y \in T : y < j
  <2>1. j # Body /\ ~Inside(nodes[j].up, Body)
    BY InsideIs
  <2> QED
    BY <1>0, <2>1
<1>2. T \in SUBSET Nat
  BY <1>0
<1> HIDE DEF T
<1>3. T = {}
  BY <1>1, <1>2, NoLeast
<1>4. Body \in Nodes
  BY PageAssumption DEF Nodes, Body
<1> QED
  BY <1>3, <1>4 DEF T

LEMMA InsideInside ==
    ASSUME Tree, NEW n, NEW m \in Nodes, Inside(m, n)
    PROVE  \A j \in Nodes : Inside(j, m) => Inside(j, n)
<1>0. \A j \in Nodes : j \in Nat /\ nodes[j].up \in 0 .. j - 1 /\ (nodes[j].up # 0 => nodes[j].up \in Nodes)
  BY PageAssumption DEF Nodes, Tree, Body
<1> DEFINE T == {j \in Nodes : Inside(j, m) /\ ~Inside(j, n)}
<1>1. ASSUME NEW j \in T PROVE \E y \in T : y < j
  <2>1. j \in Nodes /\ Inside(j, m) /\ ~Inside(j, n)
    OBVIOUS
  <2>2. j # m
    BY <2>1
  <2>3. Inside(nodes[j].up, m) /\ ~Inside(nodes[j].up, n)
    BY <2>1, <2>2, InsideIs
  <2>4. nodes[j].up # 0
    BY <2>3, InsideIs
  <2>5. nodes[j].up \in Nodes /\ nodes[j].up < j
    BY <1>0, <2>1, <2>4
  <2> QED
    BY <2>3, <2>5
<1>2. T \in SUBSET Nat
  BY <1>0
<1> HIDE DEF T
<1>3. T = {}
  BY <1>1, <1>2, NoLeast
<1> QED
  BY <1>3 DEF T

\* An element contains the elements from it to a last one.
LEMMA InsideInterval ==
    ASSUME Tree, NEW n \in Nodes
    PROVE  \E l \in n .. MaxNodes : \A j \in Nodes : Inside(j, n) <=> j \in n .. l
<1> DEFINE S == {j \in Nodes : Inside(j, n)}
           l == Max(S)
<1>0. MaxNodes \in Nat /\ Nodes = 1 .. MaxNodes
  BY PageAssumption DEF Nodes
<1>1. n \in S
  BY InsideIs
<1>2. l \in S /\ \A j \in S : j <= l
  <2>1. S \in SUBSET (0 .. MaxNodes) /\ S # {}
    BY <1>0, <1>1
  <2> HIDE DEF S
  <2> QED
    BY <1>0, <2>1, MaxIs
<1> HIDE DEF l
<1>3. l \in n .. MaxNodes /\ l \in Nodes
  BY <1>0, <1>1, <1>2
<1>4. \A j \in Nodes : j \in S => j \in n .. l
  BY <1>0, <1>2, InsideAfter
<1> DEFINE T == {j \in Nat : j <= l - n /\ l - j \notin S}
<1>5. ASSUME NEW j \in T PROVE \E y \in T : y < j
  <2>1. j # 0
    BY <1>2, <1>3
  <2>2. j - 1 \in Nat /\ j - 1 <= l - n /\ j - 1 < j /\ l - (j - 1) \in Nodes
        /\ l - (j - 1) - 1 = l - j /\ l - (j - 1) # n /\ l - (j - 1) # Body /\ l - j \in Nodes
    BY <1>0, <1>3, <2>1 DEF Body
  <2> DEFINE i == l - (j - 1)
  <2>3. i \in Nodes /\ i # n /\ i # Body /\ i - 1 = l - j /\ i - 1 \in Nodes
    BY <2>2
  <2> HIDE DEF i
  <2>4. i \notin S
    <3> SUFFICES ASSUME Inside(i, n) PROVE FALSE
      OBVIOUS
    <3>1. Inside(nodes[i].up, n)
      BY <2>3, InsideIs
    <3>2. nodes[i].up \in Nodes /\ Inside(i - 1, nodes[i].up)
      BY <1>0, <2>3 DEF Tree
    <3>3. Inside(i - 1, n)
      BY <2>3, <3>1, <3>2, InsideInside
    <3> QED
      BY <2>3, <3>3
  <2>5. j - 1 \in T
    BY <2>2, <2>4 DEF i
  <2> QED
    BY <2>2, <2>5
<1>6. T \in SUBSET Nat
  OBVIOUS
<1> HIDE DEF T
<1>7. T = {}
  BY <1>5, <1>6, NoLeast
<1>8. ASSUME NEW j \in n .. l PROVE j \in S
  <2>1. l - j \in Nat /\ l - j <= l - n /\ l - (l - j) = j
    BY <1>0, <1>3
  <2> QED
    BY <1>7, <2>1 DEF T
<1> QED
  BY <1>3, <1>4, <1>8

-----------------------------------------------------------------------------
(***************************************************************************)
(* The text of an element, and what is read of the page.                   *)
(***************************************************************************)

Own(n) == [i \in Nodes |-> IF Live(i) /\ Inside(i, n) THEN nodes[i].text ELSE <<>>]

LEMMA TextIs ==
    ASSUME Tree, NEW n
    PROVE  /\ MaxNodes \in Nat /\ Nodes = 1 .. MaxNodes
           /\ \A i \in 1 .. MaxNodes : Own(n)[i] \in Seq(Bytes)
           /\ \E g : Joins(Own(n), g, MaxNodes) /\ Text(n) = g[MaxNodes]
           /\ Text(n) \in Seq(Bytes)
<1>1. MaxNodes \in Nat /\ MaxNodes # 0 /\ Nodes = 1 .. MaxNodes
  BY PageAssumption DEF Nodes
<1>2. \A i \in Nodes : nodes[i].text \in Seq(Bytes)
  BY PageAssumption DEF Tree, Node
<1>3. \A i \in Nodes : Own(n)[i] \in Seq(Bytes)
  <2>1. <<>> \in Seq(Bytes)
    OBVIOUS
  <2> QED
    BY <1>2, <2>1 DEF Own
<1>4. Own(n) \in Seq(Seq(Bytes)) /\ Len(Own(n)) = MaxNodes
  <2>1. Own(n) \in [1 .. MaxNodes -> Seq(Bytes)]
    BY <1>1, <1>3 DEF Own
  <2> QED
    BY <1>1, <2>1
<1>5. Text(n) = FlattenSeq(Own(n))
  BY DEF Text, Own
<1>6. PICK g : Joins(Own(n), g, MaxNodes) /\ Text(n) = g[MaxNodes]
  BY <1>1, <1>4, <1>5, FlattenIs
<1>7. \A i \in 1 .. MaxNodes : Own(n)[i] \in Seq(Bytes)
  BY <1>1, <1>3
<1>8. Text(n) \in Seq(Bytes)
  <2>1. \A i \in 1 .. MaxNodes : g[i] \in Seq(Bytes)
    BY <1>1, <1>6, <1>7, JoinsType
  <2> QED
    BY <1>1, <1>6, <2>1
<1> QED
  BY <1>1, <1>6, <1>7, <1>8

\* The text of an element is a part of that of the body.
LEMMA TextInBody ==
    ASSUME Tree, NEW n \in Nodes
    PROVE  \E o \in Nat : Part(Text(n), Text(Body), o)
<1>1. /\ MaxNodes \in Nat /\ Nodes = 1 .. MaxNodes
      /\ \A i \in 1 .. MaxNodes : Own(Body)[i] \in Seq(Bytes)
  BY TextIs
<1>2. PICK g : Joins(Own(Body), g, MaxNodes) /\ Text(Body) = g[MaxNodes]
  BY TextIs
<1>3. PICK h : Joins(Own(n), h, MaxNodes) /\ Text(n) = h[MaxNodes]
  BY TextIs
<1>4. PICK l \in n .. MaxNodes : \A j \in Nodes : Inside(j, n) <=> j \in n .. l
  BY InsideInterval
<1>5. Only(Own(Body), Own(n), MaxNodes, n, l)
  BY <1>1, <1>4, InsideBody DEF Only, Own
<1>6. \E o \in Nat : Part(h[MaxNodes], g[MaxNodes], o)
  BY <1>1, <1>2, <1>3, <1>5, IntervalPart
<1> QED
  BY <1>2, <1>3, <1>6

\* So is the own text of each element that is left.
LEMMA OwnInText ==
    ASSUME Tree, NEW n \in Nodes, Live(n)
    PROVE  nodes[n].text \in Seq(Bytes) /\ \E o \in Nat : Part(nodes[n].text, Text(n), o)
<1>1. /\ MaxNodes \in Nat /\ Nodes = 1 .. MaxNodes
      /\ \A i \in 1 .. MaxNodes : Own(n)[i] \in Seq(Bytes)
  BY TextIs
<1>2. PICK g : Joins(Own(n), g, MaxNodes) /\ Text(n) = g[MaxNodes]
  BY TextIs
<1>3. Own(n)[n] = nodes[n].text
  BY InsideIs DEF Own
<1>4. \E o \in Nat : Part(Own(n)[n], g[MaxNodes], o)
  BY <1>1, <1>2, ElementPart
<1> QED
  BY <1>1, <1>2, <1>3, <1>4

\* What an element contains is left only if the element is.
LEMMA LeftInside ==
    ASSUME Tree, NEW n \in Nodes, NEW m \in Nodes, Inside(n, m), Live(n)
    PROVE  Live(m)
<1>1. \A k \in Nodes : Inside(m, k) => Inside(n, k)
  BY InsideInside
<1> QED
  BY <1>1 DEF Live

\* Nothing is left of a body that is pruned.
LEMMA NothingLeft ==
    ASSUME Tree, ~Live(Body)
    PROVE  Text(Body) = <<>>
<1>1. MaxNodes \in Nat /\ MaxNodes # 0 /\ Nodes = 1 .. MaxNodes
  BY PageAssumption DEF Nodes
<1>2. PICK g : Joins(Own(Body), g, MaxNodes) /\ Text(Body) = g[MaxNodes]
  BY TextIs
<1>3. \A i \in 1 .. MaxNodes : Own(Body)[i] = <<>>
  BY <1>1, InsideBody, LeftInside DEF Own
<1> DEFINE T == {m \in 1 .. MaxNodes : g[m] # <<>>}
<1>4. ASSUME NEW m \in T PROVE \E y \in T : y < m
  <2>1. m # 1
    BY <1>2, <1>3 DEF Joins
  <2>2. m \in 1 .. MaxNodes /\ m - 1 \in 1 .. MaxNodes /\ m - 1 < m
    BY <1>1, <2>1
  <2> HIDE DEF T
  <2>6. g[m] = g[m - 1] \o Own(Body)[m]
    BY <1>2, <2>1, <2>2 DEF Joins
  <2>3. CASE g[m - 1] = <<>>
    <3>1. <<>> \o <<>> = <<>>
      OBVIOUS
    <3>2. g[m] = <<>>
      BY <1>3, <2>2, <2>3, <2>6, <3>1
    <3> QED
      BY <3>2 DEF T
  <2>4. CASE g[m - 1] # <<>>
    BY <2>2, <2>4 DEF T
  <2> QED
    BY <2>3, <2>4
<1>5. T \in SUBSET Nat
  BY <1>1
<1> HIDE DEF T
<1>6. T = {}
  BY <1>4, <1>5, NoLeast
<1> QED
  BY <1>1, <1>2, <1>6 DEF T

HasWords(t) == \E i \in 1 .. Len(t) : t[i] # "s"

LEMMA WordsStay ==
    ASSUME NEW t \in Seq(Bytes)
    PROVE  NormalizeText(t) # <<>> <=> HasWords(t)
<1> DEFINE n == Cardinality(Staying(t))
           N == NormalizeText(t)
<1>1. /\ n \in Nat /\ DOMAIN t = 1 .. Len(t) /\ Len(t) \in Nat
      /\ N \in Seq(Bytes) /\ Len(N) = n
      /\ \A k \in 1 .. n : Place1(t, k) \in Staying(t)
      /\ \A i \in Staying(t) : \E k \in 1 .. n : Place1(t, k) = i
  BY NormalIs
<1> HIDE DEF n, N
<1>2. N # <<>> <=> n # 0
  BY <1>1
<1>3. ASSUME n # 0 PROVE HasWords(t)
  <2>1. 1 \in 1 .. n
    BY <1>1, <1>3
  <2>2. PICK i \in 1 .. Len(t) : Stays(t, i)
    BY <1>1, <2>1 DEF Staying
  <2>3. \A j \in i .. Len(t) : j \in 1 .. Len(t)
    BY <1>1
  <2> QED
    BY <2>2, <2>3 DEF Stays, HasWords
<1>4. ASSUME HasWords(t) PROVE n # 0
  <2>1. PICK i \in Staying(t) : TRUE
    BY <1>1, <1>4 DEF HasWords, Staying, Stays
  <2>2. PICK k \in 1 .. n : Place1(t, k) = i
    BY <1>1
  <2> QED
    BY <1>1
<1> QED
  BY <1>2, <1>3, <1>4 DEF N

LEMMA PartWords ==
    ASSUME NEW X, NEW t \in Seq(X), NEW u \in Seq(X), NEW o \in Nat, Part(t, u, o), HasWords(t)
    PROVE  HasWords(u)
<1>1. Len(t) \in Nat /\ Len(u) \in Nat
  BY LenProperties
<1>2. PICK i \in 1 .. Len(t) : t[i] # "s"
  BY DEF HasWords
<1>3. o + i \in 1 .. Len(u) /\ u[o + i] # "s"
  BY <1>1, <1>2 DEF Part
<1> QED
  BY <1>3 DEF HasWords

\* The text of the html element is that of its head and its body.
LEMMA TextOfIs ==
    ASSUME Tree, head \in Heads, NEW r
    PROVE  /\ HeadText \in Seq(Bytes) /\ Text(Body) \in Seq(Bytes)
           /\ TextOf(r) \in Seq(Bytes)
           /\ HeadText = <<>> => HeadText \o Text(Body) = Text(Body)
           /\ HasWords(Text(Body)) => HasWords(HeadText \o Text(Body))
<1> DEFINE x == HeadText
           y == Text(Body)
<1>1. x \in Seq(Bytes)
  <2>1. head.text \in Seq(Bytes)
    BY PageAssumption DEF Heads
  <2>2. <<>> \in Seq(Bytes)
    OBVIOUS
  <2> QED
    BY <2>1, <2>2 DEF HeadText
<1>2. y \in Seq(Bytes) /\ Text(r) \in Seq(Bytes)
  BY TextIs
<1>3. x \o y \in Seq(Bytes)
  <2> HIDE DEF x, y
  <2> QED
    BY <1>1, <1>2
<1>4. TextOf(r) \in {x, x \o y, Text(r)}
  BY DEF TextOf
<1>5. x = <<>> => x \o y = y
  <2> HIDE DEF x, y
  <2> QED
    BY <1>1, <1>2
<1>6. HasWords(y) => HasWords(x \o y)
  <2> HIDE DEF x, y
  <2>1. Len(x) \in Nat /\ Part(y, x \o y, Len(x))
    BY <1>1, <1>2, PartEnds, LenProperties
  <2> QED
    BY <1>2, <1>3, <2>1, PartWords
<1> QED
  BY <1>1, <1>2, <1>3, <1>4, <1>5, <1>6

Below(n, r) == r \in {NoNode, DocHtml} \/ (n # r /\ Inside(n, r))
BlockWords(r) ==
    [n \in Nodes |-> IF Live(n) /\ "block" \in nodes[n].kinds /\ Below(n, r)
                     THEN NormalizeText(Text(n)) ELSE <<>>]
Firsts(r) ==
    {n \in Nodes : BlockWords(r)[n] # <<>>
                    /\ \A m \in 1 .. n - 1 : BlockWords(r)[m] # BlockWords(r)[n]}

\* The words of every block are among the blocks.
LEMMA BlocksAre ==
    ASSUME Tree, NEW r
    PROVE  /\ ExtractBlocks(r) \in Seq(Seq(Bytes))
           /\ \A k \in 1 .. Len(ExtractBlocks(r)) : ExtractBlocks(r)[k] # <<>>
           /\ \A n \in Nodes : BlockWords(r)[n] # <<>> =>
                \E k \in 1 .. Len(ExtractBlocks(r)) : ExtractBlocks(r)[k] = BlockWords(r)[n]
<1> DEFINE W == BlockWords(r)
           F == Firsts(r)
           B == ExtractBlocks(r)
           n == Cardinality(F)
<1>1. MaxNodes \in Nat /\ Nodes = 1 .. MaxNodes
  BY PageAssumption DEF Nodes
<1>2. \A i \in Nodes : W[i] \in Seq(Bytes)
  <2>1. \A i : NormalizeText(Text(i)) \in Seq(Bytes)
    BY TextIs, NormalIs
  <2>2. <<>> \in Seq(Bytes)
    OBVIOUS
  <2> QED
    BY <2>1, <2>2 DEF BlockWords
<1>3. B = InOrder(W, F, <)
  <2> DEFINE words(i) == IF Live(i) /\ "block" \in nodes[i].kinds /\ Below(i, r)
                         THEN NormalizeText(Text(i)) ELSE <<>>
             S == {i \in Nodes : words(i) # <<>> /\ \A m \in 1 .. i - 1 : words(m) # words(i)}
  <2>1. B = InOrder([i \in Nodes |-> words(i)], S, <)
    BY DEF ExtractBlocks, Below
  <2>2. W = [i \in Nodes |-> words(i)]
    BY DEF BlockWords
  <2>3. \A i \in Nodes : W[i] = words(i)
    BY DEF BlockWords
  <2>4. \A i \in Nodes : \A m \in 1 .. i - 1 : m \in Nodes
    BY <1>1
  <2> HIDE DEF words, W
  <2>5. S = {i \in Nodes : W[i] # <<>> /\ \A m \in 1 .. i - 1 : W[m] # W[i]}
    BY <2>3, <2>4
  <2>6. S = F
    BY <2>5 DEF Firsts, W
  <2> QED
    BY <2>1, <2>2, <2>6
<1>4. F \in SUBSET Nodes /\ \A i \in F : W[i] # <<>>
  BY DEF Firsts
<1>5. F \in SUBSET Int /\ IsFiniteSet(F)
  <2> HIDE DEF F
  <2>1. 1 \in Int /\ MaxNodes \in Int /\ F \in SUBSET (1 .. MaxNodes)
    BY <1>1, <1>4
  <2>2. IsFiniteSet(1 .. MaxNodes)
    BY <2>1, FS_Interval
  <2>3. IsFiniteSet(F)
    BY <2>1, <2>2, FS_Subset
  <2> QED
    BY <2>1, <2>3
<1>6. B = [k \in 1 .. n |-> W[Nth(F, Less, k)]]
  BY <1>3, <1>5, InNumberOrder
<1>7. /\ n \in Nat
      /\ \A k \in 1 .. n : Nth(F, Less, k) \in F
      /\ \A i \in F : \E k \in 1 .. n : Nth(F, Less, k) = i
  BY <1>5, LessOrders, NthIs
<1>8. ASSUME NEW i \in Nodes, W[i] # <<>>
      PROVE  \E j \in F : W[j] = W[i]
  <2> DEFINE T == {m \in Nodes : W[m] = W[i] /\ ~\E j \in F : W[j] = W[i]}
  <2>1. ASSUME NEW m \in T PROVE \E y \in T : y < m
    <3>1. m \in Nodes /\ W[m] = W[i] /\ m \notin F
      OBVIOUS
    <3>2. PICK y \in 1 .. m - 1 : W[y] = W[m]
      BY <1>8, <3>1 DEF Firsts
    <3>3. y \in Nodes /\ y < m
      BY <1>1, <3>1
    <3> QED
      BY <3>1, <3>2, <3>3
  <2>2. T \in SUBSET Nat
    BY <1>1
  <2>3. T = {}
    <3> HIDE DEF T
    <3> QED
      BY <2>1, <2>2, NoLeast
  <2> QED
    BY <2>3
<1> HIDE DEF n, W, F, B
<1>9. B \in [1 .. n -> Seq(Bytes)]
  BY <1>2, <1>4, <1>6, <1>7
<1>10. B \in Seq(Seq(Bytes)) /\ Len(B) = n
  BY <1>7, <1>9
<1>11. \A k \in 1 .. n : B[k] # <<>>
  BY <1>4, <1>6, <1>7
<1>12. ASSUME NEW i \in Nodes, W[i] # <<>> PROVE \E k \in 1 .. n : B[k] = W[i]
  <2>1. PICK j \in F : W[j] = W[i]
    BY <1>8, <1>12
  <2>2. PICK k \in 1 .. n : Nth(F, Less, k) = j
    BY <1>7
  <2> QED
    BY <1>6, <2>1, <2>2
<1> QED
  BY <1>10, <1>11, <1>12 DEF B, W

\* Every block is a part of what is read.
LEMMA ReadableIs ==
    ASSUME Tree, head \in Heads, NEW r
    PROVE  /\ Readable(r) \in Seq(Bytes)
           /\ \A k \in 1 .. Len(ExtractBlocks(r)) :
                \E o \in Nat : Part(ExtractBlocks(r)[k], Readable(r), o)
           /\ ExtractBlocks(r) = <<>> => Readable(r) = NormalizeText(TextOf(r))
<1> DEFINE B == ExtractBlocks(r)
           n == Len(B)
           lines == [k \in DOMAIN B |-> IF k = 1 THEN B[k] ELSE <<"s", "s">> \o B[k]]
<1>1. B \in Seq(Seq(Bytes)) /\ n \in Nat /\ DOMAIN B = 1 .. n /\ \A k \in 1 .. n : B[k] \in Seq(Bytes)
  <2>1. B \in Seq(Seq(Bytes))
    BY BlocksAre
  <2> HIDE DEF B
  <2> QED
    BY <2>1, LenProperties, ElementOfSeq
<1>2. CASE B = <<>>
  <2>1. Readable(r) = NormalizeText(TextOf(r))
    BY <1>2 DEF Readable
  <2>2. TextOf(r) \in Seq(Bytes)
    BY TextOfIs
  <2>3. NormalizeText(TextOf(r)) \in Seq(Bytes)
    BY <2>2, NormalIs
  <2>4. n = 0
    BY <1>2
  <2> HIDE DEF B, n
  <2>5. \A k \in 1 .. n : FALSE
    BY <2>4
  <2> QED
    BY <2>1, <2>3, <2>5 DEF B, n
<1>3. CASE B # <<>>
  <2>1. Readable(r) = FlattenSeq(lines)
    BY <1>3 DEF Readable
  <2> HIDE DEF B
  <2>2. n # 0
    BY <1>1, <1>3
  <2>3. <<"s", "s">> \in Seq(Bytes)
    BY DEF Bytes
  <2>4. \A k \in 1 .. n : <<"s", "s">> \o B[k] \in Seq(Bytes)
    BY <1>1, <2>3, Concatenated
  <2>5. \A k \in 1 .. n : lines[k] = (IF k = 1 THEN B[k] ELSE <<"s", "s">> \o B[k])
    BY <1>1
  <2>6. lines \in [1 .. n -> Seq(Bytes)]
    BY <1>1, <2>4
  <2> HIDE DEF lines, n
  <2>7. lines \in Seq(Seq(Bytes)) /\ Len(lines) = n /\ \A k \in 1 .. n : lines[k] \in Seq(Bytes)
    BY <1>1, <2>6
  <2>8. PICK g : Joins(lines, g, n) /\ Readable(r) = g[n]
    BY <2>1, <2>2, <2>7, FlattenIs
  <2>9. g[n] \in Seq(Bytes)
    <3>1. \A k \in 1 .. n : g[k] \in Seq(Bytes)
      BY <1>1, <2>7, <2>8, JoinsType
    <3> QED
      BY <1>1, <2>2, <3>1
  <2>10. ASSUME NEW k \in 1 .. n PROVE \E o \in Nat : Part(B[k], g[n], o)
    <3>1. PICK o \in Nat : Part(lines[k], g[n], o)
      BY <1>1, <2>7, <2>8, ElementPart
    <3>2. PICK p \in Nat : Part(B[k], lines[k], p)
      <4>1. CASE k = 1
        <5>1. lines[k] = B[k] /\ B[k] \in Seq(Bytes)
          BY <1>1, <2>5, <4>1
        <5>2. Part(B[k], B[k], 0)
          BY <5>1, LenProperties DEF Part
        <5> QED
          BY <5>1, <5>2
      <4>2. CASE k # 1
        <5>1. lines[k] = <<"s", "s">> \o B[k] /\ B[k] \in Seq(Bytes)
          BY <1>1, <2>5, <4>2
        <5> DEFINE x == B[k]
                   u == <<"s", "s">>
        <5>2. x \in Seq(Bytes) /\ u \in Seq(Bytes)
          BY <5>1, <2>3
        <5>3. Len(u) \in Nat
          BY <5>2, LenProperties
        <5> HIDE DEF x, u
        <5>4. Part(x, u \o x, Len(u))
          BY <5>2, PartEnds
        <5> QED
          BY <5>1, <5>3, <5>4 DEF x, u
      <4> QED
        BY <4>1, <4>2
    <3>3. B[k] \in Seq(Bytes) /\ lines[k] \in Seq(Bytes)
      BY <1>1, <2>7
    <3>4. Part(B[k], g[n], o + p)
      BY <2>9, <3>1, <3>2, <3>3, PartOfPart
    <3>5. o + p \in Nat
      OBVIOUS
    <3> QED
      BY <3>4, <3>5
  <2> QED
    BY <1>3, <2>8, <2>9, <2>10 DEF B, n
<1> QED
  BY <1>2, <1>3

-----------------------------------------------------------------------------
(***************************************************************************)
(* A part of a text has no more characters than the text.                  *)
(***************************************************************************)

Chars(t) == {i \in Staying(t) : ~Whole(t, i)}

LEMMA TextScoreIs ==
    ASSUME NEW t \in Seq(Bytes)
    PROVE  /\ IsFiniteSet(Chars(t))
           /\ TextScore(t) = Cardinality(Chars(t))
           /\ TextScore(t) \in Nat
           /\ NormalizeText(t) = <<>> => TextScore(t) = 0
<1> DEFINE n == Cardinality(Staying(t))
           N == NormalizeText(t)
           C == {k \in 1 .. n : ~Whole(N, k)}
           f == [k \in C |-> Place1(t, k)]
<1>1. /\ n \in Nat /\ IsFiniteSet(Staying(t)) /\ N \in Seq(Bytes) /\ Len(N) = n
      /\ Staying(t) \in SUBSET Int
      /\ \A k \in 1 .. n : Place1(t, k) \in Staying(t)
      /\ \A i \in Staying(t) : \E k \in 1 .. n : Place1(t, k) = i
      /\ \A k, l \in 1 .. n : Place1(t, k) < Place1(t, l) <=> k < l
  BY NormalIs
<1>2. \A k \in 1 .. n : Whole(N, k) <=> Whole(t, Place1(t, k))
  BY NormalWhole
<1>3. IsFiniteSet(Chars(t))
  BY <1>1, FS_Subset DEF Chars
<1>4. DOMAIN N = 1 .. n
  BY <1>1
<1>5. TextScore(t) = Cardinality({k \in DOMAIN N : ~Whole(N, k)})
  BY DEF TextScore, Quantify
<1>6. TextScore(t) = Cardinality(C)
  BY <1>4, <1>5
<1> HIDE DEF n, N
<1>7. f \in Bijection(C, Chars(t))
  <2>1. \A k \in C : Place1(t, k) \in Chars(t)
    BY <1>1, <1>2 DEF Chars
  <2>2. \A k, l \in C : Place1(t, k) = Place1(t, l) => k = l
    <3> SUFFICES ASSUME NEW k \in 1 .. n, NEW l \in 1 .. n, Place1(t, k) = Place1(t, l)
                 PROVE  k = l
      OBVIOUS
    <3>1. Place1(t, k) \in Int
      BY <1>1
    <3>2. ~(k < l) /\ ~(l < k)
      BY <1>1, <3>1
    <3> QED
      BY <1>1, <3>2
  <2>3. \A i \in Chars(t) : \E k \in C : Place1(t, k) = i
    BY <1>1, <1>2 DEF Chars
  <2> QED
    BY <2>1, <2>2, <2>3 DEF Bijection, Injection, Surjection, IsInjective
<1>8. IsFiniteSet(C)
  <2>1. 1 \in Int /\ n \in Int /\ C \in SUBSET (1 .. n)
    BY <1>1
  <2> QED
    BY <2>1, FS_Interval, FS_Subset
<1>9. Cardinality(C) = Cardinality(Chars(t))
  <2> HIDE DEF C, f
  <2> QED
    BY <1>7, <1>8, FS_Bijection DEF ExistsBijection
<1>10. N = <<>> => C = {}
  BY <1>1
<1>11. N = <<>> => TextScore(t) = 0
  <2> HIDE DEF C
  <2> QED
    BY <1>6, <1>10, FS_EmptySet
<1> QED
  BY <1>3, <1>6, <1>9, <1>11, FS_CardinalityType DEF N

LEMMA PartScore ==
    ASSUME NEW t \in Seq(Bytes), NEW u \in Seq(Bytes), NEW o \in Nat, Part(t, u, o)
    PROVE  TextScore(t) \in Nat /\ TextScore(u) \in Nat /\ TextScore(t) <= TextScore(u)
<1> DEFINE cut(i) == i = 1 /\ o > 0 /\ t[1] = "C" /\ u[o] = "L"
           at(i) == IF cut(i) THEN o ELSE o + i
           f == [i \in Chars(t) |-> at(i)]
<1>1. /\ Len(t) \in Nat /\ Len(u) \in Nat /\ DOMAIN t = 1 .. Len(t) /\ DOMAIN u = 1 .. Len(u)
      /\ o + Len(t) <= Len(u) /\ \A p \in 1 .. Len(t) : u[o + p] = t[p]
  BY LenProperties DEF Part
<1>2. \A i \in Chars(t) : i \in 1 .. Len(t) /\ Stays(t, i) /\ ~Whole(t, i)
  BY <1>1 DEF Chars, Staying
<1>3. ASSUME NEW i \in Chars(t) PROVE at(i) \in Chars(u)
  <2>0. i \in 1 .. Len(t) /\ i \in Int /\ Stays(t, i) /\ ~Whole(t, i)
    BY <1>2
  <2>1. CASE cut(i)
    <3>1. o \in 1 .. Len(u) /\ u[o] = "L"
      BY <1>1, <2>0, <2>1
    <3> QED
      BY <1>1, <2>1, <3>1 DEF Chars, Staying, Stays, Whole
  <2>2. CASE ~cut(i)
    <3>1. o + i \in 1 .. Len(u) /\ u[o + i] = t[i]
      BY <1>1, <2>0
    <3>2. i > 1 => u[(o + i) - 1] = t[i - 1] /\ o + i > 1
      <4>1. i > 1 => i - 1 \in 1 .. Len(t) /\ o + (i - 1) = (o + i) - 1
        BY <1>1, <2>0
      <4> QED
        BY <1>1, <2>0, <4>1
    <3>3. Stays(u, o + i)
      <4>1. CASE t[i] # "s"
        BY <3>1, <4>1 DEF Stays
      <4>2. CASE i > 1 /\ t[i - 1] # "s" /\ \E j \in i .. Len(t) : t[j] # "s"
        <5>1. PICK j \in i .. Len(t) : t[j] # "s"
          BY <4>2
        <5>2. j \in 1 .. Len(t) /\ o + j \in o + i .. Len(u)
          BY <1>1, <2>0
        <5>3. u[o + j] # "s"
          BY <1>1, <5>1, <5>2
        <5> QED
          BY <3>2, <4>2, <5>2, <5>3 DEF Stays
      <4> QED
        BY <2>0, <4>1, <4>2 DEF Stays
    <3>4. ~Whole(u, o + i)
      <4> SUFFICES ASSUME Whole(u, o + i) PROVE FALSE
        OBVIOUS
      <4>1. t[i] = "C" /\ o + i > 1 /\ u[(o + i) - 1] = "L"
        BY <3>1 DEF Whole
      <4>2. CASE i > 1
        BY <2>0, <3>2, <4>1, <4>2 DEF Whole
      <4>3. CASE ~(i > 1)
        <5>1. i = 1 /\ o > 0 /\ (o + i) - 1 = o
          BY <1>1, <2>0, <4>1, <4>3
        <5> QED
          BY <2>2, <4>1, <5>1
      <4> QED
        BY <4>2, <4>3
    <3> QED
      BY <1>1, <2>2, <3>1, <3>3, <3>4 DEF Chars, Staying
  <2> QED
    BY <2>1, <2>2
<1>4. \A i, j \in Chars(t) : at(i) = at(j) => i = j
  <2> SUFFICES ASSUME NEW i \in Chars(t), NEW j \in Chars(t), at(i) = at(j) PROVE i = j
    OBVIOUS
  <2>1. i \in 1 .. Len(t) /\ j \in 1 .. Len(t) /\ i \in Int /\ j \in Int /\ i >= 1 /\ j >= 1
    BY <1>2
  <2>2. (cut(i) => i = 1) /\ (cut(j) => j = 1)
    OBVIOUS
  <2>3. at(i) \in {o, o + i} /\ at(j) \in {o, o + j} /\ (at(i) = o => i = 1) /\ (at(j) = o => j = 1)
    BY <2>1, <2>2
  <2> HIDE DEF at, cut
  <2> QED
    BY <2>1, <2>3
<1>5. /\ IsFiniteSet(Chars(t)) /\ TextScore(t) = Cardinality(Chars(t))
      /\ IsFiniteSet(Chars(u)) /\ TextScore(u) = Cardinality(Chars(u))
  BY TextScoreIs
<1>6. f \in Injection(Chars(t), Chars(u))
  <2> HIDE DEF at
  <2> QED
    BY <1>3, <1>4 DEF Injection, IsInjective
<1>7. Cardinality(Chars(t)) <= Cardinality(Chars(u))
  <2> HIDE DEF f
  <2> QED
    BY <1>5, <1>6, FS_Injection DEF ExistsInjection
<1> QED
  BY <1>5, <1>7, FS_CardinalityType

-----------------------------------------------------------------------------
(***************************************************************************)
(* The stages of a page.  The tree never changes; what a stage leaves      *)
(* behind is what the next one reads.                                      *)
(***************************************************************************)

Early == {"parsed", "pruned"}

PageInv ==
    /\ stage \in {"parsed", "pruned", "rooted", "text", "done"}
    /\ Tree
    /\ html \in Tops /\ head \in Heads
    /\ root \in Nodes \cup {DocHtml, DocHead, NoNode}
    /\ NoneBelowBody
    /\ content \in Content
    /\ stage \notin {"text", "done"} => content = NoContent
    /\ stage \in {"text", "done"} => content.text = Readable(root)
    /\ stage # "done" => content.full = <<>> /\ content.search = <<>> /\ content.excerpt = <<>>
    /\ stage = "done" =>
        /\ content.full = TruncateUTF8(content.text, ContentFullLimit)
        /\ content.search = TruncateUTF8(NormalizeText(content.full), ContentSearchLimit)
        /\ content.excerpt = TruncateUTF8(NormalizeText(content.full), ExcerptLimit)

LEMMA SameTree ==
    ASSUME UNCHANGED nodes
    PROVE  Tree' <=> Tree
<1>1. \A i, n : Inside(i, n)' <=> Inside(i, n)
  BY DEF Inside
<1> QED
  BY <1>1 DEF Tree

LEMMA SameText ==
    ASSUME UNCHANGED <<nodes, html, head>>, stage # "parsed", stage' # "parsed"
    PROVE  /\ \A n : Live(n)' <=> Live(n)
           /\ \A n : Text(n)' = Text(n)
           /\ (HeadLive' <=> HeadLive) /\ HeadText' = HeadText
           /\ \A r : Readable(r)' = Readable(r)
<1>1. \A i, n : Inside(i, n)' = Inside(i, n)
  BY DEF Inside
<1>2. \A n : Live(n)' = Live(n)
  BY <1>1 DEF Live
<1>3. \A n : Text(n)' = Text(n)
  <2> SUFFICES ASSUME NEW n PROVE Text(n)' = Text(n)
    OBVIOUS
  <2> DEFINE own(i) == IF Live(i) /\ Inside(i, n) THEN nodes[i].text ELSE <<>>
             later(i) == IF Live(i)' /\ Inside(i, n)' THEN nodes'[i].text ELSE <<>>
  <2>1. Text(n) = FlattenSeq([i \in Nodes |-> own(i)])
    BY DEF Text
  <2>2. Text(n)' = FlattenSeq([i \in Nodes |-> later(i)])
    BY DEF Text
  <2>3. \A i : own(i) = later(i)
    BY <1>1, <1>2
  <2> HIDE DEF own, later
  <2>4. [i \in Nodes |-> own(i)] = [i \in Nodes |-> later(i)]
    BY <2>3
  <2> QED
    BY <2>1, <2>2, <2>4
<1>4. \A r : ExtractBlocks(r)' = ExtractBlocks(r)
  <2> SUFFICES ASSUME NEW r PROVE ExtractBlocks(r)' = ExtractBlocks(r)
    OBVIOUS
  <2> DEFINE words(i) == IF Live(i) /\ "block" \in nodes[i].kinds
                            /\ (r \in {NoNode, DocHtml} \/ (i # r /\ Inside(i, r)))
                         THEN NormalizeText(Text(i)) ELSE <<>>
             later(i) == IF Live(i)' /\ "block" \in nodes'[i].kinds
                            /\ (r \in {NoNode, DocHtml} \/ (i # r /\ Inside(i, r)'))
                         THEN NormalizeText(Text(i)') ELSE <<>>
             S == {i \in Nodes : words(i) # <<>> /\ \A m \in 1 .. i - 1 : words(m) # words(i)}
             T == {i \in Nodes : later(i) # <<>> /\ \A m \in 1 .. i - 1 : later(m) # later(i)}
  <2>1. ExtractBlocks(r) = InOrder([i \in Nodes |-> words(i)], S, <)
    BY DEF ExtractBlocks
  <2>2. ExtractBlocks(r)' = InOrder([i \in Nodes |-> later(i)], T, <)
    BY DEF ExtractBlocks, InOrder
  <2>3. \A i : words(i) = later(i)
    BY <1>1, <1>2, <1>3
  <2> HIDE DEF words, later
  <2>4. [i \in Nodes |-> words(i)] = [i \in Nodes |-> later(i)] /\ S = T
    BY <2>3
  <2> QED
    BY <2>1, <2>2, <2>4
<1>5. (HeadLive' <=> HeadLive) /\ HeadText' = HeadText
  BY DEF HeadLive, HeadText
<1>6. \A r : TextOf(r)' = TextOf(r)
  BY <1>3, <1>5 DEF TextOf
<1>7. \A r : Readable(r)' = Readable(r)
  BY <1>4, <1>6 DEF Readable
<1> QED
  BY <1>2, <1>3, <1>5, <1>7

\* What is chosen stays so.
LEMMA SameRoot ==
    ASSUME UNCHANGED <<nodes, html, head, root>>, stage # "parsed", stage' # "parsed",
           stage # "pruned", NoneBelowBody
    PROVE  NoneBelowBody'
<1>1. /\ Live(Body)' <=> Live(Body)
      /\ Text(Body)' = Text(Body)
      /\ (HeadLive' <=> HeadLive) /\ HeadText' = HeadText
  BY SameText
<1> QED
  BY <1>1 DEF NoneBelowBody

LEMMA EmptyContent == NoContent \in Content /\ NoContent.text = <<>>
                        /\ NoContent.full = <<>> /\ NoContent.search = <<>> /\ NoContent.excerpt = <<>>
<1>1. <<>> \in Seq(Bytes)
  OBVIOUS
<1> QED
  BY <1>1 DEF NoContent, Content

LEMMA PageInitial == PageInit => PageInv
<1> SUFFICES ASSUME PageInit PROVE PageInv
  OBVIOUS
<1>1. Tree
  BY DEF PageInit, Tree, DocHtml
<1>2. /\ stage = "parsed" /\ html \in Tops /\ head \in Heads
      /\ root = NoNode /\ content = NoContent
  BY DEF PageInit
<1> QED
  BY <1>1, <1>2, EmptyContent DEF PageInv, NoneBelowBody

\* No element has more text than the body.
LEMMA BodyIsBest ==
    ASSUME Tree, NEW n \in Nodes, Live(n)
    PROVE  /\ Live(Body)
           /\ ~(TextScore(Text(n)) > TextScore(Text(Body)))
<1>1. Live(Body)
  BY InsideBody, LeftInside
<1>2. PICK o \in Nat : Part(Text(n), Text(Body), o)
  BY TextInBody
<1>3. Text(n) \in Seq(Bytes) /\ Text(Body) \in Seq(Bytes)
  BY TextIs
<1> DEFINE t == Text(n)
           u == Text(Body)
<1> HIDE DEF t, u
<1>4. TextScore(t) \in Nat /\ TextScore(u) \in Nat /\ TextScore(t) <= TextScore(u)
  BY <1>2, <1>3, PartScore DEF t, u
<1>5. ~(TextScore(t) > TextScore(u))
  BY <1>4
<1> QED
  BY <1>1, <1>5 DEF t, u

\* What the body scores, also when there is nothing left of it.
LEMMA BodyScoreIs ==
    ASSUME Tree
    PROVE  /\ TextScore(Text(Body)) \in Nat
           /\ ~Live(Body) => TextScore(Text(Body)) = 0
<1>1. Text(Body) \in Seq(Bytes)
  BY TextIs
<1>2. ASSUME ~Live(Body) PROVE NormalizeText(Text(Body)) = <<>>
  <2>1. Text(Body) = <<>>
    BY <1>2, NothingLeft
  <2>2. ~HasWords(Text(Body))
    BY <2>1 DEF HasWords
  <2> QED
    BY <1>1, <2>2, WordsStay
<1> DEFINE t == Text(Body)
<1> HIDE DEF t
<1>3. t \in Seq(Bytes)
  BY <1>1 DEF t
<1>4. TextScore(t) \in Nat /\ (NormalizeText(t) = <<>> => TextScore(t) = 0)
  BY <1>3, TextScoreIs
<1> QED
  BY <1>2, <1>4 DEF t

Chosen(r) ==
    \/ r = IF Live(Body) THEN Body ELSE NoNode
    \/ r = DocHtml /\ html.content /\ HeadLive
    \/ r = DocHead /\ head.content /\ TextScore(HeadText) > TextScore(Text(Body))

LEMMA RootStep ==
    ASSUME PageInv, SelectContentRoot
    PROVE  Chosen(root') /\ root' \in Nodes \cup {DocHtml, DocHead, NoNode}
<1> DEFINE body == IF Live(Body) THEN Body ELSE NoNode
           bodyScore == IF body = NoNode THEN 0 ELSE TextScore(Text(Body))
           better == {r \in Candidates : Better(TextScore(TextOf(r)), bodyScore)}
<1>1. root' \in IF better = {} THEN {body}
                ELSE {r \in better : \A q \in better : TextScore(TextOf(q)) <= TextScore(TextOf(r))}
  BY DEF SelectContentRoot
<1>2. Tree /\ Body \in Nodes
  BY InsideBody DEF PageInv
<1>3. Body # NoNode /\ \A n \in Nodes : n \notin {DocHead, DocHtml, NoNode}
  BY <1>2, PageAssumption DEF Nodes, DocHead, DocHtml
<1>4. bodyScore = TextScore(Text(Body)) /\ TextScore(Text(Body)) \in Nat
  BY <1>2, <1>3, BodyScoreIs
<1> HIDE DEF better
<1>5. CASE better = {}
  BY <1>1, <1>2, <1>5 DEF Chosen
<1>6. CASE better # {}
  <2> DEFINE r == root'
  <2>1. r \in Candidates /\ TextScore(TextOf(r)) > TextScore(Text(Body))
    <3>1. r \in Candidates /\ Better(TextScore(TextOf(r)), bodyScore)
      BY <1>1, <1>6 DEF better
    <3> QED
      BY <1>4, <3>1 DEF Better
  <2> HIDE DEF r, body, bodyScore
  <2>2. CASE r \in Nodes
    <3>1. Live(r) /\ TextOf(r) = Text(r)
      BY <1>3, <2>1, <2>2 DEF Candidates, TextOf, DocHtml, DocHead
    <3> QED
      BY <1>2, <2>1, <2>2, <3>1, BodyIsBest
  <2>3. CASE r = DocHtml
    <3>1. html.content
      BY <1>3, <2>1, <2>3 DEF Candidates, DocHtml, DocHead
    <3>2. HeadLive
      <4> SUFFICES ASSUME ~HeadLive PROVE FALSE
        OBVIOUS
      <4>1. HeadText = <<>>
        BY DEF HeadText
      <4>2. TextOf(r) = HeadText \o Text(Body)
        BY <2>3 DEF TextOf, DocHtml, DocHead
      <4>3. TextOf(r) = Text(Body)
        BY <1>2, <4>1, <4>2, TextOfIs DEF PageInv
      <4>4. ~(TextScore(Text(Body)) > TextScore(Text(Body)))
        BY <1>4
      <4> QED
        BY <2>1, <4>3, <4>4
    <3> QED
      BY <2>3, <3>1, <3>2 DEF Chosen, r
  <2>4. CASE r = DocHead
    <3>1. head.content
      BY <1>3, <2>1, <2>4 DEF Candidates, DocHtml, DocHead
    <3>2. TextOf(r) = HeadText
      BY <2>4 DEF TextOf
    <3> QED
      BY <2>1, <2>4, <3>1, <3>2 DEF Chosen, r
  <2> QED
    BY <2>1, <2>2, <2>3, <2>4 DEF Candidates, r
<1> QED
  BY <1>5, <1>6

LEMMA PageSteps ==
    ASSUME PageInv, [PageNext]_pageVars
    PROVE  PageInv'
<1>0. /\ Tree /\ html \in Tops /\ head \in Heads /\ content \in Content
      /\ root \in Nodes \cup {DocHtml, DocHead, NoNode}
      /\ Body \in Nodes
  BY InsideBody DEF PageInv
<1>1. CASE PruneNonContent
  <2>1. /\ stage = "parsed" /\ stage' = "pruned" /\ UNCHANGED <<nodes, html, head, root, content>>
    BY <1>1 DEF PruneNonContent
  <2>2. Tree'
    BY <1>0, <2>1, SameTree
  <2>3. NoneBelowBody'
    BY <2>1 DEF NoneBelowBody
  <2> QED
    BY <2>1, <2>2, <2>3 DEF PageInv
<1>2. CASE SelectContentRoot
  <2>1. stage = "pruned" /\ stage' = "rooted" /\ UNCHANGED <<nodes, html, head, content>>
    BY <1>2 DEF SelectContentRoot
  <2>2. Tree'
    BY <1>0, <2>1, SameTree
  <2>3. Chosen(root') /\ root' \in Nodes \cup {DocHtml, DocHead, NoNode}
    BY <1>2, RootStep
  <2>4. /\ Live(Body)' <=> Live(Body)
        /\ Text(Body)' = Text(Body)
        /\ (HeadLive' <=> HeadLive) /\ HeadText' = HeadText
    BY <2>1, SameText
  <2>5. NoneBelowBody'
    BY <2>1, <2>3, <2>4 DEF NoneBelowBody, Chosen
  <2> QED
    BY <2>1, <2>2, <2>3, <2>5 DEF PageInv
<1>3. CASE ExtractReadableContent
  <2>1. /\ stage = "rooted" /\ stage' = "text" /\ UNCHANGED <<nodes, html, head, root>>
        /\ content' = [content EXCEPT !.text = Readable(root)]
    BY <1>3 DEF ExtractReadableContent
  <2>2. Tree'
    BY <1>0, <2>1, SameTree
  <2>3. \A r : Readable(r)' = Readable(r)
    BY <2>1, SameText
  <2>4. NoneBelowBody'
    BY <2>1, SameRoot DEF PageInv
  <2>5. Readable(root) \in Seq(Bytes)
    BY <1>0, ReadableIs
  <2>6. content' \in Content /\ content'.text = Readable(root) /\ content'.full = content.full
          /\ content'.search = content.search /\ content'.excerpt = content.excerpt
    <3> DEFINE x == Readable(root)
    <3> HIDE DEF x
    <3>1. content' = [content EXCEPT !.text = x] /\ x \in Seq(Bytes)
      BY <2>1, <2>5 DEF x
    <3>2. content' \in Content /\ content'.text = x /\ content'.full = content.full
            /\ content'.search = content.search /\ content'.excerpt = content.excerpt
      BY <1>0, <3>1 DEF Content
    <3> QED
      BY <3>2 DEF x
  <2>7. Readable(root)' = Readable(root)
    BY <2>1, <2>3
  <2> QED
    BY <2>1, <2>2, <2>4, <2>6, <2>7 DEF PageInv
<1>4. CASE Truncate
  <2> DEFINE full == TruncateUTF8(content.text, ContentFullLimit)
             searchText == NormalizeText(full)
             search == TruncateUTF8(searchText, ContentSearchLimit)
             excerpt == TruncateUTF8(searchText, ExcerptLimit)
  <2>1. /\ stage = "text" /\ stage' = "done" /\ UNCHANGED <<nodes, html, head, root>>
        /\ content' = [content EXCEPT !.full = full, !.search = search, !.excerpt = excerpt]
    BY <1>4 DEF Truncate
  <2>2. Tree'
    BY <1>0, <2>1, SameTree
  <2>3. \A r : Readable(r)' = Readable(r)
    BY <2>1, SameText
  <2>4. NoneBelowBody'
    BY <2>1, SameRoot DEF PageInv
  <2>5. content.text \in Seq(Bytes) /\ ContentFullLimit \in Nat /\ ContentSearchLimit \in Nat
          /\ ExcerptLimit \in Nat
    BY <1>0, PageAssumption DEF Content
  <2>6. full \in Seq(Bytes)
    BY <2>5, Truncated
  <2>7. searchText \in Seq(Bytes)
    <3> HIDE DEF full
    <3> QED
      BY <2>6, NormalIs
  <2>8. search \in Seq(Bytes) /\ excerpt \in Seq(Bytes)
    <3> HIDE DEF searchText
    <3> QED
      BY <2>5, <2>7, Truncated
  <2>9. content' \in Content /\ content'.text = content.text /\ content'.full = full
          /\ content'.search = search /\ content'.excerpt = excerpt
    <3> HIDE DEF full, search, excerpt
    <3> QED
      BY <1>0, <2>1, <2>6, <2>8 DEF Content
  <2>10. content'.text = Readable(root)'
    BY <2>1, <2>3, <2>9 DEF PageInv
  <2>11. searchText = NormalizeText(content'.full)
    BY <2>9
  <2> HIDE DEF search, excerpt
  <2>12. /\ content'.full = TruncateUTF8(content'.text, ContentFullLimit)
         /\ content'.search = TruncateUTF8(NormalizeText(content'.full), ContentSearchLimit)
         /\ content'.excerpt = TruncateUTF8(NormalizeText(content'.full), ExcerptLimit)
    BY <2>9, <2>11 DEF search, excerpt
  <2> HIDE DEF full, searchText
  <2> QED
    BY <1>0, <2>1, <2>2, <2>4, <2>9, <2>10, <2>12 DEF PageInv
<1>5. CASE UNCHANGED pageVars
  <2>1. UNCHANGED <<stage, nodes, html, head, root, content>>
    BY <1>5 DEF pageVars
  <2>2. Tree'
    BY <1>0, <2>1, SameTree
  <2>3. stage # "parsed" => \A r : Readable(r)' = Readable(r)
    BY <2>1, SameText
  <2>4. NoneBelowBody'
    <3>1. CASE stage \in {"parsed", "pruned"}
      BY <2>1, <3>1 DEF NoneBelowBody
    <3>2. CASE stage \notin {"parsed", "pruned"}
      BY <2>1, <3>2, SameRoot DEF PageInv
    <3> QED
      BY <3>1, <3>2
  <2>5. stage \in {"text", "done"} => content'.text = Readable(root)'
    BY <2>1, <2>3 DEF PageInv
  <2> QED
    BY <2>1, <2>2, <2>4, <2>5 DEF PageInv
<1> QED
  BY <1>1, <1>2, <1>3, <1>4, <1>5 DEF PageNext

LEMMA PageInvHolds == PageSpec => []PageInv
BY PageInitial, PageSteps, PTL DEF PageSpec

\* The page and what Result has of it keep their types, and the stored texts
\* their limits.
LEMMA PageTypeCorrect == PageSpec => []PageTypeOK
<1>1. PageInv => PageTypeOK
  <2> SUFFICES ASSUME PageInv PROVE PageTypeOK
    OBVIOUS
  <2>1. content.text \in Seq(Bytes) /\ ContentFullLimit \in Nat /\ ContentSearchLimit \in Nat
          /\ ExcerptLimit \in Nat
    BY PageAssumption DEF PageInv, Content
  <2>2. Len(content.full) <= ContentFullLimit
    <3>1. CASE stage = "done"
      BY <2>1, <3>1, Truncated DEF PageInv
    <3>2. CASE stage # "done"
      BY <2>1, <3>2 DEF PageInv
    <3> QED
      BY <3>1, <3>2
  <2>3. NormalizeText(content.full) \in Seq(Bytes)
    <3>1. content.full \in Seq(Bytes)
      BY DEF PageInv, Content
    <3> QED
      BY <3>1, NormalIs
  <2>4. Len(content.search) <= ContentSearchLimit /\ Len(content.excerpt) <= ExcerptLimit
    <3>1. CASE stage = "done"
      <4> DEFINE t == NormalizeText(content.full)
      <4>1. content.search = TruncateUTF8(t, ContentSearchLimit)
              /\ content.excerpt = TruncateUTF8(t, ExcerptLimit)
        BY <3>1 DEF PageInv
      <4> HIDE DEF t
      <4>2. t \in Seq(Bytes)
        BY <2>3 DEF t
      <4> QED
        BY <2>1, <4>1, <4>2, Truncated
    <3>2. CASE stage # "done"
      BY <2>1, <3>2 DEF PageInv
    <3> QED
      BY <3>1, <3>2
  <2> QED
    BY <2>2, <2>4 DEF PageInv, PageTypeOK, Tree
<1> QED
  BY <1>1, PageInvHolds, PTL

\* No element below the body is ever chosen: whatever its text, it is a part
\* of the body's, and a part scores no more than the whole, even if it begins
\* or ends inside of a character.  Only html and head can be.
THEOREM NothingBelowBody == PageSpec => []NoneBelowBody
<1>1. PageInv => NoneBelowBody
  BY DEF PageInv
<1> QED
  BY <1>1, PageInvHolds, PTL

\* What is stored of a valid text is valid and no shorter than it has to be.
THEOREM CutsAreClean == PageSpec => []CutIsClean
<1>1. PageInv => CutIsClean
  <2> SUFFICES ASSUME PageInv, stage = "done" PROVE CutIsClean
    BY DEF CutIsClean
  <2> DEFINE text0 == content.text
             full == content.full
             words == NormalizeText(full)
  <2>1. text0 \in Seq(Bytes) /\ full \in Seq(Bytes)
          /\ ContentFullLimit \in Nat /\ ContentSearchLimit \in Nat /\ ExcerptLimit \in Nat
    BY PageAssumption DEF PageInv, Content
  <2>2. full = TruncateUTF8(text0, ContentFullLimit)
          /\ content.search = TruncateUTF8(words, ContentSearchLimit)
          /\ content.excerpt = TruncateUTF8(words, ExcerptLimit)
    BY DEF PageInv
  <2> HIDE DEF text0, full
  <2>3. /\ full = text0 \/ Valid(full)
        /\ Valid(text0) => Valid(full) /\ (full # text0 => Len(full) >= ContentFullLimit - 1)
    BY <2>1, <2>2, Truncated
  <2>4. words \in Seq(Bytes) /\ (Valid(full) => Valid(words))
    BY <2>1, NormalIs, NormalValid
  <2> HIDE DEF words
  <2>5. Valid(words) => Valid(content.search) /\ Valid(content.excerpt)
    BY <2>1, <2>2, <2>4, Truncated
  <2>6. \A part1 \in {full, content.search, content.excerpt} : Valid(text0) => Valid(part1)
    BY <2>3, <2>4, <2>5
  <2> QED
    BY <2>3, <2>6 DEF CutIsClean, text0, full
<1> QED
  BY <1>1, PageInvHolds, PTL

\* A part of a sequence is found with IsPrefix at its place.
LEMMA PartIsPrefix ==
    ASSUME NEW X, NEW t \in Seq(X), NEW u \in Seq(X), NEW o \in Nat, Part(t, u, o), t # <<>>
    PROVE  \E i \in DOMAIN u : IsPrefix(t, SubSeq(u, i, Len(u)))
<1> DEFINE i == o + 1
           r == SubSeq(u, i, Len(u))
           n == Len(t)
<1>1. n \in Nat /\ Len(u) \in Nat /\ n # 0 /\ DOMAIN u = 1 .. Len(u)
  BY LenProperties, EmptySeq
<1>2. o + n <= Len(u) /\ \A p \in 1 .. n : u[o + p] = t[p]
  BY DEF Part
<1>3. i \in DOMAIN u
  BY <1>1, <1>2
<1>4. r \in Seq(X) /\ Len(r) = Len(u) - o /\ \A p \in 1 .. Len(u) - o : r[p] = u[o + p]
  <2>1. \A p \in i .. Len(u) : u[p] \in X
    BY <1>1, ElementOfSeq
  <2>2. /\ r \in Seq(X) /\ Len(r) = IF i <= Len(u) THEN Len(u) - i + 1 ELSE 0
        /\ \A p \in 1 .. Len(u) - i + 1 : r[p] = u[i + p - 1]
    BY <1>1, <2>1, SubSeqProperties
  <2>3. Len(u) - i + 1 = Len(u) - o /\ i <= Len(u)
    BY <1>1, <1>2
  <2>4. \A p \in 1 .. Len(u) - o : r[p] = u[o + p]
    <3> SUFFICES ASSUME NEW p \in 1 .. Len(u) - o PROVE r[p] = u[o + p]
      OBVIOUS
    <3>1. p \in 1 .. Len(u) - i + 1 /\ i + p - 1 = o + p
      BY <1>1, <2>3
    <3> QED
      BY <2>2, <3>1
  <2> QED
    BY <2>2, <2>3, <2>4
<1> HIDE DEF r, n
<1>5. n <= Len(r) /\ \A p \in 1 .. n : r[p] = t[p]
  BY <1>1, <1>2, <1>4
<1>6. SubSeq(t, 1, n) = t
  BY <1>1 DEF n
<1>7. SubSeq(r, 1, n) = t
  <2>1. SubSeq(r, 1, n) \in Seq(X) /\ Len(SubSeq(r, 1, n)) = n
          /\ \A p \in 1 .. n : SubSeq(r, 1, n)[p] = r[p]
    BY <1>1, <1>4, <1>5
  <2> QED
    BY <1>1, <1>5, <2>1 DEF n
<1>8. IsPrefix(t, r)
  BY <1>5, <1>6, <1>7 DEF IsPrefix, n
<1> QED
  BY <1>3, <1>8 DEF r

\* No text of the body that is left after pruning is lost altogether, nor
\* that of a block at all, whichever of body and html is chosen.
THEOREM NoTextIsLost == PageSpec => []VisibleTextKept
<1>1. PageInv => VisibleTextKept
  <2> SUFFICES ASSUME PageInv, stage \in {"text", "done"},
                      NEW n \in Nodes, Live(n), NormalizeText(nodes[n].text) # <<>>
               PROVE  /\ content.text # <<>>
                      /\ "block" \in nodes[n].kinds /\ root # DocHead =>
                          \E i \in DOMAIN content.text :
                            IsPrefix(NormalizeText(Text(n)), SubSeq(content.text, i, Len(content.text)))
    BY DEF VisibleTextKept
  <2>1. Tree /\ head \in Heads /\ content.text = Readable(root) /\ content.text \in Seq(Bytes)
    BY DEF PageInv, Content
  <2>2. /\ root \in {Body, DocHtml, DocHead} /\ Body \in Nodes
        /\ Body \notin {NoNode, DocHtml, DocHead} /\ NoNode \notin {DocHtml, DocHead}
        /\ root = DocHead => TextScore(HeadText) > TextScore(Text(Body))
    <3>1. Inside(n, Body) /\ Body \in Nodes
      BY <2>1, InsideBody
    <3>2. Live(Body)
      BY <2>1, <3>1, LeftInside
    <3> QED
      BY <3>1, <3>2, PageAssumption DEF PageInv, NoneBelowBody, Body, DocHtml, DocHead
  <2>3. nodes[n].text \in Seq(Bytes) /\ HasWords(nodes[n].text)
          /\ \E o \in Nat : Part(nodes[n].text, Text(n), o)
    BY <2>1, OwnInText, WordsStay
  <2>4. Text(n) \in Seq(Bytes) /\ Text(Body) \in Seq(Bytes)
    BY <2>1, TextIs
  <2>5. HasWords(Text(n))
    BY <2>3, <2>4, PartWords
  <2>6. NormalizeText(Text(n)) # <<>> /\ NormalizeText(Text(n)) \in Seq(Bytes)
    BY <2>4, <2>5, WordsStay, NormalIs
  <2> DEFINE B == ExtractBlocks(root)
  <2>7. /\ \A k \in 1 .. Len(B) : B[k] \in Seq(Bytes) /\ B[k] # <<>>
        /\ Len(B) \in Nat /\ (B # <<>> => 1 \in 1 .. Len(B))
    <3>1. B \in Seq(Seq(Bytes)) /\ \A k \in 1 .. Len(B) : B[k] # <<>>
      BY <2>1, BlocksAre
    <3> HIDE DEF B
    <3>2. Len(B) \in Nat /\ (B # <<>> => Len(B) # 0)
      BY <3>1, LenProperties, EmptySeq
    <3> QED
      BY <3>1, <3>2, ElementOfSeq
  <2>8. \A k \in 1 .. Len(B) : \E o \in Nat : Part(B[k], content.text, o)
    BY <2>1, ReadableIs
  <2>9. B = <<>> => content.text = NormalizeText(TextOf(root))
    BY <2>1, ReadableIs
  <2>10. ASSUME "block" \in nodes[n].kinds, root # DocHead
         PROVE  \E k \in 1 .. Len(B) : B[k] = NormalizeText(Text(n))
    <3>1. n # Body
      BY <2>1, <2>10 DEF Tree
    <3>2. BlockWords(root)[n] = NormalizeText(Text(n))
      BY <2>1, <2>2, <2>10, <3>1, InsideBody DEF BlockWords, Below
    <3> QED
      BY <2>1, <2>6, <3>2, BlocksAre
  <2> HIDE DEF B
  <2>11. content.text # <<>>
    <3>1. CASE B = <<>>
      <4>1. PICK o \in Nat : Part(Text(n), Text(Body), o)
        BY <2>1, TextInBody
      <4>2. HasWords(Text(Body))
        BY <2>4, <2>5, <4>1, PartWords
      <4>3. HasWords(TextOf(root))
        <5>1. CASE root = DocHead
          <6> DEFINE t == HeadText
          <6>1. t \in Seq(Bytes) /\ TextScore(t) > TextScore(Text(Body)) /\ TextOf(root) = t
            BY <2>1, <2>2, <5>1, TextOfIs DEF TextOf
          <6>2. TextScore(Text(Body)) \in Nat
            BY <2>1, BodyScoreIs
          <6> HIDE DEF t
          <6>3. TextScore(t) \in Nat /\ (NormalizeText(t) = <<>> => TextScore(t) = 0)
            BY <6>1, TextScoreIs
          <6>4. NormalizeText(t) # <<>>
            BY <6>1, <6>2, <6>3
          <6> QED
            BY <6>1, <6>4, WordsStay
        <5>2. CASE root = DocHtml
          <6>1. TextOf(root) = HeadText \o Text(Body)
            BY <5>2 DEF TextOf, DocHtml, DocHead
          <6> QED
            BY <2>1, <4>2, <6>1, TextOfIs
        <5>3. CASE root = Body
          BY <2>2, <4>2, <5>3 DEF TextOf
        <5> QED
          BY <2>2, <5>1, <5>2, <5>3
      <4>4. TextOf(root) \in Seq(Bytes)
        BY <2>1, TextOfIs
      <4> QED
        BY <2>9, <3>1, <4>3, <4>4, WordsStay
    <3>2. CASE B # <<>>
      <4> DEFINE x == B[1]
                 u == content.text
      <4>1. x \in Seq(Bytes) /\ x # <<>> /\ \E o \in Nat : Part(x, u, o)
        BY <2>7, <2>8, <3>2
      <4>2. u \in Seq(Bytes)
        BY <2>1
      <4> HIDE DEF x, u
      <4>3. PICK o \in Nat : Part(x, u, o)
        BY <4>1
      <4>4. Len(x) \in Nat /\ Len(x) # 0 /\ Len(u) \in Nat
        BY <4>1, <4>2, LenProperties, EmptySeq
      <4>5. Len(u) # 0
        BY <4>3, <4>4 DEF Part
      <4> QED
        BY <4>2, <4>5 DEF u
    <3> QED
      BY <3>1, <3>2
  <2>12. ASSUME "block" \in nodes[n].kinds, root # DocHead
         PROVE  \E i \in DOMAIN content.text :
                  IsPrefix(NormalizeText(Text(n)), SubSeq(content.text, i, Len(content.text)))
    <3>1. PICK k \in 1 .. Len(B) : B[k] = NormalizeText(Text(n))
      BY <2>10, <2>12
    <3>2. PICK o \in Nat : Part(NormalizeText(Text(n)), content.text, o)
      BY <2>8, <3>1
    <3> QED
      BY <2>1, <2>6, <3>2, PartIsPrefix
  <2> QED
    BY <2>11, <2>12
<1> QED
  BY <1>1, PageInvHolds, PTL

-----------------------------------------------------------------------------
(***************************************************************************)
(* The parts in one model                                                  *)
(***************************************************************************)

\* Those that do not move yet have begun where their own specification does.
LEMMA PartsInitial ==
  PartsInit => Init /\ ListInit /\ EditorInit /\ EntryInit /\ UrlInit /\ PageInit
BY EditorAssumption
   DEF PartsInit, ListAtRest, EntryAtRest, UrlAtRest, PageAtRest, MCPage, EditorInit

\* One of them moves, and the others stutter.
LEMMA PartsSteps ==
  [PartsNext]_partsVars => /\ [Next]_vars
                           /\ [ListNext]_listVars
                           /\ [EditorNext]_editorVars
                           /\ [EntryNext]_entryVars
                           /\ [UrlNext]_urlVars
                           /\ [PageNext]_pageVars
BY DEF PartsNext, partsVars

\* A behaviour of the model of all parts (the limiter, the list, the two
\* forms, the URL and the page share no state in the code) is a behaviour of
\* each, so every theorem about one of them is a theorem about the model the
\* runs check.
THEOREM PartsAreOfEach ==
  PartsSpec => Spec /\ ListSpec /\ EditorSpec /\ EntrySpec /\ UrlSpec /\ PageSpec
BY PartsInitial, PartsSteps, PTL
   DEF PartsSpec, Spec, ListSpec, EditorSpec, EntrySpec, UrlSpec, PageSpec

\* Whatever part moves, all of them keep their types: the buckets and their
\* windows, the rows, pages and counts of the list, the tags and requests of
\* the forms, and the stages of a page with the texts cut out of it.
THEOREM PartsTypesCorrect == PartsSpec => []PartsTypeOK
<1>1. EInv => EditorTypeOK
  BY DEF EInv
<1>2. CInv => EntryTypeOK
  BY DEF CInv
<1>3. EditorSpec => []EditorTypeOK
  BY <1>1, EditorInitInv, EditorStepInv, PTL DEF EditorSpec
<1>4. EntrySpec => []EntryTypeOK
  BY <1>2, EntryInitInv, EntryStepInv, PTL DEF EntrySpec
<1>5. TypeOK /\ ListTypeOK /\ EditorTypeOK /\ EntryTypeOK /\ PageTypeOK => PartsTypeOK
  BY DEF PartsTypeOK
<1> QED
  BY <1>3, <1>4, <1>5, PartsAreOfEach, TypeCorrect, ListTypeCorrect, PageTypeCorrect, PTL
==============================================================================
