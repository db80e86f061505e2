-------------------------- MODULE FairShareProofs ---------------------------
(***************************************************************************)
(* What interleaveByKey does to a batch of any length with any keys: it    *)
(* permutes it, keeps the order of arrival within a key, and gives no key  *)
(* a second turn while another one waits for its first.                    *)
(***************************************************************************)
EXTENDS FairShare, FiniteSetTheorems, TLAPS

\* How many elements of S a relation R puts ahead of x.
ahead(S, R, x) == {y \in S : <<y, x>> \in R}
rank(S, R, x) == Cardinality(ahead(S, R, x))
StrictOrder(S, R) ==
  /\ \A x \in S : <<x, x>> \notin R
  /\ \A x, y, z \in S : <<x, y>> \in R /\ <<y, z>> \in R => <<x, z>> \in R
  /\ \A x, y \in S : x = y \/ <<x, y>> \in R \/ <<y, x>> \in R

\* In a finite set, a strict total order gives every element a rank of its own, and
\* every number below the size of the set is a rank.
LEMMA Ranking ==
  ASSUME NEW S, IsFiniteSet(S), NEW R, StrictOrder(S, R)
  PROVE  /\ Cardinality(S) \in Nat
         /\ \A x \in S : rank(S, R, x) \in 0 .. Cardinality(S) - 1
         /\ \A x, y \in S : <<x, y>> \in R <=> rank(S, R, x) < rank(S, R, y)
         /\ \A n \in 0 .. Cardinality(S) - 1 : \E x \in S : rank(S, R, x) = n
<1>. DEFINE N == Cardinality(S)
            r == [x \in S |-> rank(S, R, x)]
<1>0. N \in Nat
  BY FS_CardinalityType
<1>1. ASSUME NEW x \in S PROVE IsFiniteSet(ahead(S, R, x)) /\ rank(S, R, x) \in 0 .. N - 1
  <2>1. ahead(S, R, x) \in SUBSET S /\ ahead(S, R, x) # S
    BY Zenon DEF ahead, StrictOrder
  <2>2. IsFiniteSet(ahead(S, R, x)) /\ rank(S, R, x) <= N /\ rank(S, R, x) # N
    BY <2>1, FS_Subset DEF rank
  <2>3. rank(S, R, x) \in Nat
    BY <2>2, FS_CardinalityType DEF rank
  <2>. QED
    BY <1>0, <2>2, <2>3
<1>2. ASSUME NEW x \in S, NEW y \in S, <<x, y>> \in R
      PROVE  rank(S, R, x) < rank(S, R, y)
  <2>1. ahead(S, R, x) \in SUBSET ahead(S, R, y)
    BY <1>2 DEF ahead, StrictOrder
  <2>2. ahead(S, R, x) # ahead(S, R, y)
    BY <1>2, Zenon DEF ahead, StrictOrder
  <2>3. rank(S, R, x) <= rank(S, R, y) /\ rank(S, R, x) # rank(S, R, y)
    BY <1>1, <2>1, <2>2, FS_Subset DEF rank
  <2>. QED
    BY <1>1, <2>3
<1>3. ASSUME NEW x \in S, NEW y \in S, rank(S, R, x) < rank(S, R, y) PROVE <<x, y>> \in R
  <2>1. rank(S, R, x) \in Nat /\ rank(S, R, y) \in Nat
    BY <1>1
  <2>2. x # y /\ <<y, x>> \notin R
    BY <1>2, <1>3, <2>1
  <2>. QED
    BY <2>2 DEF StrictOrder
<1>4. r \in Injection(S, 0 .. N - 1)
  <2>1. r \in [S -> 0 .. N - 1]
    BY <1>1
  <2>2. ASSUME NEW x \in S, NEW y \in S, r[x] = r[y] PROVE x = y
    <3>1. rank(S, R, x) = rank(S, R, y) /\ rank(S, R, x) \in Nat
      BY <1>1, <2>2
    <3>2. <<x, y>> \notin R /\ <<y, x>> \notin R
      BY <1>2, <3>1
    <3>. QED
      BY <3>2 DEF StrictOrder
  <2>. QED
    BY <2>1, <2>2 DEF Injection, IsInjective
<1>5. IsFiniteSet(0 .. N - 1) /\ Cardinality(0 .. N - 1) = N
  <2>1. 0 \in Int /\ N - 1 \in Int
    BY <1>0
  <2>2. /\ IsFiniteSet(0 .. N - 1)
        /\ Cardinality(0 .. N - 1) = IF 0 > N - 1 THEN 0 ELSE (N - 1) - 0 + 1
    BY <2>1, FS_Interval, Zenon
  <2>. QED
    BY <1>0, <2>2
<1>6. r \in Surjection(S, 0 .. N - 1)
  <2>. HIDE DEF r, N
  <2>. QED
    BY <1>4, <1>5, FS_Injection, Zenon DEF N
<1>7. \A n \in 0 .. N - 1 : \E x \in S : rank(S, R, x) = n
  BY <1>6, Zenon DEF Surjection
<1>. QED
  BY <1>0, <1>1, <1>2, <1>3, <1>7

-----------------------------------------------------------------------------
\* The turn of a message counts the earlier ones of its key, and a group's first
\* message is one of it.
LEMMA Groups ==
  ASSUME NEW msgs, NEW n \in Nat, DOMAIN msgs = 1 .. n, NEW key,
         NEW i \in 1 .. n, NEW h \in 1 .. n
  PROVE  /\ IsFiniteSet(group(msgs, key, i)) /\ turn(msgs, key, i) \in Nat
         /\ firstSeen(msgs, key, i) \in group(msgs, key, i)
         /\ h \in group(msgs, key, i) =>
              /\ group(msgs, key, h) = group(msgs, key, i)
              /\ h < i <=> turn(msgs, key, h) < turn(msgs, key, i)
         /\ h \in group(msgs, key, i)
              <=> firstSeen(msgs, key, h) = firstSeen(msgs, key, i)
<1>. DEFINE G == group(msgs, key, i)
            E(x) == {g \in group(msgs, key, x) : g < x}
<1>1. \A x \in 1 .. n : /\ group(msgs, key, x) \in SUBSET (1 .. n)
                        /\ x \in group(msgs, key, x)
                        /\ E(x) \in SUBSET (1 .. n)
  BY DEF group
<1>2. IsFiniteSet(1 .. n)
  BY FS_Interval
<1>3. \A x \in 1 .. n : IsFiniteSet(group(msgs, key, x)) /\ IsFiniteSet(E(x))
  BY <1>1, <1>2, FS_Subset
<1>4. \A x \in 1 .. n : turn(msgs, key, x) = Cardinality(E(x)) /\ turn(msgs, key, x) \in Nat
  BY <1>3, FS_CardinalityType DEF turn
<1>5. \A x \in 1 .. n : /\ firstSeen(msgs, key, x) \in group(msgs, key, x)
                        /\ \A g \in group(msgs, key, x) : firstSeen(msgs, key, x) <= g
  <2>. SUFFICES ASSUME NEW x \in 1 .. n
                PROVE  \E m \in group(msgs, key, x) : \A g \in group(msgs, key, x) : m <= g
    BY DEF firstSeen
  <2>1. group(msgs, key, x) \in SUBSET Nat /\ group(msgs, key, x) # {}
    BY <1>1
  <2>2. IsWellFoundedOn(OpToRel(<, Nat), Nat)
    BY NatLessThanWellFounded, Zenon
  <2>3. PICK m \in group(msgs, key, x) :
          \A g \in group(msgs, key, x) : ~(<<g, m>> \in OpToRel(<, Nat))
    BY <2>1, <2>2, WFMin, Zenon
  <2>4. \A g \in Nat : g < m => <<g, m>> \in OpToRel(<, Nat)
    BY <2>1 DEF OpToRel
  <2>5. \A g \in group(msgs, key, x) : ~(g < m) /\ g \in Nat /\ m \in Nat
    BY <2>1, <2>3, <2>4, Zenon
  <2>. QED
    BY <2>5
<1>6. ASSUME NEW x \in 1 .. n, NEW y \in 1 .. n, x \in group(msgs, key, y), x < y
      PROVE  turn(msgs, key, x) < turn(msgs, key, y)
  <2>1. E(x) \in SUBSET E(y) /\ x \in E(y) /\ x \notin E(x)
    BY <1>1, <1>6 DEF group
  <2>2. Cardinality(E(x)) <= Cardinality(E(y)) /\ Cardinality(E(x)) # Cardinality(E(y))
    <3>. HIDE DEF E
    <3>. QED
      BY <1>3, <2>1, FS_Subset
  <2>. QED
    BY <1>4, <2>2
<1>7. ASSUME h \in G
      PROVE  /\ group(msgs, key, h) = G
             /\ h < i <=> turn(msgs, key, h) < turn(msgs, key, i)
             /\ firstSeen(msgs, key, h) = firstSeen(msgs, key, i)
  <2>1. group(msgs, key, h) = G /\ i \in group(msgs, key, h)
    BY <1>7 DEF group
  <2>2. firstSeen(msgs, key, h) = firstSeen(msgs, key, i)
    BY <2>1 DEF firstSeen
  <2>3. h < i => turn(msgs, key, h) < turn(msgs, key, i)
    BY <1>6, <1>7
  <2>4. i < h => turn(msgs, key, i) < turn(msgs, key, h)
    BY <1>6, <2>1
  <2>5. i = h => turn(msgs, key, i) = turn(msgs, key, h)
    OBVIOUS
  <2>6. turn(msgs, key, i) \in Nat /\ turn(msgs, key, h) \in Nat
    BY <1>4, Zenon
  <2>. QED
    BY <2>1, <2>2, <2>3, <2>4, <2>5, <2>6
<1>8. ASSUME firstSeen(msgs, key, h) = firstSeen(msgs, key, i) PROVE h \in G
  <2>1. firstSeen(msgs, key, i) \in G /\ firstSeen(msgs, key, i) \in group(msgs, key, h)
    BY <1>5, <1>8
  <2>. QED
    BY <2>1 DEF group
<1>. QED
  BY <1>3, <1>4, <1>5, <1>7, <1>8, Zenon

\* before is a strict total order of the batch.
LEMMA BeforeOrders ==
  ASSUME NEW msgs, NEW n \in Nat, DOMAIN msgs = 1 .. n, NEW key
  PROVE  StrictOrder(1 .. n, {p \in (1 .. n) \X (1 .. n) : before(msgs, key, p[1], p[2])})
<1>. DEFINE R == {p \in (1 .. n) \X (1 .. n) : before(msgs, key, p[1], p[2])}
            t(x) == turn(msgs, key, x)
            f(x) == firstSeen(msgs, key, x)
<1>1. \A x \in 1 .. n : t(x) \in Nat /\ f(x) \in Nat
  <2>. SUFFICES ASSUME NEW x \in 1 .. n PROVE t(x) \in Nat /\ f(x) \in Nat
    OBVIOUS
  <2>1. t(x) \in Nat /\ f(x) \in group(msgs, key, x)
    BY Groups
  <2>. QED
    BY <2>1 DEF group
<1>2. \A x, y \in 1 .. n : t(x) = t(y) /\ f(x) = f(y) => x = y
  <2>. SUFFICES ASSUME NEW x \in 1 .. n, NEW y \in 1 .. n, t(x) = t(y), f(x) = f(y)
                PROVE  x = y
    OBVIOUS
  <2>1. x \in group(msgs, key, y) /\ y \in group(msgs, key, x)
    BY Groups
  <2>2. (x < y <=> t(x) < t(y)) /\ (y < x <=> t(y) < t(x))
    BY <2>1, Groups
  <2>. QED
    BY <1>1, <2>2
<1>3. \A x, y \in 1 .. n :
        <<x, y>> \in R <=> t(x) < t(y) \/ (t(x) = t(y) /\ f(x) < f(y))
  BY DEF before
<1>. HIDE DEF t, f, R
<1>4. ASSUME NEW x \in 1 .. n, NEW y \in 1 .. n
      PROVE  <<x, x>> \notin R /\ (x = y \/ <<x, y>> \in R \/ <<y, x>> \in R)
  <2>1. t(x) \in Nat /\ t(y) \in Nat /\ f(x) \in Nat /\ f(y) \in Nat
    BY <1>1
  <2>2. /\ <<x, x>> \in R <=> t(x) < t(x) \/ (t(x) = t(x) /\ f(x) < f(x))
        /\ <<x, y>> \in R <=> t(x) < t(y) \/ (t(x) = t(y) /\ f(x) < f(y))
        /\ <<y, x>> \in R <=> t(y) < t(x) \/ (t(y) = t(x) /\ f(y) < f(x))
    BY <1>3, Zenon
  <2>3. x = y \/ t(x) # t(y) \/ f(x) # f(y)
    BY <1>2
  <2>. QED
    BY <2>1, <2>2, <2>3
<1>5. ASSUME NEW x \in 1 .. n, NEW y \in 1 .. n, NEW z \in 1 .. n,
             <<x, y>> \in R, <<y, z>> \in R
      PROVE  <<x, z>> \in R
  <2>1. /\ t(x) \in Nat /\ t(y) \in Nat /\ t(z) \in Nat
        /\ f(x) \in Nat /\ f(y) \in Nat /\ f(z) \in Nat
    BY <1>1
  <2>2. /\ t(x) < t(y) \/ (t(x) = t(y) /\ f(x) < f(y))
        /\ t(y) < t(z) \/ (t(y) = t(z) /\ f(y) < f(z))
        /\ <<x, z>> \in R <=> t(x) < t(z) \/ (t(x) = t(z) /\ f(x) < f(z))
    BY <1>3, <1>5, Zenon
  <2>. QED
    BY <2>1, <2>2
<1>6. StrictOrder(1 .. n, R)
  BY <1>4, <1>5, Zenon DEF StrictOrder
<1>. QED
  BY <1>6 DEF R

\* interleaveByKey permutes the batch into the order of before: q[k] is where the
\* k-th message taken stood in the batch.
Permutes(q, n) ==
  /\ q \in [1 .. n -> 1 .. n]
  /\ \A k, l \in 1 .. n : q[k] = q[l] => k = l
  /\ \A i \in 1 .. n : \E k \in 1 .. n : q[k] = i
LEMMA Interleaves ==
  ASSUME NEW msgs, NEW n \in Nat, DOMAIN msgs = 1 .. n, NEW key
  PROVE  \E q : /\ Permutes(q, n)
                /\ interleaveByKey(msgs, key) = [k \in 1 .. n |-> msgs[q[k]]]
                /\ \A k, l \in 1 .. n : k < l <=> before(msgs, key, q[k], q[l])
<1>. DEFINE S == 1 .. n
            R == {p \in S \X S : before(msgs, key, p[1], p[2])}
            r(i) == Cardinality({h \in S : before(msgs, key, h, i)})
            q == [k \in S |-> CHOOSE i \in S : r(i) = k - 1]
<1>1. \A i \in S : r(i) = rank(S, R, i)
  <2>1. \A i \in S : {h \in S : before(msgs, key, h, i)} = ahead(S, R, i)
    BY DEF ahead
  <2>. QED
    BY <2>1, Zenon DEF rank
<1>2. IsFiniteSet(S) /\ Cardinality(S) = n
  <2>0. 1 \in Int /\ n \in Int
    OBVIOUS
  <2>1. IsFiniteSet(S) /\ Cardinality(S) = IF 1 > n THEN 0 ELSE n - 1 + 1
    BY <2>0, FS_Interval, Zenon
  <2>. QED
    BY <2>1
<1>3. StrictOrder(S, R)
  BY BeforeOrders, Zenon
<1>4. /\ \A i \in S : r(i) \in 0 .. n - 1
      /\ \A i, j \in S : <<i, j>> \in R <=> r(i) < r(j)
      /\ \A m \in 0 .. n - 1 : \E i \in S : r(i) = m
  <2>. HIDE DEF S, R, r
  <2>. QED
    BY <1>1, <1>2, <1>3, Ranking
<1>5. \A i, j \in S : <<i, j>> \in R <=> before(msgs, key, i, j)
  OBVIOUS
<1>6. \A k \in S : q[k] \in S /\ r(q[k]) = k - 1
  <2>. SUFFICES ASSUME NEW k \in S PROVE q[k] \in S /\ r(q[k]) = k - 1
    BY Zenon
  <2>1. k - 1 \in 0 .. n - 1
    OBVIOUS
  <2>. HIDE DEF r
  <2>2. \E i \in S : r(i) = k - 1
    BY <1>4, <2>1
  <2>. QED
    BY <2>2
<1>7. ASSUME NEW i \in S PROVE \E k \in S : q[k] = i
  <2>1. PICK k \in S : q[k] \in S /\ r(q[k]) = r(i)
    <3>. HIDE DEF r, q
    <3>1. r(i) \in 0 .. n - 1
      BY <1>4
    <3>2. PICK k \in S : k - 1 = r(i)
      BY <3>1
    <3>. QED
      BY <1>6, <3>2, Zenon
  <2>2. \A j \in S : r(i) = r(j) => i = j
    <3>. HIDE DEF r, R
    <3>1. \A j \in S : i = j \/ <<i, j>> \in R \/ <<j, i>> \in R
      BY <1>3 DEF StrictOrder
    <3>2. \A j \in S : i = j \/ r(i) < r(j) \/ r(j) < r(i)
      BY <1>4, <3>1, Zenon
    <3>3. \A a, b \in Nat : a < b => a # b
      OBVIOUS
    <3>4. \A j \in S : r(j) \in Nat
      BY <1>4
    <3>. QED
      BY <3>2, <3>3, <3>4, Zenon
  <2>. HIDE DEF r, q
  <2>. QED
    BY <2>1, <2>2
<1>8. \A k, l \in S : k < l <=> before(msgs, key, q[k], q[l])
  <2>. SUFFICES ASSUME NEW k \in S, NEW l \in S
                PROVE  k < l <=> before(msgs, key, q[k], q[l])
    BY Zenon
  <2>. HIDE DEF r, q, R
  <2>1. before(msgs, key, q[k], q[l]) <=> r(q[k]) < r(q[l])
    BY <1>4, <1>5, <1>6, Zenon
  <2>2. r(q[k]) = k - 1 /\ r(q[l]) = l - 1
    BY <1>6, Zenon
  <2>3. k < l <=> k - 1 < l - 1
    OBVIOUS
  <2>. QED
    BY <2>1, <2>2, <2>3, Zenon
<1>9. \A k, l \in S : q[k] = q[l] => k = l
  <2>. HIDE DEF r, q
  <2>. QED
    BY <1>6
<1>10. interleaveByKey(msgs, key) = [k \in S |-> msgs[q[k]]]
  BY DEF interleaveByKey
<1>11. Permutes(q, n)
  <2>1. q \in [S -> S]
    <3>1. \A k \in S : q[k] \in S
      BY <1>6, Zenon
    <3>. QED
      BY <3>1, Zenon
  <2>. HIDE DEF q
  <2>. QED
    BY <1>7, <1>9, <2>1 DEF Permutes
<1>. HIDE DEF q
<1>. QED
  BY <1>8, <1>10, <1>11

\* A key whose message has turn t has had every turn before.
LEMMA EveryTurn ==
  ASSUME NEW msgs, NEW n \in Nat, DOMAIN msgs = 1 .. n, NEW key,
         NEW l \in 1 .. n, NEW t \in 0 .. turn(msgs, key, l)
  PROVE  \E x \in group(msgs, key, l) : turn(msgs, key, x) = t
<1>. DEFINE G == group(msgs, key, l)
            R == {p \in G \X G : p[1] < p[2]}
<1>1. /\ IsFiniteSet(G) /\ G \in SUBSET (1 .. n) /\ l \in G
      /\ turn(msgs, key, l) \in Nat
  <2>1. IsFiniteSet(G) /\ turn(msgs, key, l) \in Nat
    BY Groups
  <2>. QED
    BY <2>1 DEF group
<1>2. StrictOrder(G, R)
  <2>1. \A x, y \in G : <<x, y>> \in R <=> x < y
    OBVIOUS
  <2>2. \A x \in G : x \in Nat
    BY <1>1
  <2>. HIDE DEF R, G
  <2>. QED
    BY <2>1, <2>2 DEF StrictOrder
<1>3. ASSUME NEW x \in G PROVE turn(msgs, key, x) = rank(G, R, x)
  <2>1. group(msgs, key, x) = G
    BY <1>1, Groups
  <2>2. {h \in G : h < x} = ahead(G, R, x)
    BY DEF ahead
  <2>. HIDE DEF G, R
  <2>. QED
    BY <2>1, <2>2, Zenon DEF turn, rank
<1>. HIDE DEF G, R
<1>4. /\ Cardinality(G) \in Nat /\ rank(G, R, l) \in 0 .. Cardinality(G) - 1
      /\ \A m \in 0 .. Cardinality(G) - 1 : \E x \in G : rank(G, R, x) = m
  BY <1>1, <1>2, Ranking, Zenon
<1>5. t \in 0 .. Cardinality(G) - 1
  BY <1>1, <1>3, <1>4
<1>. QED
  BY <1>3, <1>4, <1>5 DEF G

\* The batch in its new order: a permutation that keeps the order of arrival within
\* a key, and in which no key has two turns while another one waits.
FairOrder(msgs, key, n, q) ==
  /\ Permutes(q, n)
  /\ \A k, l \in 1 .. n : key[msgs[q[k]]] = key[msgs[q[l]]] /\ q[k] < q[l] => k < l
  /\ \A i, k, l \in 1 .. n :
       i < k /\ k < l /\ key[msgs[q[i]]] = key[msgs[q[k]]] =>
         \E x \in i .. k : key[msgs[q[x]]] = key[msgs[q[l]]]

\* interleaveByKey is fair, whatever the batch and the keys.
THEOREM InterleavingIsFair ==
  ASSUME NEW msgs, NEW n \in Nat, DOMAIN msgs = 1 .. n, NEW key
  PROVE  \E q : /\ FairOrder(msgs, key, n, q)
                /\ interleaveByKey(msgs, key) = [k \in 1 .. n |-> msgs[q[k]]]
<1>1. PICK q : /\ Permutes(q, n)
               /\ interleaveByKey(msgs, key) = [k \in 1 .. n |-> msgs[q[k]]]
               /\ \A k, l \in 1 .. n : k < l <=> before(msgs, key, q[k], q[l])
  BY Interleaves
<1>. DEFINE t(x) == turn(msgs, key, x)
            f(x) == firstSeen(msgs, key, x)
            same(x, y) == key[msgs[x]] = key[msgs[y]]
<1>2. \A x \in 1 .. n : q[x] \in 1 .. n
  BY <1>1 DEF Permutes
<1>3. \A x \in 1 .. n : t(x) \in Nat /\ f(x) \in Nat
  <2>. SUFFICES ASSUME NEW x \in 1 .. n PROVE t(x) \in Nat /\ f(x) \in Nat
    OBVIOUS
  <2>1. t(x) \in Nat /\ f(x) \in group(msgs, key, x)
    BY Groups
  <2>. QED
    BY <2>1 DEF group
<1>4. ASSUME NEW x \in 1 .. n, NEW y \in 1 .. n, same(x, y)
      PROVE  f(x) = f(y) /\ (x < y <=> t(x) < t(y))
  <2>1. x \in group(msgs, key, y)
    BY <1>4 DEF group
  <2>. QED
    BY <2>1, Groups
<1>5. ASSUME NEW k \in 1 .. n, NEW l \in 1 .. n
      PROVE  k < l <=> t(q[k]) < t(q[l]) \/ (t(q[k]) = t(q[l]) /\ f(q[k]) < f(q[l]))
  BY <1>1, Zenon DEF before
<1>6. ASSUME NEW k \in 1 .. n, NEW l \in 1 .. n, same(q[k], q[l]), q[k] < q[l]
      PROVE  k < l
  BY <1>2, <1>4, <1>5, <1>6
<1>7. ASSUME NEW i \in 1 .. n, NEW k \in 1 .. n, NEW l \in 1 .. n,
             i < k, k < l, same(q[i], q[k])
      PROVE  \E x \in i .. k : same(q[x], q[l])
  <2>0. /\ q[i] \in 1 .. n /\ q[k] \in 1 .. n /\ q[l] \in 1 .. n
        /\ t(q[i]) \in Nat /\ t(q[k]) \in Nat /\ t(q[l]) \in Nat
        /\ f(q[i]) \in Nat /\ f(q[k]) \in Nat /\ f(q[l]) \in Nat
    BY <1>2, <1>3, Zenon
  <2>1. f(q[i]) = f(q[k]) /\ t(q[i]) < t(q[k])
    <3>1. f(q[i]) = f(q[k])
      BY <1>4, <1>7, <2>0
    <3>2. t(q[i]) < t(q[k]) \/ (t(q[i]) = t(q[k]) /\ f(q[i]) < f(q[k]))
      BY <1>5, <1>7
    <3>. HIDE DEF t, f
    <3>. QED
      BY <2>0, <3>1, <3>2
  <2>2. t(q[k]) < t(q[l]) \/ (t(q[k]) = t(q[l]) /\ f(q[k]) < f(q[l]))
    BY <1>5, <1>7
  <2>3. ASSUME NEW m \in 0 .. t(q[l])
        PROVE  \E x \in 1 .. n : same(q[x], q[l]) /\ t(q[x]) = m /\ f(q[x]) = f(q[l])
    <3>1. PICK g \in group(msgs, key, q[l]) : t(g) = m
      BY <2>0, EveryTurn
    <3>2. g \in 1 .. n /\ same(g, q[l])
      BY DEF group
    <3>3. PICK x \in 1 .. n : q[x] = g
      BY <1>1, <3>2 DEF Permutes
    <3>4. f(g) = f(q[l])
      BY <1>4, <2>0, <3>2
    <3>. QED
      BY <3>1, <3>2, <3>3, <3>4
  <2>4. ASSUME NEW x \in 1 .. n, ~(x < i), ~(k < x) PROVE x \in i .. k
    BY <2>4
  <2>5. CASE f(q[l]) < f(q[i])
    <3>1. t(q[i]) + 1 \in 0 .. t(q[l])
      <4>. HIDE DEF t, f
      <4>. QED
        BY <2>0, <2>1, <2>2
    <3>2. PICK x \in 1 .. n : /\ same(q[x], q[l]) /\ t(q[x]) = t(q[i]) + 1
                              /\ f(q[x]) = f(q[l])
      BY <2>3, <3>1
    <3>3. /\ x < i <=> t(q[x]) < t(q[i]) \/ (t(q[x]) = t(q[i]) /\ f(q[x]) < f(q[i]))
          /\ k < x <=> t(q[k]) < t(q[x]) \/ (t(q[k]) = t(q[x]) /\ f(q[k]) < f(q[x]))
      BY <1>5
    <3>4. ~(x < i) /\ ~(k < x)
      <4>. HIDE DEF t, f
      <4>. QED
        BY <2>0, <2>1, <2>5, <3>2, <3>3
    <3>. QED
      BY <2>4, <3>2, <3>4
  <2>6. CASE ~(f(q[l]) < f(q[i]))
    <3>1. t(q[i]) \in 0 .. t(q[l])
      <4>. HIDE DEF t, f
      <4>. QED
        BY <2>0, <2>1, <2>2
    <3>2. PICK x \in 1 .. n : /\ same(q[x], q[l]) /\ t(q[x]) = t(q[i])
                              /\ f(q[x]) = f(q[l])
      BY <2>3, <3>1
    <3>3. /\ x < i <=> t(q[x]) < t(q[i]) \/ (t(q[x]) = t(q[i]) /\ f(q[x]) < f(q[i]))
          /\ k < x <=> t(q[k]) < t(q[x]) \/ (t(q[k]) = t(q[x]) /\ f(q[k]) < f(q[x]))
      BY <1>5
    <3>4. ~(x < i) /\ ~(k < x)
      <4>. HIDE DEF t, f
      <4>. QED
        BY <2>0, <2>1, <2>6, <3>2, <3>3
    <3>. QED
      BY <2>4, <3>2, <3>4
  <2>. QED
    BY <2>5, <2>6
<1>8. FairOrder(msgs, key, n, q)
  <2>1. \A k, l \in 1 .. n : key[msgs[q[k]]] = key[msgs[q[l]]] /\ q[k] < q[l] => k < l
    BY <1>6
  <2>2. \A i, k, l \in 1 .. n :
          i < k /\ k < l /\ key[msgs[q[i]]] = key[msgs[q[k]]] =>
            \E x \in i .. k : key[msgs[q[x]]] = key[msgs[q[l]]]
    BY <1>7
  <2>. QED
    BY <1>1, <2>1, <2>2, Zenon DEF FairOrder
<1>. QED
  BY <1>1, <1>8
=============================================================================
