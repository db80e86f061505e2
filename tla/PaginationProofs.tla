-------------------------- MODULE PaginationProofs --------------------------
(***************************************************************************)
(* A client that follows the cursors from page to page gets rows newest    *)
(* first, none twice, and misses none that was there from the start: for   *)
(* any rows, teams, page sizes and insertions.  The one thing that can     *)
(* spoil a walk is that the audit log's cursor compares ids as text:       *)
(* entries of one time whose ids have different numbers of digits.         *)
(*                                                                         *)
(* WalkComplete is not inductive.  What the walk leaves to come has to be  *)
(* ahead of the cursor, and the cursor has to stand for the last row that  *)
(* was received.                                                           *)
(***************************************************************************)
EXTENDS Pagination, FairShareProofs, SequenceTheorems

\* The id is a key of a set of rows.
IdKey(S) == \A r, s \in S : r.id = s.id => r = s

\* Times and ids are numbers.
LEMMA RowNumbers ==
  ASSUME NEW r \in Row
  PROVE  r.at \in Nat /\ r.id \in 0 .. 99 /\ r.id \in Int
<1>1. Ids \in SUBSET (0 .. 99) /\ MaxTime \in Nat
  BY PageAssumption, Zenon
<1>2. r.at \in 0 .. MaxTime /\ r.id \in Ids
  BY Zenon DEF Row
<1>3. \A i \in Ids : i \in 0 .. 99 /\ i \in Int
  BY <1>1
<1>4. \A k \in 0 .. MaxTime : k \in Nat
  BY <1>1
<1>. QED
  BY <1>2, <1>3, <1>4, Zenon

\* Newest first is a strict total order of rows with a primary key.
LEMMA NewerOrders ==
  ASSUME NEW S \in SUBSET Row, IdKey(S)
  PROVE  StrictOrder(S, {p \in S \X S : Newer(p[1], p[2])})
<1>1. \A r \in S : r.at \in Int /\ r.id \in Int
  BY RowNumbers
<1>2. \A r, s \in S : Newer(r, s) <=> <<r, s>> \in {p \in S \X S : Newer(p[1], p[2])}
  OBVIOUS
<1>3. \A r \in S : ~ Newer(r, r)
  BY <1>1 DEF Newer
<1>4. \A r, s, t \in S : Newer(r, s) /\ Newer(s, t) => Newer(r, t)
  BY <1>1 DEF Newer
<1>5. \A r, s \in S : r = s \/ Newer(r, s) \/ Newer(s, r)
  BY <1>1 DEF Newer, IdKey
<1>. HIDE DEF Newer
<1>. QED
  BY <1>2, <1>3, <1>4, <1>5, Zenon DEF StrictOrder

\* What a query returns: rows in order, as many as fit, and behind any of them only
\* rows that are less new.
LEMMA QueryReturns ==
  ASSUME NEW S \in SUBSET Row, IsFiniteSet(S), IdKey(S), NEW limit \in Nat
  PROVE  LET q == newestFirst(S, limit)
         IN  /\ q \in Seq(S) /\ Len(q) <= limit
             /\ \A i, j \in 1 .. Len(q) : i < j => Newer(q[i], q[j])
             /\ \A r \in S, k \in 1 .. Len(q) : (\E i \in 1 .. k : q[i] = r) \/ Newer(q[k], r)
             /\ Len(q) < limit => \A r \in S : \E i \in 1 .. Len(q) : q[i] = r
<1>. DEFINE R == {p \in S \X S : Newer(p[1], p[2])}
            n == Cardinality(S)
            q == newestFirst(S, limit)
            rk == [r \in S |-> rank(S, R, r)]
            m == IF n > limit THEN limit ELSE n
<1>1. StrictOrder(S, R)
  BY NewerOrders, Zenon
<1>2. \A r, s \in S : Newer(r, s) <=> <<r, s>> \in R
  OBVIOUS
<1>3. \A r \in S : Cardinality({s \in S : Newer(s, r)}) = rk[r]
  <2>. SUFFICES ASSUME NEW r \in S PROVE {s \in S : Newer(s, r)} = ahead(S, R, r)
    BY Zenon DEF rank
  <2>. QED
    BY <1>2, Zenon DEF ahead
<1>. HIDE DEF R
<1>4. /\ n \in Nat
      /\ \A r \in S : rk[r] \in 0 .. n - 1
      /\ \A r, s \in S : <<r, s>> \in R <=> rk[r] < rk[s]
      /\ \A k \in 0 .. n - 1 : \E r \in S : rk[r] = k
  BY <1>1, Ranking, Zenon
<1>. HIDE DEF rk, n
<1>5. \A r, s \in S : Newer(r, s) <=> rk[r] < rk[s]
  BY <1>2, <1>4, Zenon
<1>6. m \in Nat /\ m <= limit /\ m <= n /\ (m < limit => m = n)
  BY <1>4
<1>7. q = [k \in 1 .. m |-> CHOOSE r \in S : Cardinality({s \in S : Newer(s, r)}) = k - 1]
  BY Zenon DEF newestFirst, n
<1>. HIDE DEF q, m
<1>8. ASSUME NEW k \in 1 .. m PROVE q[k] \in S /\ rk[q[k]] = k - 1
  <2>1. k - 1 \in 0 .. n - 1
    BY <1>4, <1>6
  <2>2. \E r \in S : Cardinality({s \in S : Newer(s, r)}) = k - 1
    BY <2>1, <1>3, <1>4, Zenon
  <2>3. q[k] = CHOOSE r \in S : Cardinality({s \in S : Newer(s, r)}) = k - 1
    BY <1>7, Zenon
  <2>4. q[k] \in S /\ Cardinality({s \in S : Newer(s, q[k])}) = k - 1
    BY <2>2, <2>3, Zenon
  <2>. QED
    BY <2>4, <1>3, Zenon
<1>9. q \in Seq(S) /\ Len(q) = m
  <2>1. q \in [1 .. m -> S]
    BY <1>7, <1>8, Zenon
  <2>. QED
    BY <2>1, <1>6, LenProperties, SeqDef
<1>10. \A i, j \in 1 .. m : i < j => Newer(q[i], q[j])
  <2>. SUFFICES ASSUME NEW i \in 1 .. m, NEW j \in 1 .. m, i < j PROVE Newer(q[i], q[j])
    OBVIOUS
  <2>1. rk[q[i]] < rk[q[j]]
    BY <1>8, <1>6
  <2>. QED
    BY <2>1, <1>5, <1>8, Zenon
<1>11. ASSUME NEW r \in S, rk[r] < m PROVE rk[r] + 1 \in 1 .. m /\ q[rk[r] + 1] = r
  <2>1. rk[r] + 1 \in 1 .. m /\ (rk[r] + 1) - 1 = rk[r]
    BY <1>4, <1>6, <1>11
  <2>2. q[rk[r] + 1] \in S /\ rk[q[rk[r] + 1]] = rk[r]
    BY <2>1, <1>8
  <2>3. \A s \in S : r = s \/ <<r, s>> \in R \/ <<s, r>> \in R
    BY <1>1, Zenon DEF StrictOrder
  <2>4. ~ (rk[r] < rk[q[rk[r] + 1]]) /\ ~ (rk[q[rk[r] + 1]] < rk[r])
    <3>1. rk[r] \in Int
      BY <1>4
    <3>. QED
      BY <2>2, <3>1
  <2>. QED
    BY <2>1, <2>2, <2>3, <2>4, <1>4, Zenon
<1>12. ASSUME NEW r \in S, NEW k \in 1 .. m PROVE (\E i \in 1 .. k : q[i] = r) \/ Newer(q[k], r)
  <2>1. CASE rk[r] < k
    <3>1. rk[r] + 1 \in 1 .. k /\ rk[r] < m
      BY <2>1, <1>4, <1>6
    <3>. QED
      BY <3>1, <1>11
  <2>2. CASE rk[r] >= k
    <3>1. rk[q[k]] < rk[r]
      BY <2>2, <1>8, <1>4, <1>6
    <3>. QED
      BY <3>1, <1>5, <1>8, Zenon
  <2>. QED
    BY <2>1, <2>2, <1>4, <1>6
<1>13. ASSUME m < limit, NEW r \in S PROVE \E i \in 1 .. m : q[i] = r
  BY <1>13, <1>11, <1>6, <1>4
<1>. QED
  BY <1>6, <1>9, <1>10, <1>12, <1>13 DEF q

InSeq(r, q) == \E i \in 1 .. Len(q) : q[i] = r
Sorted(q) == \A i, j \in 1 .. Len(q) : i < j => Newer(q[i], q[j])

\* The page cut from a query for one row more than fits.
LEMMA PageCut ==
  ASSUME NEW S \in SUBSET Row, IsFiniteSet(S), IdKey(S), NEW limit \in Nat \ {0}
  PROVE  LET recs == newestFirst(S, limit + 1)
             page == IF Len(recs) > limit THEN SubSeq(recs, 1, limit) ELSE recs
         IN  /\ page \in Seq(S) /\ Sorted(page)
             /\ IF Len(recs) > limit
                THEN /\ Len(page) > 0
                     /\ \A r \in S : InSeq(r, page) \/ Newer(page[Len(page)], r)
                ELSE \A r \in S : InSeq(r, page)
<1>. DEFINE recs == newestFirst(S, limit + 1)
            page == IF Len(recs) > limit THEN SubSeq(recs, 1, limit) ELSE recs
<1>0. limit + 1 \in Nat
  OBVIOUS
<1>1. /\ recs \in Seq(S) /\ Len(recs) <= limit + 1
      /\ \A i, j \in 1 .. Len(recs) : i < j => Newer(recs[i], recs[j])
      /\ \A r \in S, k \in 1 .. Len(recs) : (\E i \in 1 .. k : recs[i] = r) \/ Newer(recs[k], r)
      /\ Len(recs) < limit + 1 => \A r \in S : \E i \in 1 .. Len(recs) : recs[i] = r
  BY <1>0, QueryReturns, Zenon
<1>. HIDE DEF recs
<1>2. Len(recs) \in Nat
  BY <1>1
<1>3. CASE Len(recs) > limit
  <2>1. page = SubSeq(recs, 1, limit) /\ limit \in 1 .. Len(recs)
    BY <1>2, <1>3
  <2>2. page \in Seq(S) /\ Len(page) = limit /\ \A i \in 1 .. limit : page[i] = recs[i]
    BY <2>1, <1>1, <1>2
  <2>. HIDE DEF page
  <2>3. Sorted(page)
    BY <2>1, <2>2, <1>1, <1>2 DEF Sorted
  <2>4. \A r \in S : InSeq(r, page) \/ Newer(page[Len(page)], r)
    BY <2>1, <2>2, <1>1, <1>2 DEF InSeq
  <2>. QED
    BY <2>2, <2>3, <2>4, <1>3 DEF page, recs
<1>4. CASE ~ (Len(recs) > limit)
  <2>1. page = recs /\ Len(recs) < limit + 1
    BY <1>2, <1>4
  <2>2. \A r \in S : InSeq(r, page)
    BY <2>1, <1>1 DEF InSeq
  <2>. QED
    BY <2>1, <2>2, <1>1, <1>4 DEF Sorted, recs
<1>. QED
  BY <1>3, <1>4

-----------------------------------------------------------------------------
(* The walk.                                                               *)

Table ==
  /\ table \in Tables /\ rows \in SUBSET Row /\ IsFiniteSet(rows) /\ Keyed(table, rows)
  /\ Initial[table] \subseteq rows

\* The rows the walk is about.
Listed == {r \in rows : table = "audit" \/ r \in visible}
Ahead == {r \in Listed : cursor = NoCursor \/ Newer(cursor, r)}

\* The cursor is the last row received, and what it leaves to come is ahead of it.
Walk ==
  /\ got \in Seq(rows) /\ Sorted(got)
  /\ \/ cursor = NoCursor /\ got = <<>>
     \/ cursor = End
     \/ got # <<>> /\ cursor = EncodeCursor(got[Len(got)])
  /\ \A r \in Initial[table] :
       r \in Listed => InSeq(r, got) \/ (cursor # End /\ r \in Ahead)

IInv == Table /\ Walk

\* The audit log's cursor compares ids as text, the ORDER BY as numbers; this is
\* when the two agree on the rows of one time.
TextAgrees ==
  table = "audit" =>
    \A r, s \in rows : r.at = s.at => (textLess(s.id, r.id) <=> r.id > s.id)

\* A row's cursor is not one of the two marks.
LEMMA Marks ==
  ASSUME NEW r \in Row
  PROVE  EncodeCursor(r) # NoCursor /\ EncodeCursor(r) # End /\ NoCursor # End
<1>1. r.at \in Nat
  BY RowNumbers, Zenon
<1>. QED
  BY <1>1 DEF EncodeCursor, NoCursor, End

\* Newest first is transitive, and a cursor stands for its row.
LEMMA NewerFacts ==
  ASSUME NEW r \in Row, NEW s \in Row, NEW t \in Row
  PROVE  /\ Newer(r, s) /\ Newer(s, t) => Newer(r, t)
         /\ Newer(EncodeCursor(r), s) <=> Newer(r, s)
<1>1. r.at \in Nat /\ r.id \in Int /\ s.at \in Nat /\ s.id \in Int /\ t.at \in Nat /\ t.id \in Int
  BY RowNumbers, Zenon
<1>. QED
  BY <1>1 DEF Newer, EncodeCursor

\* A page of what is ahead keeps the walk in order and complete.
LEMMA AnswerInv ==
  ASSUME IInv, NEW limit \in Nat \ {0}, answer(newestFirst(Ahead, limit + 1), limit)
  PROVE  IInv'
<1>. DEFINE recs == newestFirst(Ahead, limit + 1)
            page == IF Len(recs) > limit THEN SubSeq(recs, 1, limit) ELSE recs
<1>1. /\ cursor # End /\ got' = got \o page
      /\ cursor' = IF Len(recs) > limit THEN EncodeCursor(page[Len(page)]) ELSE End
      /\ UNCHANGED <<table, rows, now, team>>
  BY Zenon DEF answer
<1>2. Table' /\ Listed' = Listed
  BY <1>1 DEF IInv, Table, Keyed, Listed, visible
<1>3. Ahead \in SUBSET Row /\ IsFiniteSet(Ahead) /\ IdKey(Ahead) /\ Ahead \in SUBSET rows
  <2>1. Ahead \in SUBSET rows
    BY DEF Ahead, Listed
  <2>. QED
    BY <2>1, FS_Subset DEF IInv, Table, Keyed, IdKey
<1>4. /\ page \in Seq(Ahead) /\ Sorted(page)
      /\ IF Len(recs) > limit
         THEN /\ Len(page) > 0
              /\ \A r \in Ahead : InSeq(r, page) \/ Newer(page[Len(page)], r)
         ELSE \A r \in Ahead : InSeq(r, page)
  BY <1>3, PageCut, Zenon
<1>. HIDE DEF recs, page
<1>5. /\ got \in Seq(rows) /\ page \in Seq(rows) /\ got' \in Seq(rows)
      /\ Len(got') = Len(got) + Len(page) /\ Len(got) \in Nat /\ Len(page) \in Nat
      /\ \A i \in 1 .. Len(got) : got'[i] = got[i]
      /\ \A i \in 1 .. Len(page) : got'[Len(got) + i] = page[i]
  <2>1. got \in Seq(rows) /\ page \in Seq(rows)
    BY <1>3, <1>4 DEF IInv, Walk
  <2>2. got' = got \o page
    BY <1>1
  <2>. QED
    BY <2>1, <2>2, ConcatProperties
<1>6. \A r : InSeq(r, got) \/ InSeq(r, page) => InSeq(r, got')
  <2>. SUFFICES ASSUME NEW r, InSeq(r, got) \/ InSeq(r, page) PROVE InSeq(r, got')
    OBVIOUS
  <2>1. ASSUME NEW i \in 1 .. Len(got), got[i] = r PROVE InSeq(r, got')
    <3>1. i \in 1 .. Len(got') /\ got'[i] = r
      BY <2>1, <1>5
    <3>. QED
      BY <3>1, Zenon DEF InSeq
  <2>2. ASSUME NEW i \in 1 .. Len(page), page[i] = r PROVE InSeq(r, got')
    <3>1. Len(got) + i \in 1 .. Len(got') /\ got'[Len(got) + i] = r
      BY <2>2, <1>5
    <3>. QED
      BY <3>1, Zenon DEF InSeq
  <2>. QED
    BY <2>1, <2>2, Zenon DEF InSeq
<1>7. \A i \in 1 .. Len(got), j \in 1 .. Len(page) : Newer(got[i], page[j])
  <2>. SUFFICES ASSUME NEW i \in 1 .. Len(got), NEW j \in 1 .. Len(page)
                PROVE  Newer(got[i], page[j])
    OBVIOUS
  <2>1. got # <<>> /\ cursor = EncodeCursor(got[Len(got)])
    BY <1>1 DEF IInv, Walk
  <2>. DEFINE l == got[Len(got)]
  <2>2. got[i] \in Row /\ l \in Row /\ page[j] \in Row /\ page[j] \in Ahead
    BY <1>4, <1>5 DEF IInv, Table
  <2>3. got[i] = l \/ Newer(got[i], l)
    BY <1>5 DEF IInv, Walk, Sorted
  <2>. HIDE DEF l
  <2>4. Newer(l, page[j])
    BY <2>1, <2>2, Marks, NewerFacts, Zenon DEF Ahead, l
  <2>. QED
    BY <2>2, <2>3, <2>4, NewerFacts, Zenon
<1>8. Sorted(got')
  <2>. SUFFICES ASSUME NEW i \in 1 .. Len(got'), NEW j \in 1 .. Len(got'), i < j
                PROVE  Newer(got'[i], got'[j])
    BY Zenon DEF Sorted
  <2>1. CASE j <= Len(got)
    <3>1. i \in 1 .. Len(got) /\ j \in 1 .. Len(got)
      BY <2>1, <1>5
    <3>. QED
      BY <3>1, <1>5, Zenon DEF IInv, Walk, Sorted
  <2>2. CASE i > Len(got)
    <3>1. /\ i - Len(got) \in 1 .. Len(page) /\ j - Len(got) \in 1 .. Len(page)
          /\ i - Len(got) < j - Len(got)
          /\ i = Len(got) + (i - Len(got)) /\ j = Len(got) + (j - Len(got))
      BY <2>2, <1>5
    <3>2. got'[i] = page[i - Len(got)] /\ got'[j] = page[j - Len(got)]
      BY <3>1, <1>5, Zenon
    <3>. QED
      BY <3>1, <3>2, <1>4, Zenon DEF Sorted
  <2>3. CASE i <= Len(got) /\ j > Len(got)
    <3>1. /\ i \in 1 .. Len(got) /\ j - Len(got) \in 1 .. Len(page)
          /\ j = Len(got) + (j - Len(got))
      BY <2>3, <1>5
    <3>2. got'[i] = got[i] /\ got'[j] = page[j - Len(got)]
      BY <3>1, <1>5, Zenon
    <3>. QED
      BY <3>1, <3>2, <1>7, Zenon
  <2>. QED
    BY <2>1, <2>2, <2>3, <1>5
<1>9. CASE Len(recs) > limit
  <2>1. cursor' = EncodeCursor(page[Len(page)]) /\ Len(page) > 0
    BY <1>1, <1>4, <1>9, Zenon
  <2>2. got' # <<>> /\ got'[Len(got')] = page[Len(page)] /\ page[Len(page)] \in Row
    <3>1. Len(page) \in 1 .. Len(page) /\ Len(got') = Len(got) + Len(page) /\ Len(got') > 0
      BY <2>1, <1>5
    <3>2. got'[Len(got')] = page[Len(page)]
      BY <3>1, <1>5, Zenon
    <3>3. page[Len(page)] \in rows
      BY <3>1, <1>5
    <3>4. got' # <<>>
      BY <3>1
    <3>. QED
      BY <3>2, <3>3, <3>4 DEF IInv, Table
  <2>3. ASSUME NEW r \in Initial[table], r \in Listed
        PROVE  InSeq(r, got') \/ (cursor' # End /\ r \in Ahead')
    <3>1. InSeq(r, got) \/ r \in Ahead
      BY <2>3, Zenon DEF IInv, Walk
    <3>2. InSeq(r, got') \/ Newer(page[Len(page)], r)
      BY <3>1, <1>4, <1>6, <1>9, Zenon
    <3>3. r \in Row
      BY DEF IInv, Table
    <3>4. Newer(page[Len(page)], r) => Newer(cursor', r)
      BY <3>3, <2>1, <2>2, NewerFacts, Zenon
    <3>5. cursor' # End
      BY <2>1, <2>2, Marks, Zenon
    <3>. QED
      BY <3>2, <3>4, <3>5, <1>2, <2>3, Zenon DEF Ahead
  <2>4. cursor' = EncodeCursor(got'[Len(got')])
    BY <2>1, <2>2, Zenon
  <2>. QED
    BY <2>2, <2>3, <2>4, <1>1, <1>2, <1>5, <1>8, Zenon DEF IInv, Walk
<1>10. CASE ~ (Len(recs) > limit)
  <2>1. cursor' = End
    BY <1>1, <1>10
  <2>2. ASSUME NEW r \in Initial[table], r \in Listed PROVE InSeq(r, got')
    BY <2>2, <1>4, <1>6, <1>10, Zenon DEF IInv, Walk
  <2>. QED
    BY <2>1, <2>2, <1>1, <1>2, <1>5, <1>8, Zenon DEF IInv, Walk
<1>. QED
  BY <1>9, <1>10, Zenon

\* pageLimit gives a page at least one row, whatever was asked for.
LEMMA LimitPositive ==
  ASSUME NEW asked \in Int
  PROVE  pageLimit(asked) \in Nat \ {0}
<1>1. MaxPageLimit \in Nat /\ DefaultPageLimit \in 1 .. MaxPageLimit
  BY PageAssumption, Zenon
<1>. QED
  BY <1>1 DEF pageLimit

\* A query has a number: its own or the default.
LEMMA QueryNumber ==
  ASSUME NEW query \in Queries
  PROVE  parseIntQuery(query, DefaultPageLimit) \in Int
<1>1. MaxPageLimit \in Nat /\ DefaultPageLimit \in 1 .. MaxPageLimit /\ Limits \in SUBSET Int
  BY PageAssumption, Zenon
<1>2. DefaultPageLimit \in Int
  BY <1>1
<1>3. CASE query = {}
  BY <1>2, <1>3, Zenon DEF parseIntQuery
<1>4. ASSUME NEW l \in Limits, query = {l} PROVE parseIntQuery(query, DefaultPageLimit) \in Int
  <2>1. query # {} /\ (CHOOSE n \in query : TRUE) \in query
    BY <1>4, Zenon
  <2>2. parseIntQuery(query, DefaultPageLimit) = l
    BY <2>1, <1>4, Zenon DEF parseIntQuery
  <2>. QED
    BY <2>2, <1>1, Zenon
<1>. QED
  BY <1>3, <1>4, Zenon DEF Queries

\* The two orders put the same rows behind the cursor.
LEMMA TextOrder ==
  ASSUME TextAgrees, IInv, table = "audit", cursor # NoCursor, cursor # End, NEW r \in rows
  PROVE  NewerText(cursor, r) <=> Newer(cursor, r)
<1>1. PICK c \in rows : cursor = EncodeCursor(c)
  <2>1. got \in Seq(rows) /\ got # <<>> /\ cursor = EncodeCursor(got[Len(got)])
    BY DEF IInv, Walk
  <2>2. got[Len(got)] \in rows
    BY <2>1
  <2>. QED
    BY <2>1, <2>2, Zenon
<1>2. cursor.at = c.at /\ cursor.id = c.id
  BY <1>1, Zenon DEF EncodeCursor
<1>3. c.at = r.at => (textLess(r.id, c.id) <=> c.id > r.id)
  BY Zenon DEF TextAgrees
<1>. QED
  BY <1>2, <1>3, Zenon DEF Newer, NewerText

\* A page of either listing keeps the invariant.
LEMMA ListInv ==
  ASSUME TextAgrees, IInv, NEW asked \in Int,
         ListJobs(asked) \/ ListAudit(asked)
  PROVE  IInv'
<1>. DEFINE limit == pageLimit(asked)
<1>1. limit \in Nat \ {0}
  BY LimitPositive, Zenon
<1>. HIDE DEF limit
<1>2. CASE ListJobs(asked)
  <2>1. "jobs" # "audit" /\ table = "jobs" /\ answer(ListJobsPage(cursor, limit), limit)
    BY <1>2, Zenon DEF ListJobs, limit
  <2>2. {r \in visible : cursor = NoCursor \/ Newer(cursor, r)} = Ahead
    BY <2>1, Zenon DEF Ahead, Listed, visible
  <2>. QED
    BY <2>1, <2>2, <1>1, AnswerInv, Zenon DEF ListJobsPage
<1>3. CASE ListAudit(asked)
  <2>1. table = "audit" /\ answer(ListAuditPage(cursor, limit), limit)
    BY <1>3, Zenon DEF ListAudit, limit
  <2>2. cursor # End
    BY <2>1, Zenon DEF answer
  <2>3. {r \in rows : cursor = NoCursor \/ NewerText(cursor, r)} = Ahead
    BY <2>1, <2>2, TextOrder, Zenon DEF Ahead, Listed
  <2>. QED
    BY <2>1, <2>3, <1>1, AnswerInv, Zenon DEF ListAuditPage
<1>. QED
  BY <1>2, <1>3, Zenon

\* A row that is inserted stands ahead of the cursor or behind it, and neither
\* disturbs what was received.
LEMMA InsertInv ==
  ASSUME IInv, NEW r \in Row, Insert(r)
  PROVE  Walk'
<1>1. /\ rows' = rows \cup {r} /\ UNCHANGED <<table, now, team, cursor, got>>
  BY Zenon DEF Insert
<1>3. ASSUME NEW s \in Initial[table]
      PROVE  (s \in Listed' <=> s \in Listed) /\ (s \in Ahead' <=> s \in Ahead)
  BY <1>1, Zenon DEF IInv, Table, Listed, Ahead, visible
<1>4. got' \in Seq(rows')
  <2>1. got \in Seq(rows) /\ rows \in SUBSET rows'
    BY <1>1 DEF IInv, Walk
  <2>. QED
    BY <2>1, <1>1
<1>. QED
  BY <1>1, <1>3, <1>4, Zenon DEF IInv, Walk

\* The table only grows, and keeps its primary key.
LEMMA TableStep ==
  ASSUME Table, [Next]_vars
  PROVE  Table' /\ table' = table /\ rows \in SUBSET rows'
<1>1. ASSUME NEW r \in Row, Insert(r)
      PROVE  Table' /\ table' = table /\ rows \in SUBSET rows'
  <2>1. /\ rows' = rows \cup {r} /\ table' = table
        /\ \A s \in rows : s.id # r.id
        /\ table \in Ties \/ \A s \in rows : s.at # r.at
    BY <1>1, Zenon DEF Insert
  <2>2. IsFiniteSet(rows')
    BY <2>1, FS_AddElement, Zenon DEF Table
  <2>3. Keyed(table, rows')
    BY <2>1, Zenon DEF Table, Keyed
  <2>. QED
    BY <2>1, <2>2, <2>3, Zenon DEF Table
<1>2. CASE UNCHANGED <<table, rows>>
  BY <1>2, Zenon DEF Table, Keyed
<1>3. CASE NextPage \/ Tick \/ UNCHANGED vars
  BY <1>2, <1>3, Zenon DEF NextPage, handleListJobs, handleListAudit, ListJobs, ListAudit, answer,
     Tick, vars
<1>. QED
  BY <1>1, <1>3, Zenon DEF Next

LEMMA TableInv == Spec => []Table
<1>1. Init => Table
  BY PageAssumption, Zenon DEF Init, Table
<1>. QED
  BY <1>1, TableStep, PTL DEF Spec

\* While the two orders agree on the rows there are, they agreed on the rows there
\* were, and the walk invariant is inductive.
LEMMA WalkInv == Spec => [](TextAgrees => IInv)
<1>1. Init => (TextAgrees => IInv)
  <2>. SUFFICES ASSUME Init PROVE IInv
    OBVIOUS
  <2>1. Table
    BY PageAssumption, Zenon DEF Init, Table
  <2>2. got = <<>> /\ cursor = NoCursor
    BY DEF Init
  <2>3. got \in Seq(rows) /\ Sorted(got)
    BY <2>2 DEF Sorted
  <2>4. NoCursor # End
    BY DEF NoCursor, End
  <2>. QED
    BY <2>1, <2>2, <2>3, <2>4, Zenon DEF IInv, Walk, Ahead
<1>2. Table /\ (TextAgrees => IInv) /\ [Next]_vars => (TextAgrees' => IInv')
  <2>. SUFFICES ASSUME Table, TextAgrees => IInv, [Next]_vars, TextAgrees' PROVE IInv'
    OBVIOUS
  <2>0. TextAgrees /\ IInv /\ Table'
    BY TableStep, Zenon DEF TextAgrees
  <2>1. ASSUME NEW l \in Int, ListJobs(l) \/ ListAudit(l) PROVE IInv'
    BY <2>0, <2>1, ListInv, Zenon
  <2>2. ASSUME NEW query \in Queries, handleListJobs(query) \/ handleListAudit(query) PROVE IInv'
    BY <2>1, <2>2, QueryNumber, Zenon DEF handleListJobs, handleListAudit
  <2>3. ASSUME NEW l \in Limits \cup {0}, ListJobs(l) PROVE IInv'
    <3>1. Limits \in SUBSET Int
      BY PageAssumption, Zenon
    <3>2. l \in Int
      BY <3>1
    <3>. QED
      BY <3>2, <2>1, <2>3, Zenon
  <2>4. ASSUME NEW r \in Row, Insert(r) PROVE IInv'
    BY <2>0, <2>4, InsertInv, Zenon DEF IInv
  <2>5. CASE Tick \/ UNCHANGED vars
    <3>1. UNCHANGED <<table, rows, team, cursor, got>>
      BY <2>5, Zenon DEF Tick, vars
    <3>. QED
      BY <2>0, <3>1 DEF IInv, Walk, Sorted, InSeq, Listed, Ahead, visible
  <2>. QED
    BY <2>2, <2>3, <2>4, <2>5, Zenon DEF Next, NextPage
<1>. QED
  BY <1>1, <1>2, TableInv, PTL DEF Spec

\* ListJobsPage and ListAuditPage: across all pages the rows come newest first and
\* none comes twice.  For jobs this is so however many share a created_at; for the
\* audit log, as long as the entries of one time compare as text like as numbers.
THEOREM PagesAreInOrder == Spec => [](TextAgrees => NewestFirst)
<1>1. IInv => NewestFirst
  BY Zenon DEF IInv, Walk, Sorted, NewestFirst
<1>. QED
  BY <1>1, WalkInv, PTL

\* No row hides between two pages, under the same condition: a walk that has ended
\* received every visible row that was there when it started.
THEOREM NothingIsSkipped == Spec => [](TextAgrees => WalkComplete)
<1>1. IInv => WalkComplete
  BY Zenon DEF IInv, Table, Walk, Listed, visible, InSeq, WalkComplete
<1>. QED
  BY <1>1, WalkInv, PTL

\* When no two audit entries share a created_at, a walk of either listing is in
\* order and complete without any condition.
THEOREM WalksWithoutTies ==
  ASSUME "audit" \notin Ties
  PROVE  Spec => [](NewestFirst /\ WalkComplete)
<1>1. Table => TextAgrees
  <2>. SUFFICES ASSUME Table, table = "audit", NEW r \in rows, NEW s \in rows, r.at = s.at
                PROVE  textLess(s.id, r.id) <=> r.id > s.id
    BY Zenon DEF TextAgrees
  <2>1. r = s
    BY Zenon DEF Table, Keyed
  <2>2. r.id \in 0 .. 99
    BY RowNumbers, Zenon DEF Table
  <2>3. ~ textLess(r.id, r.id)
    BY <2>2 DEF textLess
  <2>. QED
    BY <2>1, <2>2, <2>3
<1>. QED
  BY <1>1, TableInv, PagesAreInOrder, NothingIsSkipped, PTL

-----------------------------------------------------------------------------
(* The types, whatever the audit log's ids are.                            *)

\* A page is a sequence of stored rows, whichever of them the cursor selects.
LEMMA AnswerTyped ==
  ASSUME Table, TypeOK, NEW S \in SUBSET rows, NEW limit \in Nat \ {0},
         answer(newestFirst(S, limit + 1), limit)
  PROVE  TypeOK'
<1>. DEFINE recs == newestFirst(S, limit + 1)
            page == IF Len(recs) > limit THEN SubSeq(recs, 1, limit) ELSE recs
            more == Len(recs) > limit
<1>1. /\ got' = got \o page /\ UNCHANGED <<table, rows, now, team>>
      /\ cursor' = IF more THEN EncodeCursor(page[Len(page)]) ELSE End
  BY Zenon DEF answer
<1>2. S \in SUBSET Row /\ IsFiniteSet(S) /\ IdKey(S)
  BY FS_Subset DEF Table, Keyed, IdKey
<1>3. page \in Seq(S) /\ (more => Len(page) > 0)
  BY <1>2, PageCut, Zenon
<1>. HIDE DEF recs, page, more
<1>4. got' \in Seq(rows')
  <2>1. got \in Seq(rows) /\ page \in Seq(rows)
    BY <1>3 DEF TypeOK
  <2>. QED
    BY <1>1, <2>1
<1>5. cursor' \in {NoCursor, End} \cup [at : 0 .. MaxTime, id : Ids]
  <2>1. CASE more
    <3>1. page[Len(page)] \in S
      BY <1>3, <2>1
    <3>2. page[Len(page)] \in Row
      BY <1>2, <3>1, Zenon
    <3>3. EncodeCursor(page[Len(page)]) \in [at : 0 .. MaxTime, id : Ids]
      BY <3>2, Zenon DEF EncodeCursor, Row
    <3>. QED
      BY <1>1, <2>1, <3>3, Zenon
  <2>2. CASE ~more
    BY <1>1, <2>2, Zenon
  <2>. QED
    BY <2>1, <2>2
<1>. QED
  BY <1>1, <1>4, <1>5, Zenon DEF TypeOK

\* Every variable keeps its type: what a client has received is always a sequence of
\* stored rows, and a cursor is a row's time and id or one of the two marks.
THEOREM WalkTyped == Spec => []TypeOK
<1>1. Init => TypeOK
  <2>. SUFFICES ASSUME Init PROVE TypeOK
    OBVIOUS
  <2>1. now \in 0 .. MaxTime /\ got \in Seq(rows)
    BY PageAssumption DEF Init
  <2>. QED
    BY <2>1, PageAssumption, Zenon DEF Init, TypeOK
<1>2. Table /\ TypeOK /\ [Next]_vars => TypeOK'
  <2>. SUFFICES ASSUME Table, TypeOK, [Next]_vars PROVE TypeOK'
    OBVIOUS
  <2>1. ASSUME NEW l \in Int, ListJobs(l) \/ ListAudit(l) PROVE TypeOK'
    <3>1. pageLimit(l) \in Nat \ {0}
      BY LimitPositive, Zenon
    <3>2. CASE ListJobs(l)
      <4>. DEFINE S == {r \in visible : cursor = NoCursor \/ Newer(cursor, r)}
      <4>1. S \in SUBSET rows
        BY Zenon DEF visible
      <4>2. answer(newestFirst(S, pageLimit(l) + 1), pageLimit(l))
        BY <3>2, Zenon DEF ListJobs, ListJobsPage
      <4>. HIDE DEF S
      <4>. QED
        BY <3>1, <4>1, <4>2, AnswerTyped, Zenon
    <3>3. CASE ListAudit(l)
      <4>. DEFINE S == {r \in rows : cursor = NoCursor \/ NewerText(cursor, r)}
      <4>1. S \in SUBSET rows
        BY Zenon
      <4>2. answer(newestFirst(S, pageLimit(l) + 1), pageLimit(l))
        BY <3>3, Zenon DEF ListAudit, ListAuditPage
      <4>. HIDE DEF S
      <4>. QED
        BY <3>1, <4>1, <4>2, AnswerTyped, Zenon
    <3>. QED
      BY <2>1, <3>2, <3>3, Zenon
  <2>2. ASSUME NEW query \in Queries, handleListJobs(query) \/ handleListAudit(query) PROVE TypeOK'
    BY <2>1, <2>2, QueryNumber, Zenon DEF handleListJobs, handleListAudit
  <2>3. ASSUME NEW l \in Limits \cup {0}, ListJobs(l) PROVE TypeOK'
    <3>1. Limits \in SUBSET Int
      BY PageAssumption, Zenon
    <3>2. l \in Int
      BY <3>1
    <3>. QED
      BY <3>2, <2>1, <2>3, Zenon
  <2>4. ASSUME NEW r \in Row, Insert(r) PROVE TypeOK'
    <3>1. rows' = rows \cup {r} /\ UNCHANGED <<table, now, team, cursor, got>>
      BY <2>4, Zenon DEF Insert
    <3>2. got \in Seq(rows) /\ rows \in SUBSET rows'
      BY <3>1 DEF TypeOK
    <3>3. got' \in Seq(rows')
      BY <3>1, <3>2
    <3>. QED
      BY <3>1, <3>3, Zenon DEF TypeOK
  <2>5. CASE Tick
    <3>1. now' \in 0 .. MaxTime
      BY <2>5, PageAssumption DEF Tick, TypeOK
    <3>. QED
      BY <2>5, <3>1, Zenon DEF Tick, TypeOK
  <2>6. CASE UNCHANGED vars
    BY <2>6, Zenon DEF vars, TypeOK
  <2>. QED
    BY <2>2, <2>3, <2>4, <2>5, <2>6, Zenon DEF Next, NextPage
<1>. QED
  BY <1>1, <1>2, TableInv, PTL DEF Spec

=============================================================================
