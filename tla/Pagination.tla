----------------------------- MODULE Pagination -----------------------------
(***************************************************************************)
(* A client that follows the cursors of GET /v1/jobs or of the audit log   *)
(* from page to page (internal/api, internal/service, internal/store)      *)
(* while rows are added to the table.                                      *)
(*                                                                         *)
(* A job's id is text, and its order stands for the order of the texts.    *)
(* An audit entry's id is a bigserial, which becomes text in the cursor.   *)
(***************************************************************************)
EXTENDS Integers, Sequences, FiniteSets

CONSTANTS
  Tables,           \* the listings a client may walk: "jobs", "audit"
  Ids, Teams,
  Initial,          \* the rows of each table at the start
  Ties,             \* the tables whose rows may share their created_at
  MaxTime,          \* bound on the clock
  MaxRows,          \* bound on the table
  Limits,           \* the numbers the clients ask for
  DefaultPageLimit, \* 50 in internal/service
  MaxPageLimit      \* 100

VARIABLES
  table,   \* which of the two listings the client walks
  rows,    \* the rows of that table
  now,     \* the time
  team,    \* the team the listing is for, or "all" with auth disabled
  cursor,  \* the cursor of the next page, NoCursor, or End
  got      \* what the client received so far, page after page

vars == <<table, rows, now, team, cursor, got>>

Row == [at : 0 .. MaxTime, id : Ids, team : Teams]

\* The id is the primary key of both tables.
Keyed(t, S) == \A r, s \in S : r # s => r.id # s.id /\ (t \in Ties \/ r.at # s.at)

ASSUME PageAssumption ==
  /\ Tables \subseteq {"jobs", "audit"} /\ Ids \subseteq 0 .. 99 /\ Limits \subseteq Int
  /\ MaxTime \in Nat \ {0} /\ MaxPageLimit \in Nat /\ DefaultPageLimit \in 1 .. MaxPageLimit
  /\ \A t \in Tables :
       Initial[t] \subseteq Row /\ IsFiniteSet(Initial[t]) /\ Keyed(t, Initial[t])

NoCursor == [at |-> -1, id |-> -1]
End == [at |-> -2, id |-> -2]

Init ==
  /\ table \in Tables /\ rows = Initial[table] /\ now = MaxTime - 1
  /\ team \in Teams \cup {"all"}
  /\ cursor = NoCursor /\ got = <<>>

-----------------------------------------------------------------------------
\* Decimal numerals compared as text.
textLess(m, n) ==
  LET text(k) == IF k < 10 THEN <<k>> ELSE <<k \div 10, k % 10>>
      s == text(m)
      t == text(n)
  IN  \/ s[1] < t[1]
      \/ s[1] = t[1] /\ Len(s) < Len(t)
      \/ s[1] = t[1] /\ Len(s) = 2 /\ Len(t) = 2 /\ s[2] < t[2]

\* ORDER BY created_at DESC, id DESC, and the row comparisons in WHERE.
Newer(r, s) == r.at > s.at \/ (r.at = s.at /\ r.id > s.id)
NewerText(r, s) == r.at > s.at \/ (r.at = s.at /\ textLess(s.id, r.id))

\* What the query returns, its LIMIT respected: the n-th row has n - 1 newer ones.
newestFirst(S, limit) ==
  [n \in 1 .. (IF Cardinality(S) > limit THEN limit ELSE Cardinality(S)) |->
     CHOOSE r \in S : Cardinality({s \in S : Newer(s, r)}) = n - 1]

visible == {r \in rows : team = "all" \/ r.team = team}

\* Mutation: a cursor without its id.
ListJobsPageByTime(after, limit) ==
  newestFirst({r \in visible : after = NoCursor \/ after.at > r.at}, limit + 1)

ListJobsPage(after, limit) ==
  newestFirst({r \in visible : after = NoCursor \/ Newer(after, r)}, limit + 1)

\* Mutation: the cursor's own row comes again.
ListAuditPageInclusive(after, limit) ==
  newestFirst({r \in rows : after = NoCursor \/ ~ NewerText(r, after)}, limit + 1)

ListAuditPage(after, limit) ==
  newestFirst({r \in rows : after = NoCursor \/ NewerText(after, r)}, limit + 1)

pageLimit(asked) ==
  IF asked <= 0 \/ asked > MaxPageLimit THEN DefaultPageLimit ELSE asked

EncodeCursor(r) == [at |-> r.at, id |-> r.id]

\* Mutation: every page has a cursor for the next one.
answerMore(recs, limit) ==
  LET page == IF Len(recs) > limit THEN SubSeq(recs, 1, limit) ELSE recs
  IN  /\ cursor # End /\ Len(got) <= MaxRows
      /\ got' = got \o page
      /\ cursor' = IF page = <<>> THEN cursor ELSE EncodeCursor(page[Len(page)])
      /\ UNCHANGED <<table, rows, now, team>>

\* One row more than the page tells whether there is a next page, whose cursor
\* is the last row of this one.  A walk that has received more rows than a
\* table can hold is not followed further.
answer(recs, limit) ==
  LET page == IF Len(recs) > limit THEN SubSeq(recs, 1, limit) ELSE recs
  IN  /\ cursor # End /\ Len(got) <= MaxRows
      /\ got' = got \o page
      /\ cursor' = IF Len(recs) > limit THEN EncodeCursor(page[Len(page)]) ELSE End
      /\ UNCHANGED <<table, rows, now, team>>

ListJobs(asked) ==
  LET limit == pageLimit(asked)
  IN  table = "jobs" /\ answer(ListJobsPage(cursor, limit), limit)
ListAudit(asked) ==
  LET limit == pageLimit(asked)
  IN  table = "audit" /\ answer(ListAuditPage(cursor, limit), limit)

\* created_at is the start of the inserting transaction, so a row may become
\* visible after later ones; a bigserial's numbers are handed out upwards.
Insert(r) ==
  /\ Cardinality(rows) < MaxRows /\ \A s \in rows : s.id # r.id
  /\ r.at <= now /\ (table \in Ties \/ \A s \in rows : s.at # r.at)
  /\ (table = "audit" => \A s \in rows : s.id < r.id)
  /\ rows' = rows \cup {r}
  /\ UNCHANGED <<table, now, team, cursor, got>>

Tick == now < MaxTime /\ now' = now + 1 /\ UNCHANGED <<table, rows, team, cursor, got>>

\* The limit of an HTTP request is a query parameter: {} if it is missing or
\* not a number.  A gRPC request has a number, 0 if it is missing.
Queries == {{}} \cup {{l} : l \in Limits}
parseIntQuery(q, fallback) == IF q = {} THEN fallback ELSE CHOOSE n \in q : TRUE
handleListJobs(q) == ListJobs(parseIntQuery(q, DefaultPageLimit))
handleListAudit(q) == ListAudit(parseIntQuery(q, DefaultPageLimit))

NextPage ==
  \/ \E q \in Queries : handleListJobs(q) \/ handleListAudit(q)
  \/ \E l \in Limits \cup {0} : ListJobs(l)

Next == NextPage \/ (\E r \in Row : Insert(r)) \/ Tick

\* The client asks for page after page.
Spec == Init /\ [][Next]_vars /\ WF_vars(NextPage)

-----------------------------------------------------------------------------
\* Every variable keeps its type.
TypeOK ==
  /\ table \in Tables /\ rows \subseteq Row /\ now \in 0 .. MaxTime /\ team \in Teams \cup {"all"}
  /\ cursor \in {NoCursor, End} \cup [at : 0 .. MaxTime, id : Ids]
  /\ got \in Seq(rows)

\* Across all pages the rows come newest first and none comes twice, although
\* the table grows between two queries and rows share their created_at.
NewestFirst ==
  \A i, j \in 1 .. Len(got) : i < j => Newer(got[i], got[j])

\* A client that followed the cursors to the end received every row of its
\* team that was there when it began: no row hides between two pages.
WalkComplete ==
  cursor = End =>
    \A r \in Initial[table] : table = "audit" \/ r \in visible => \E i \in 1 .. Len(got) : got[i] = r

\* Following the cursors ends, for every choice of limits: hasMore is not
\* reported for ever.
WalkEnds == <>(cursor = End)
=============================================================================
