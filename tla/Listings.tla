------------------------------ MODULE Listings ------------------------------
(***************************************************************************)
(* The five listings of the API and their pages.  Each service builds a     *)
(* query by the clauses below and hands it to getDataByPagination, which adds *)
(* an offset and a limit.  A page is a request of its own: between two      *)
(* pages a reader asks for, the rows of the table come, go and change.      *)
(***************************************************************************)
EXTENDS Naturals, Sequences, FiniteSets

CONSTANTS
  Contents,   \* bound: what rows come to hold
  Questions,  \* bound: the listings asked for, with their filters
  Limits,     \* bound: rows asked for per page
  MaxRows     \* bound: rows ever inserted

Listing == {"clan", "event", "collectMoney", "pay", "user"}

Filter == {"keyword", "id", "clanId", "userId", "memberId", "description"}

\* The filters each listing's DTO has; each has one value here.
FiltersOf == [clan |-> {"keyword", "id"}, event |-> {"keyword", "clanId"},
  collectMoney |-> {"keyword", "id", "clanId", "userId", "description"},
  pay |-> {"keyword", "id", "clanId"}, user |-> {"keyword", "id", "clanId", "memberId"}]

\* What is true of a row: the caller is a member of its clan; its user is the caller;
\* its name (or content) has the keyword, or its description has; the value of the
\* filter fits.  A row of clans or users is of one clan, too.
Trait ==
  {"ofCallersClan", "ofCaller", "keyword", "keywordInDescription", "clanId", "userId", "memberId"}

Question == {q \in [listing : Listing, filters : SUBSET Filter] :
               q.filters \subseteq FiltersOf[q.listing]}

ASSUME ListingsAssumption ==
  /\ Contents \subseteq SUBSET Trait
  /\ Questions \subseteq Question
  /\ Limits \subseteq Nat /\ MaxRows \in Nat

VARIABLES
  table,      \* the rows of the listed table; a row's index is its id, and its age
  reader,     \* the pages somebody asks for, one after the other, and the rows of each
  came,       \* auxiliary: rows that came into his listing since he began
  left        \* auxiliary: rows that left it

listingVars == <<table, reader, came, left>>

Entry == [traits : SUBSET Trait, state : {"live", "soft"}]

Reader == [status : {"waiting", "reading", "done", "failed"}, asks : Question,
           limit : Nat, first : {0, 1}, page : Nat, got : Seq(SUBSET (1 .. MaxRows))]

ListingsTypeOK ==
  /\ table \in Seq(Entry) /\ Len(table) <= MaxRows
  /\ reader \in Reader
  /\ came \subseteq DOMAIN table
  /\ left \subseteq DOMAIN table

-----------------------------------------------------------------------------
(* The queries *)

\* A clause of a query is added when the filter it depends on is given (or "always").
\* where() forgets the conditions before it, andWhere() does not.
Clause(how, on, condition) == [how |-> how, on |-> on, condition |-> condition]

\* Faulty: the keyword comes last.
ClanClausesReordered ==
  <<Clause("andWhere", "id", "id"), Clause("andWhere", "always", "ofCallersClan"),
    Clause("where", "keyword", "keyword")>>

ClanClauses ==
  <<Clause("where", "keyword", "keyword"), Clause("andWhere", "id", "id"),
    Clause("andWhere", "always", "ofCallersClan")>>

EventClauses ==
  <<Clause("andWhere", "always", "ofCallersClan"), Clause("where", "keyword", "keyword"),
    Clause("andWhere", "clanId", "clanId")>>

\* userId is compared with :userId, which the condition on members has bound to the
\* caller's id; description is compared with the keyword.  collectMoney.clan_id is
\* no property, so its alias stays without quotes, and the database has no
\* collectmoney.
CollectMoneyClauses ==
  <<Clause("andWhere", "always", "ofCallersClan"), Clause("where", "keyword", "keyword"),
    Clause("andWhere", "clanId", "fails"), Clause("andWhere", "userId", "ofCaller"),
    Clause("andWhere", "description", "keywordInDescription")>>

\* The condition on members is one on the join, which keeps every row; :clanId is
\* not bound.
PayClauses == <<Clause("where", "keyword", "keyword"), Clause("andWhere", "clanId", "fails")>>

UserClauses ==
  <<Clause("where", "keyword", "keyword"), Clause("andWhere", "id", "id"),
    Clause("andWhere", "clanId", "clanId")>>

Clauses == [clan |-> ClanClauses, event |-> EventClauses, collectMoney |-> CollectMoneyClauses,
          pay |-> PayClauses, user |-> UserClauses]

Taken(q, s) == s.on = "always" \/ s.on \in q.filters

\* The conditions left when the query runs.
Conditions(q) == LET S == Clauses[q.listing] IN
  {S[i].condition : i \in {i \in DOMAIN S :
     /\ Taken(q, S[i])
     /\ \A j \in i + 1 .. Len(S) : S[j].how = "where" => ~Taken(q, S[j])}}

\* The query cannot be run; or paginationDto.keyword.toString() of no keyword.
Fails(q) ==
  \/ "fails" \in Conditions(q)
  \/ "keywordInDescription" \in Conditions(q) /\ "keyword" \notin q.filters

\* The id asked for is 1.
Meets(t, i, condition) == IF condition = "id" THEN i = 1 ELSE condition \in t[i].traits

ListedOf(t, q) == {i \in DOMAIN t :
  t[i].state = "live" /\ \A condition \in Conditions(q) : Meets(t, i, condition)}

Listed(q) == ListedOf(table, q)

\* orderBy createdAt DESC; the rest are in the order of their ids, since a page of a
\* query with joins is.
NewestFirst(q) == q.listing \in {"clan", "event"}

Precedes(q, x, y) == IF NewestFirst(q) THEN x > y ELSE x < y

\* The rows listed before x; their number is the place of x in the answer.
Earlier(q, x) == {y \in Listed(q) : Precedes(q, y, x)}

Rank(q, x) == Cardinality(Earlier(q, x))

-----------------------------------------------------------------------------
(* Pages *)

\* Faulty: pages are counted from 0; the offset is not multiplied.
OffsetFromZero(page, limit) == page * limit
OffsetUnscaled(page, limit) == IF page = 0 THEN 0 ELSE page - 1

Offset(page, limit) == IF page = 0 THEN 0 ELSE (page - 1) * limit

\* skip(offset).take(limit); take(0) is no limit.
Page(q, page, limit) == {x \in Listed(q) :
  /\ Rank(q, x) >= Offset(page, limit)
  /\ limit = 0 \/ Rank(q, x) < Offset(page, limit) + limit}

ListingsInit ==
  /\ table = <<>>
  /\ \E q \in Questions : reader = [status |-> "waiting", asks |-> q, limit |-> 0,
                                    first |-> 1, page |-> 1, got |-> <<>>]
  /\ came = {}
  /\ left = {}

\* A question is asked, again when all its pages are read.
BeginReading == \E limit \in Limits, first \in {0, 1} :
  /\ reader.status # "reading"
  /\ reader' = [status |-> IF Fails(reader.asks) THEN "failed" ELSE "reading",
                asks |-> reader.asks, limit |-> limit, first |-> first, page |-> first,
                got |-> <<>>]
  /\ came' = {} /\ left' = {}
  /\ UNCHANGED table

\* A reader goes on to the next page until one is not full.
ReadPage ==
  LET rows == Page(reader.asks, reader.page, reader.limit)
      last == reader.limit = 0 \/ Cardinality(rows) < reader.limit
  IN
  /\ reader.status = "reading"
  /\ reader' = [status |-> IF last THEN "done" ELSE "reading", asks |-> reader.asks,
                limit |-> reader.limit, first |-> reader.first, page |-> reader.page + 1,
                got |-> Append(reader.got, rows)]
  /\ UNCHANGED <<table, came, left>>

-----------------------------------------------------------------------------
(* The table, as the requests of the other modules change it *)

Change(new) ==
  LET before == Listed(reader.asks)
      after  == ListedOf(new, reader.asks)
      noted  == reader.status \in {"reading", "done"}
  IN  /\ table' = new
      /\ came' = IF noted THEN came \cup (after \ before) ELSE came
      /\ left' = IF noted THEN left \cup (before \ after) ELSE left
      /\ UNCHANGED reader

NewEntry(traits) == [traits |-> traits, state |-> "live"]

Insert == \E traits \in Contents :
  /\ Len(table) < MaxRows
  /\ Change(Append(table, NewEntry(traits)))

\* The row is saved with other contents, or the caller's membership changes.
Edit == \E i \in DOMAIN table, traits \in Contents :
  /\ table[i].state = "live" /\ traits # table[i].traits
  /\ Change([table EXCEPT ![i] = NewEntry(traits)])

\* Faulty: the row is gone for good.
RemovedForGood(row) == [row EXCEPT !.state = "gone"]

Removed(row) == [row EXCEPT !.state = "soft"]

Remove == \E i \in DOMAIN table :
  /\ table[i].state = "live"
  /\ Change([table EXCEPT ![i] = Removed(@)])

ListingsNext == BeginReading \/ ReadPage \/ Insert \/ Edit \/ Remove

ListingsSpec == ListingsInit /\ [][ListingsNext]_listingVars

-----------------------------------------------------------------------------
(* Properties *)

\* The rows a question is about, read from its name: those of the caller's clans that
\* fit every filter.
AskedFor(q) == {i \in DOMAIN table : LET row == table[i] IN
  /\ row.state = "live"
  /\ q.listing # "user" => "ofCallersClan" \in row.traits
  /\ q.filters \cap {"keyword", "clanId", "userId", "memberId"} \subseteq row.traits
  /\ "id" \in q.filters => i = 1
  /\ "description" \in q.filters => "keywordInDescription" \in row.traits}

\* Filters no query reads.
Ignored(q) == IF q.listing \in {"pay", "collectMoney"} THEN {"id"} ELSE {"memberId"}

\* A listing answers with the rows it is asked for, with these exceptions: of other
\* clans' rows, payments are always listed, and events and collections are as soon
\* as there is a keyword; a collection of a given user is one of the caller's; and some
\* filters are ignored.  Payments and collections cannot be listed by clan, nor
\* collections by description alone.
ListingsAsAsked ==
  LET q == reader.asks
      leaves == \/ q.listing = "pay"
                \/ q.listing \in {"event", "collectMoney"} /\ "keyword" \in q.filters
      near == [listing |-> IF leaves THEN "user" ELSE q.listing,
               filters |-> q.filters \ ({"userId"} \cup Ignored(q))]
  IN  IF reader.status = "failed"
      THEN \/ q.listing \in {"pay", "collectMoney"} /\ "clanId" \in q.filters
           \/ "description" \in q.filters /\ "keyword" \notin q.filters
      ELSE reader.status \in {"reading", "done"} =>
             Listed(q) = {i \in AskedFor(near) :
                            "userId" \in q.filters => "ofCaller" \in table[i].traits}

\* A reader who has come to the end has read every row that was listed all the time,
\* unless a row before it left: the rest moves up, one row over the page's edge.
NothingMissed == reader.status = "done" =>
  \A x \in Listed(reader.asks) \ came :
    \/ \E n \in DOMAIN reader.got : x \in reader.got[n]
    \/ \E y \in left : Precedes(reader.asks, y, x)

\* A reader gets a row on two pages only when a row before it, or the row itself, came
\* in between, or when he began with page 0, which is page 1.
NothingTwice == \A m, n \in DOMAIN reader.got : \A x \in reader.got[m] \cap reader.got[n] :
  m < n =>
    \/ reader.first = 0
    \/ \E y \in came : y = x \/ Precedes(reader.asks, y, x)
=============================================================================
