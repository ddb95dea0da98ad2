---------------------------- MODULE Listings_proofs ----------------------------
(***************************************************************************)
(* What the five queries list, and what a reader of their pages gets, for   *)
(* any rows, questions and pages, whatever happens to the rows in between.  *)
(***************************************************************************)
EXTENDS Listings, FiniteSetTheorems, TLAPS

-----------------------------------------------------------------------------
(* Conditions *)

LEMMA ClauseFields ==
  ASSUME NEW s, NEW how, NEW on, NEW condition, s = Clause(how, on, condition)
  PROVE  s.how = how /\ s.on = on /\ s.condition = condition
BY DEF Clause

\* Of the n clauses S, only the one numbered w is a where().
OneWhere(S, n, w) == DOMAIN S = 1 .. n /\ \A i \in 1 .. n : S[i].how = "where" <=> i = w

\* Clause i of S is taken, and the where() does not forget it.
Stays(q, S, w, i) == Taken(q, S[i]) /\ (i < w => ~Taken(q, S[w]))

IsLeft(q, S, n, w, c) == \E i \in 1 .. n : Stays(q, S, w, i) /\ c = S[i].condition

LEMMA ConditionsAfter ==
  ASSUME NEW q, NEW n \in Nat, NEW w \in 1 .. n, OneWhere(Clauses[q.listing], n, w)
  PROVE  \A c : c \in Conditions(q) <=> IsLeft(q, Clauses[q.listing], n, w, c)
<1> DEFINE S == Clauses[q.listing]
           Kept(i) == \A j \in i + 1 .. n : S[j].how = "where" => ~Taken(q, S[j])
<1>0. ASSUME NEW i \in 1 .. n PROVE Kept(i) <=> (i < w => ~Taken(q, S[w]))
  BY DEF OneWhere
<1>1. DOMAIN S = 1 .. n /\ Len(S) = n
  BY DEF OneWhere
<1> QED
  BY <1>0, <1>1 DEF Conditions, Stays, IsLeft

LEMMA ClanConditions ==
  ASSUME NEW q, q.listing = "clan"
  PROVE  \A c : c \in Conditions(q) <=>
           \/ "keyword" \in q.filters /\ c = "keyword"
           \/ "id" \in q.filters /\ c = "id"
           \/ c = "ofCallersClan"
<1> DEFINE S == ClanClauses
<1>1. /\ DOMAIN S = 1 .. 3
      /\ S[1] = Clause("where", "keyword", "keyword")
      /\ S[2] = Clause("andWhere", "id", "id")
      /\ S[3] = Clause("andWhere", "always", "ofCallersClan")
  BY DEF ClanClauses
<1>2. S = Clauses[q.listing]
  BY DEF Clauses
<1> HIDE DEF S
<1>3. /\ S[1].how = "where" /\ S[1].on = "keyword" /\ S[1].condition = "keyword"
      /\ S[2].how = "andWhere" /\ S[2].on = "id" /\ S[2].condition = "id"
      /\ S[3].how = "andWhere" /\ S[3].on = "always" /\ S[3].condition = "ofCallersClan"
  BY <1>1, ClauseFields
<1>4. \A i \in 1 .. 3 : i = 1 \/ i = 2 \/ i = 3
  OBVIOUS
<1>5. OneWhere(S, 3, 1)
  BY <1>1, <1>3, <1>4 DEF OneWhere
<1>6. \A c : c \in Conditions(q) <=> IsLeft(q, S, 3, 1, c)
  BY <1>2, <1>5, ConditionsAfter
<1>7. /\ Stays(q, S, 1, 1) <=> "keyword" \in q.filters
      /\ Stays(q, S, 1, 2) <=> "id" \in q.filters
      /\ Stays(q, S, 1, 3)
  BY <1>3 DEF Stays, Taken
<1> QED
  BY <1>3, <1>4, <1>6, <1>7 DEF IsLeft

LEMMA EventConditions ==
  ASSUME NEW q, q.listing = "event"
  PROVE  \A c : c \in Conditions(q) <=>
           \/ "keyword" \notin q.filters /\ c = "ofCallersClan"
           \/ "keyword" \in q.filters /\ c = "keyword"
           \/ "clanId" \in q.filters /\ c = "clanId"
<1> DEFINE S == EventClauses
<1>1. /\ DOMAIN S = 1 .. 3
      /\ S[1] = Clause("andWhere", "always", "ofCallersClan")
      /\ S[2] = Clause("where", "keyword", "keyword")
      /\ S[3] = Clause("andWhere", "clanId", "clanId")
  BY DEF EventClauses
<1>2. S = Clauses[q.listing]
  BY DEF Clauses
<1> HIDE DEF S
<1>3. /\ S[1].how = "andWhere" /\ S[1].on = "always" /\ S[1].condition = "ofCallersClan"
      /\ S[2].how = "where" /\ S[2].on = "keyword" /\ S[2].condition = "keyword"
      /\ S[3].how = "andWhere" /\ S[3].on = "clanId" /\ S[3].condition = "clanId"
  BY <1>1, ClauseFields
<1>4. \A i \in 1 .. 3 : i = 1 \/ i = 2 \/ i = 3
  OBVIOUS
<1>5. OneWhere(S, 3, 2)
  BY <1>1, <1>3, <1>4 DEF OneWhere
<1>6. \A c : c \in Conditions(q) <=> IsLeft(q, S, 3, 2, c)
  BY <1>2, <1>5, ConditionsAfter
<1>7. /\ Stays(q, S, 2, 1) <=> "keyword" \notin q.filters
      /\ Stays(q, S, 2, 2) <=> "keyword" \in q.filters
      /\ Stays(q, S, 2, 3) <=> "clanId" \in q.filters
  BY <1>3 DEF Stays, Taken
<1> QED
  BY <1>3, <1>4, <1>6, <1>7 DEF IsLeft

LEMMA CollectMoneyConditions ==
  ASSUME NEW q, q.listing = "collectMoney"
  PROVE  \A c : c \in Conditions(q) <=>
           \/ "keyword" \notin q.filters /\ c = "ofCallersClan"
           \/ "keyword" \in q.filters /\ c = "keyword"
           \/ "clanId" \in q.filters /\ c = "fails"
           \/ "userId" \in q.filters /\ c = "ofCaller"
           \/ "description" \in q.filters /\ c = "keywordInDescription"
<1> DEFINE S == CollectMoneyClauses
<1>1. /\ DOMAIN S = 1 .. 5
      /\ S[1] = Clause("andWhere", "always", "ofCallersClan")
      /\ S[2] = Clause("where", "keyword", "keyword")
      /\ S[3] = Clause("andWhere", "clanId", "fails")
      /\ S[4] = Clause("andWhere", "userId", "ofCaller")
      /\ S[5] = Clause("andWhere", "description", "keywordInDescription")
  BY DEF CollectMoneyClauses
<1>2. S = Clauses[q.listing]
  BY DEF Clauses
<1> HIDE DEF S
<1>3. /\ S[1].how = "andWhere" /\ S[1].on = "always" /\ S[1].condition = "ofCallersClan"
      /\ S[2].how = "where" /\ S[2].on = "keyword" /\ S[2].condition = "keyword"
      /\ S[3].how = "andWhere" /\ S[3].on = "clanId" /\ S[3].condition = "fails"
      /\ S[4].how = "andWhere" /\ S[4].on = "userId" /\ S[4].condition = "ofCaller"
      /\ S[5].how = "andWhere" /\ S[5].on = "description" /\ S[5].condition = "keywordInDescription"
  BY <1>1, ClauseFields
<1>4. \A i \in 1 .. 5 : i = 1 \/ i = 2 \/ i = 3 \/ i = 4 \/ i = 5
  OBVIOUS
<1>5. OneWhere(S, 5, 2)
  BY <1>1, <1>3, <1>4 DEF OneWhere
<1>6. \A c : c \in Conditions(q) <=> IsLeft(q, S, 5, 2, c)
  BY <1>2, <1>5, ConditionsAfter
<1>7. /\ Stays(q, S, 2, 1) <=> "keyword" \notin q.filters
      /\ Stays(q, S, 2, 2) <=> "keyword" \in q.filters
      /\ Stays(q, S, 2, 3) <=> "clanId" \in q.filters
      /\ Stays(q, S, 2, 4) <=> "userId" \in q.filters
      /\ Stays(q, S, 2, 5) <=> "description" \in q.filters
  BY <1>3 DEF Stays, Taken
<1> QED
  BY <1>3, <1>4, <1>6, <1>7 DEF IsLeft

LEMMA PayConditions ==
  ASSUME NEW q, q.listing = "pay"
  PROVE  \A c : c \in Conditions(q) <=>
           \/ "keyword" \in q.filters /\ c = "keyword"
           \/ "clanId" \in q.filters /\ c = "fails"
<1> DEFINE S == PayClauses
<1>1. /\ DOMAIN S = 1 .. 2
      /\ S[1] = Clause("where", "keyword", "keyword")
      /\ S[2] = Clause("andWhere", "clanId", "fails")
  BY DEF PayClauses
<1>2. S = Clauses[q.listing]
  BY DEF Clauses
<1> HIDE DEF S
<1>3. /\ S[1].how = "where" /\ S[1].on = "keyword" /\ S[1].condition = "keyword"
      /\ S[2].how = "andWhere" /\ S[2].on = "clanId" /\ S[2].condition = "fails"
  BY <1>1, ClauseFields
<1>4. \A i \in 1 .. 2 : i = 1 \/ i = 2
  OBVIOUS
<1>5. OneWhere(S, 2, 1)
  BY <1>1, <1>3, <1>4 DEF OneWhere
<1>6. \A c : c \in Conditions(q) <=> IsLeft(q, S, 2, 1, c)
  BY <1>2, <1>5, ConditionsAfter
<1>7. /\ Stays(q, S, 1, 1) <=> "keyword" \in q.filters
      /\ Stays(q, S, 1, 2) <=> "clanId" \in q.filters
  BY <1>3 DEF Stays, Taken
<1> QED
  BY <1>3, <1>4, <1>6, <1>7 DEF IsLeft

LEMMA UserConditions ==
  ASSUME NEW q, q.listing = "user"
  PROVE  \A c : c \in Conditions(q) <=>
           \/ "keyword" \in q.filters /\ c = "keyword"
           \/ "id" \in q.filters /\ c = "id"
           \/ "clanId" \in q.filters /\ c = "clanId"
<1> DEFINE S == UserClauses
<1>1. /\ DOMAIN S = 1 .. 3
      /\ S[1] = Clause("where", "keyword", "keyword")
      /\ S[2] = Clause("andWhere", "id", "id")
      /\ S[3] = Clause("andWhere", "clanId", "clanId")
  BY DEF UserClauses
<1>2. S = Clauses[q.listing]
  BY DEF Clauses
<1> HIDE DEF S
<1>3. /\ S[1].how = "where" /\ S[1].on = "keyword" /\ S[1].condition = "keyword"
      /\ S[2].how = "andWhere" /\ S[2].on = "id" /\ S[2].condition = "id"
      /\ S[3].how = "andWhere" /\ S[3].on = "clanId" /\ S[3].condition = "clanId"
  BY <1>1, ClauseFields
<1>4. \A i \in 1 .. 3 : i = 1 \/ i = 2 \/ i = 3
  OBVIOUS
<1>5. OneWhere(S, 3, 1)
  BY <1>1, <1>3, <1>4 DEF OneWhere
<1>6. \A c : c \in Conditions(q) <=> IsLeft(q, S, 3, 1, c)
  BY <1>2, <1>5, ConditionsAfter
<1>7. /\ Stays(q, S, 1, 1) <=> "keyword" \in q.filters
      /\ Stays(q, S, 1, 2) <=> "id" \in q.filters
      /\ Stays(q, S, 1, 3) <=> "clanId" \in q.filters
  BY <1>3 DEF Stays, Taken
<1> QED
  BY <1>3, <1>4, <1>6, <1>7 DEF IsLeft

-----------------------------------------------------------------------------
(* What is listed *)

\* The listing and the filters that say what q lists; see ListingsAsAsked.
Leaves(q) == q.listing = "pay" \/ (q.listing \in {"event", "collectMoney"} /\ "keyword" \in q.filters)

Near(q) == [listing |-> IF Leaves(q) THEN "user" ELSE q.listing,
            filters |-> q.filters \ ({"userId"} \cup Ignored(q))]

Unlistable(q) ==
  \/ q.listing \in {"pay", "collectMoney"} /\ "clanId" \in q.filters
  \/ "description" \in q.filters /\ "keyword" \notin q.filters

ListedAsAsked(q) ==
  Listed(q) = {i \in AskedFor(Near(q)) : "userId" \in q.filters => "ofCaller" \in table[i].traits}

LEMMA QuestionTypes ==
  ASSUME NEW q \in Question
  PROVE  /\ q.listing \in Listing
         /\ q.listing = "clan" => q.filters \subseteq {"keyword", "id"}
         /\ q.listing = "event" => q.filters \subseteq {"keyword", "clanId"}
         /\ q.listing = "collectMoney" =>
              q.filters \subseteq {"keyword", "id", "clanId", "userId", "description"}
         /\ q.listing = "pay" => q.filters \subseteq {"keyword", "id", "clanId"}
         /\ q.listing = "user" => q.filters \subseteq {"keyword", "id", "clanId", "memberId"}
BY DEF Question, Listing, FiltersOf

LEMMA MeetsTypes ==
  ASSUME NEW t, NEW i
  PROVE  /\ Meets(t, i, "id") <=> i = 1
         /\ \A c : c # "id" => (Meets(t, i, c) <=> c \in t[i].traits)
BY DEF Meets

LEMMA AskedForTypes ==
  ASSUME NEW i, NEW q
  PROVE  i \in AskedFor(q) <=>
           /\ i \in DOMAIN table /\ table[i].state = "live"
           /\ q.listing = "user" \/ "ofCallersClan" \in table[i].traits
           /\ \A f \in {"keyword", "clanId", "userId", "memberId"} :
                f \in q.filters => f \in table[i].traits
           /\ "id" \in q.filters => i = 1
           /\ "description" \in q.filters => "keywordInDescription" \in table[i].traits
BY DEF AskedFor

LEMMA NearTypes ==
  ASSUME NEW q
  PROVE  /\ Near(q).listing = IF Leaves(q) THEN "user" ELSE q.listing
         /\ Near(q).filters = q.filters \ ({"userId"} \cup Ignored(q))
BY DEF Near

\* The fate of a question whose listing is known, from the conditions of its query.
LEMMA FailsTypes ==
  ASSUME NEW q \in Question
  PROVE  Fails(q) <=> Unlistable(q)
<1>1. CASE q.listing = "clan"
  BY <1>1, QuestionTypes, ClanConditions DEF Fails, Unlistable
<1>2. CASE q.listing = "event"
  BY <1>2, QuestionTypes, EventConditions DEF Fails, Unlistable
<1>3. CASE q.listing = "collectMoney"
  BY <1>3, QuestionTypes, CollectMoneyConditions DEF Fails, Unlistable
<1>4. CASE q.listing = "pay"
  BY <1>4, QuestionTypes, PayConditions DEF Fails, Unlistable
<1>5. CASE q.listing = "user"
  BY <1>5, QuestionTypes, UserConditions DEF Fails, Unlistable
<1> QED
  BY <1>1, <1>2, <1>3, <1>4, <1>5, QuestionTypes DEF Listing

LEMMA ListedTypes ==
  ASSUME NEW q \in Question, ~Unlistable(q)
  PROVE  ListedAsAsked(q)
<1> SUFFICES ASSUME NEW i
             PROVE  i \in Listed(q) <=>
                      /\ i \in AskedFor(Near(q))
                      /\ "userId" \in q.filters => "ofCaller" \in table[i].traits
  BY DEF ListedAsAsked, Listed, ListedOf, AskedFor
<1> DEFINE row == i \in DOMAIN table /\ table[i].state = "live"
           has(c) == c \in table[i].traits
<1>0. i \in Listed(q) <=> row /\ \A c \in Conditions(q) : Meets(table, i, c)
  BY DEF Listed, ListedOf
<1>1. CASE q.listing = "clan"
  <2>1. i \in Listed(q) <=> /\ row /\ has("ofCallersClan")
                            /\ "keyword" \in q.filters => has("keyword")
                            /\ "id" \in q.filters => i = 1
    BY <1>0, <1>1, ClanConditions, MeetsTypes
  <2> QED
    BY <1>1, <2>1, QuestionTypes, AskedForTypes, NearTypes DEF Ignored, Leaves
<1>2. CASE q.listing = "event"
  <2>1. i \in Listed(q) <=> /\ row /\ ("keyword" \in q.filters \/ has("ofCallersClan"))
                            /\ "keyword" \in q.filters => has("keyword")
                            /\ "clanId" \in q.filters => has("clanId")
    BY <1>0, <1>2, EventConditions, MeetsTypes
  <2> QED
    BY <1>2, <2>1, QuestionTypes, AskedForTypes, NearTypes DEF Ignored, Leaves
<1>3. CASE q.listing = "collectMoney"
  <2>1. i \in Listed(q) <=> /\ row /\ ("keyword" \in q.filters \/ has("ofCallersClan"))
                            /\ "keyword" \in q.filters => has("keyword")
                            /\ "userId" \in q.filters => has("ofCaller")
                            /\ "description" \in q.filters => has("keywordInDescription")
    BY <1>0, <1>3, CollectMoneyConditions, MeetsTypes DEF Unlistable
  <2> QED
    BY <1>3, <2>1, QuestionTypes, AskedForTypes, NearTypes DEF Ignored, Leaves, Unlistable
<1>4. CASE q.listing = "pay"
  <2>1. i \in Listed(q) <=> row /\ ("keyword" \in q.filters => has("keyword"))
    BY <1>0, <1>4, PayConditions, MeetsTypes DEF Unlistable
  <2> QED
    BY <1>4, <2>1, QuestionTypes, AskedForTypes, NearTypes DEF Ignored, Leaves, Unlistable
<1>5. CASE q.listing = "user"
  <2>1. i \in Listed(q) <=> /\ row /\ ("keyword" \in q.filters => has("keyword"))
                            /\ "id" \in q.filters => i = 1
                            /\ "clanId" \in q.filters => has("clanId")
    BY <1>0, <1>5, UserConditions, MeetsTypes
  <2> QED
    BY <1>5, <2>1, QuestionTypes, AskedForTypes, NearTypes DEF Ignored, Leaves
<1> QED
  BY <1>1, <1>2, <1>3, <1>4, <1>5, QuestionTypes DEF Listing

-----------------------------------------------------------------------------
(* Types *)

LEMMA ReaderTypes ==
  ASSUME reader \in Reader
  PROVE  /\ reader.status \in {"waiting", "reading", "done", "failed"}
         /\ reader.asks \in Question
         /\ reader.limit \in Nat /\ reader.first \in {0, 1} /\ reader.page \in Nat
         /\ reader.got \in Seq(SUBSET (1 .. MaxRows))
BY DEF Reader

LEMMA TypesInit == ListingsInit => ListingsTypeOK
BY ListingsAssumption DEF ListingsInit, ListingsTypeOK, Reader

LEMMA TypesBegin ==
  ASSUME ListingsTypeOK, BeginReading
  PROVE  ListingsTypeOK'
<1>1. reader' \in Reader
  BY ListingsAssumption, ReaderTypes DEF ListingsTypeOK, BeginReading, Reader
<1> QED
  BY <1>1 DEF ListingsTypeOK, BeginReading

LEMMA PageTypes ==
  ASSUME ListingsTypeOK, NEW q, NEW page, NEW limit
  PROVE  Page(q, page, limit) \subseteq Listed(q) /\ Listed(q) \subseteq 1 .. MaxRows
<1>1. table \in Seq(Entry) /\ Len(table) <= MaxRows /\ MaxRows \in Nat
  BY ListingsAssumption DEF ListingsTypeOK
<1>2. DOMAIN table = 1 .. Len(table) /\ Len(table) \in Nat
  BY <1>1
<1>3. DOMAIN table \subseteq 1 .. MaxRows
  BY <1>1, <1>2
<1> QED
  BY <1>3 DEF Page, Listed, ListedOf

LEMMA TypesReadPage ==
  ASSUME ListingsTypeOK, ReadPage
  PROVE  ListingsTypeOK'
<1> DEFINE rows == Page(reader.asks, reader.page, reader.limit)
<1>1. rows \in SUBSET (1 .. MaxRows)
  BY PageTypes
<1>2. PICK status \in {"reading", "done"} :
        reader' = [status |-> status, asks |-> reader.asks, limit |-> reader.limit,
                   first |-> reader.first, page |-> reader.page + 1, got |-> Append(reader.got, rows)]
  BY DEF ReadPage
<1> HIDE DEF rows
<1>3. reader.page + 1 \in Nat /\ Append(reader.got, rows) \in Seq(SUBSET (1 .. MaxRows))
  BY <1>1, ReaderTypes DEF ListingsTypeOK
<1>4. reader' \in Reader
  BY <1>2, <1>3, ReaderTypes DEF ListingsTypeOK, Reader
<1> QED
  BY <1>4 DEF ListingsTypeOK, ReadPage

\* What any change of the table does to the table and to what is noted of it.
LEMMA TypesChange ==
  ASSUME ListingsTypeOK, NEW new \in Seq(Entry), Len(new) <= MaxRows, DOMAIN table \subseteq DOMAIN new,
         Change(new)
  PROVE  ListingsTypeOK'
<1>1. /\ ListedOf(new, reader.asks) \subseteq DOMAIN new
      /\ Listed(reader.asks) \subseteq DOMAIN table
  BY DEF ListedOf, Listed
<1>2. table' = new /\ reader' = reader
  BY DEF Change
<1>3. came' \subseteq DOMAIN new /\ left' \subseteq DOMAIN new
  BY <1>1 DEF Change, ListingsTypeOK
<1> QED
  BY <1>2, <1>3 DEF ListingsTypeOK

LEMMA TypesInsert ==
  ASSUME ListingsTypeOK, Insert
  PROVE  ListingsTypeOK'
<1>1. PICK traits \in Contents : Len(table) < MaxRows /\ Change(Append(table, NewEntry(traits)))
  BY DEF Insert
<1> DEFINE e == NewEntry(traits)
<1>2. e \in Entry
  BY ListingsAssumption DEF NewEntry, Entry
<1>3. table \in Seq(Entry) /\ MaxRows \in Nat
  BY ListingsAssumption DEF ListingsTypeOK
<1> HIDE DEF e
<1>4. Append(table, e) \in Seq(Entry) /\ Len(Append(table, e)) = Len(table) + 1
  BY <1>2, <1>3
<1>5. DOMAIN table \subseteq DOMAIN Append(table, e)
  BY <1>3, <1>4
<1>6. Len(Append(table, e)) <= MaxRows
  BY <1>1, <1>3, <1>4
<1> QED
  BY <1>1, <1>4, <1>5, <1>6, TypesChange DEF e

\* One row of the table is written.
LEMMA TypesWrite ==
  ASSUME ListingsTypeOK, NEW i \in DOMAIN table, NEW e \in Entry, Change([table EXCEPT ![i] = e])
  PROVE  ListingsTypeOK'
<1> DEFINE new == [table EXCEPT ![i] = e]
<1>1. table \in Seq(Entry) /\ Len(table) <= MaxRows
  BY DEF ListingsTypeOK
<1>2. new \in Seq(Entry) /\ Len(new) = Len(table) /\ DOMAIN new = DOMAIN table
  BY <1>1
<1> HIDE DEF new
<1>3. Change(new)
  BY DEF new
<1> QED
  BY <1>1, <1>2, <1>3, TypesChange

LEMMA TypesEdit ==
  ASSUME ListingsTypeOK, Edit
  PROVE  ListingsTypeOK'
<1>1. PICK i \in DOMAIN table, traits \in Contents : Change([table EXCEPT ![i] = NewEntry(traits)])
  BY DEF Edit
<1>2. NewEntry(traits) \in Entry
  BY ListingsAssumption DEF NewEntry, Entry
<1> QED
  BY <1>1, <1>2, TypesWrite

LEMMA TypesRemove ==
  ASSUME ListingsTypeOK, Remove
  PROVE  ListingsTypeOK'
<1>1. PICK i \in DOMAIN table : Change([table EXCEPT ![i] = Removed(@)])
  BY DEF Remove
<1>2. [table EXCEPT ![i] = Removed(@)] = [table EXCEPT ![i] = Removed(table[i])]
  OBVIOUS
<1>3. table[i] \in Entry
  BY DEF ListingsTypeOK
<1>4. Removed(table[i]) \in Entry
  BY <1>3 DEF Removed, Entry
<1> QED
  BY <1>1, <1>2, <1>4, TypesWrite

LEMMA TypesNext ==
  ASSUME ListingsTypeOK, [ListingsNext]_listingVars
  PROVE  ListingsTypeOK'
<1>1. CASE UNCHANGED listingVars
  BY <1>1 DEF ListingsTypeOK, listingVars
<1> QED
  BY <1>1, TypesBegin, TypesReadPage, TypesInsert, TypesEdit, TypesRemove DEF ListingsNext

\* The listed rows, the pages read and what is noted of the rows have their types.
THEOREM TypeCorrect == ListingsSpec => []ListingsTypeOK
  BY TypesInit, TypesNext, PTL DEF ListingsSpec

-----------------------------------------------------------------------------
(* A reader's question is answered, or fails, for good *)

ReaderInv ==
  /\ reader.asks \in Question
  /\ reader.status = "failed" => Unlistable(reader.asks)
  /\ reader.status \in {"reading", "done"} => ~Unlistable(reader.asks)

LEMMA ReaderInvImplies == ReaderInv => ListingsAsAsked
BY ListedTypes DEF ReaderInv, ListingsAsAsked, ListedAsAsked, Near, Leaves, Unlistable

LEMMA ReaderInvInit == ListingsInit => ReaderInv
BY ListingsAssumption DEF ListingsInit, ReaderInv

LEMMA ReaderInvNext ==
  ASSUME ReaderInv, [ListingsNext]_listingVars
  PROVE  ReaderInv'
<1>1. CASE BeginReading
  <2>1. /\ reader'.asks = reader.asks
        /\ reader'.status = IF Fails(reader.asks) THEN "failed" ELSE "reading"
    BY <1>1 DEF BeginReading
  <2> QED
    BY <2>1, FailsTypes DEF ReaderInv, Unlistable
<1>2. CASE ReadPage
  <2>1. reader'.asks = reader.asks /\ reader'.status \in {"done", "reading"}
    BY <1>2 DEF ReadPage
  <2> QED
    BY <1>2, <2>1 DEF ReadPage, ReaderInv, Unlistable
<1>3. CASE Insert \/ Edit \/ Remove \/ UNCHANGED listingVars
  BY <1>3 DEF Insert, Edit, Remove, Change, listingVars, ReaderInv, Unlistable
<1> QED
  BY <1>1, <1>2, <1>3 DEF ListingsNext

\* What a listing answers with, for every question and whatever the tables hold.
THEOREM AnswersAsAsked == ListingsSpec => []ListingsAsAsked
  BY ReaderInvImplies, ReaderInvInit, ReaderInvNext, PTL DEF ListingsSpec

-----------------------------------------------------------------------------
(* Ranks: the places of the rows in the answer *)

\* A set of numbers that is not empty has a least one.
LEMMA LeastNumber ==
  ASSUME NEW S, S \subseteq Nat, S # {}
  PROVE  \E n \in S : \A m \in S : n <= m
<1> DEFINE R == OpToRel(<, Nat)
<1>1. IsWellFoundedOn(R, Nat)
  BY NatLessThanWellFounded
<1> HIDE DEF R
<1>2. PICK n \in S : \A m \in S : ~(<<m, n>> \in R)
  BY <1>1, WFMin
<1>3. ASSUME NEW m \in S PROVE n <= m
  <2>1. m < n => <<m, n>> \in R
    BY DEF R, OpToRel
  <2> QED
    BY <1>2, <2>1
<1> QED
  BY <1>3

LEMMA PrecedesOrders ==
  ASSUME NEW q
  PROVE  /\ \A x \in Nat : ~Precedes(q, x, x)
         /\ \A x, y, z \in Nat : Precedes(q, x, y) /\ Precedes(q, y, z) => Precedes(q, x, z)
         /\ \A x, y \in Nat : x # y => Precedes(q, x, y) \/ Precedes(q, y, x)
BY DEF Precedes

LEMMA ListedFinite ==
  ASSUME ListingsTypeOK, NEW q
  PROVE  Listed(q) \subseteq Nat /\ IsFiniteSet(Listed(q))
<1>1. Listed(q) \subseteq 1 .. MaxRows
  BY PageTypes
<1>2. MaxRows \in Int /\ 1 .. MaxRows \subseteq Nat
  BY ListingsAssumption
<1>3. IsFiniteSet(1 .. MaxRows)
  BY <1>2, FS_Interval
<1> QED
  BY <1>1, <1>2, <1>3, FS_Subset

LEMMA EarlierFinite ==
  ASSUME ListingsTypeOK, NEW q, NEW x
  PROVE  IsFiniteSet(Earlier(q, x)) /\ Rank(q, x) \in Nat
<1>1. Earlier(q, x) \subseteq Listed(q)
  BY DEF Earlier
<1>2. IsFiniteSet(Earlier(q, x))
  BY <1>1, ListedFinite, FS_Subset
<1> QED
  BY <1>2, FS_CardinalityType DEF Rank

RanksAreNats == \A q, x : IsFiniteSet(Earlier(q, x)) /\ Rank(q, x) \in Nat

LEMMA RanksAreNumbers == ListingsTypeOK => RanksAreNats
BY EarlierFinite DEF RanksAreNats

LEMMA RankGrows ==
  ASSUME ListingsTypeOK, NEW q, NEW x \in Listed(q), NEW y \in Earlier(q, x)
  PROVE  Rank(q, y) < Rank(q, x)
<1> DEFINE E == Earlier(q, x)
           F == Earlier(q, y)
<1>1. y \in Listed(q) /\ Precedes(q, y, x)
  BY DEF Earlier
<1>2. F \subseteq E /\ y \notin F
  BY <1>1, ListedFinite, PrecedesOrders DEF Earlier
<1>3. /\ IsFiniteSet(E) /\ Rank(q, x) = Cardinality(E) /\ Rank(q, x) \in Nat
      /\ Rank(q, y) = Cardinality(F) /\ Rank(q, y) \in Nat
  BY EarlierFinite DEF Rank
<1>4. y \in E
  OBVIOUS
<1> HIDE DEF E, F
<1>5. Cardinality(F) <= Cardinality(E) /\ Cardinality(E) # Cardinality(F)
  BY <1>2, <1>3, <1>4, FS_Subset
<1> QED
  BY <1>3, <1>5

LEMMA RanksDiffer ==
  ASSUME ListingsTypeOK, NEW q, NEW x \in Listed(q), NEW y \in Listed(q), x # y
  PROVE  Rank(q, x) # Rank(q, y)
<1>1. x \in Earlier(q, y) \/ y \in Earlier(q, x)
  BY ListedFinite, PrecedesOrders DEF Earlier
<1> QED
  BY <1>1, RankGrows, EarlierFinite

\* Every place up to that of a listed row is the place of a listed row: the one at n is
\* of those not before n the one with the least rank.
LEMMA RanksAreDense ==
  ASSUME ListingsTypeOK, NEW q, NEW x \in Listed(q), NEW n \in Nat, n <= Rank(q, x)
  PROVE  \E y \in Listed(q) : Rank(q, y) = n
<1> DEFINE T == {y \in Listed(q) : Rank(q, y) >= n}
           S == {Rank(q, y) : y \in T}
<1>1. S \subseteq Nat /\ S # {}
  BY EarlierFinite
<1>2. PICK k \in S : \A m \in S : k <= m
  BY <1>1, LeastNumber
<1>3. PICK z \in T : Rank(q, z) = k
  OBVIOUS
<1> DEFINE E == Earlier(q, z)
           f == [y \in E |-> Rank(q, y)]
<1>4. /\ z \in Listed(q) /\ E \subseteq Listed(q) /\ Rank(q, z) >= n
      /\ Rank(q, z) = Cardinality(E) /\ Rank(q, z) \in Nat
  BY EarlierFinite DEF Earlier, Rank
<1>5. ASSUME NEW y \in E PROVE Rank(q, y) \in 0 .. n - 1
  <2>1. Rank(q, y) < Rank(q, z) /\ Rank(q, y) \in Nat
    BY <1>4, RankGrows, EarlierFinite
  <2>2. y \notin T
    BY <1>2, <1>3, <2>1, <1>4
  <2> QED
    BY <1>4, <2>1, <2>2
<1>6. f \in Injection(E, 0 .. n - 1)
  <2>1. f \in [E -> 0 .. n - 1]
    BY <1>5
  <2>2. \A a, b \in E : a # b => f[a] # f[b]
    BY <1>4, RanksDiffer
  <2> HIDE DEF f, E
  <2> QED
    BY <2>1, <2>2 DEF Injection, IsInjective
<1>7. IsFiniteSet(0 .. n - 1) /\ Cardinality(0 .. n - 1) = n
  BY FS_Interval
<1>8. Cardinality(E) <= Cardinality(0 .. n - 1)
  <2> HIDE DEF f, E
  <2> QED
    BY <1>6, <1>7, FS_Injection
<1>9. Rank(q, z) = n
  BY <1>4, <1>7, <1>8
<1> QED
  BY <1>4, <1>9

\* A page that a listed row comes after is full.
LEMMA PageIsFull ==
  ASSUME ListingsTypeOK, NEW q, NEW x \in Listed(q), NEW page \in Nat, NEW limit \in Nat \ {0},
         Offset(page, limit) \in Nat, Rank(q, x) >= Offset(page, limit) + limit
  PROVE  Cardinality(Page(q, page, limit)) \in Nat /\ Cardinality(Page(q, page, limit)) >= limit
<1> DEFINE from == Offset(page, limit)
           P == Page(q, page, limit)
           I == from .. from + limit - 1
           f == [y \in P |-> Rank(q, y)]
<1>1. \A y : y \in P <=> y \in Listed(q) /\ Rank(q, y) >= from /\ Rank(q, y) < from + limit
  BY DEF Page
<1>2. from \in Nat
  OBVIOUS
<1>3. IsFiniteSet(P)
  BY <1>1, ListedFinite, FS_Subset
<1> HIDE DEF P, from
<1>4. f \in [P -> I]
  BY <1>1, <1>2, EarlierFinite
<1>5. ASSUME NEW n \in I PROVE \E y \in P : f[y] = n
  <2>1. n \in Nat /\ n <= Rank(q, x) /\ n >= from /\ n < from + limit
    BY <1>2, EarlierFinite DEF from
  <2>2. PICK y \in Listed(q) : Rank(q, y) = n
    BY <2>1, RanksAreDense
  <2>3. y \in P
    BY <1>1, <2>1, <2>2
  <2> QED
    BY <2>2, <2>3
<1>6. IsFiniteSet(I) /\ Cardinality(I) = limit
  <2> DEFINE end == from + limit - 1
  <2>1. from \in Int /\ end \in Int /\ ~(from > end) /\ end - from + 1 = limit
    BY <1>2
  <2> HIDE DEF end
  <2>2. IsFiniteSet(from .. end) /\ Cardinality(from .. end) = end - from + 1
    BY <2>1, FS_Interval
  <2> QED
    BY <2>1, <2>2 DEF end
<1> HIDE DEF f, I
<1>7. f \in Surjection(P, I)
  BY <1>4, <1>5 DEF Surjection
<1>8. Cardinality(I) <= Cardinality(P) /\ Cardinality(P) \in Nat
  BY <1>3, <1>7, FS_Surjection, FS_CardinalityType
<1> QED
  BY <1>6, <1>8 DEF P

LEMMA NextOffset ==
  ASSUME NEW page \in Nat, NEW limit \in Nat
  PROVE  /\ Offset(page, limit) \in Nat
         /\ Offset(page + 1, limit) = IF page = 0 THEN 0 ELSE Offset(page, limit) + limit
<1>1. CASE page = 0
  BY <1>1 DEF Offset
<1>2. CASE page # 0
  <2> DEFINE k == page - 1
  <2>1. k \in Nat /\ page = k + 1 /\ page + 1 - 1 = k + 1 /\ page + 1 # 0
    BY <1>2
  <2>2. (k + 1) * limit = k * limit + limit /\ k * limit \in Nat
    BY <2>1
  <2>3. Offset(page, limit) = k * limit /\ Offset(page + 1, limit) = (k + 1) * limit
    BY <1>2, <2>1 DEF Offset
  <2> QED
    BY <1>2, <2>2, <2>3
<1> QED
  BY <1>1, <1>2

-----------------------------------------------------------------------------
(* What a reader of all pages misses and what he gets twice *)

Read(x) == \E n \in DOMAIN reader.got : x \in reader.got[n]

\* A row before x left; x came, or a row before it did.
Passed(q, x) == \E y \in left : Precedes(q, y, x)

Pushed(q, x) == \E y \in came : y = x \/ Precedes(q, y, x)

Ahead(q, x) == Rank(q, x) >= Offset(reader.page, reader.limit)

\* While he reads: what he has not read yet is not before the next page, unless a row
\* before it left.
StillAhead(q) == reader.status = "reading" =>
  \A x \in Listed(q) \ came : Read(x) \/ Passed(q, x) \/ Ahead(q, x)

\* What he has read is before the next page, unless something came.
StaysBehind(q) == reader.status = "reading" /\ reader.first = 1 =>
  /\ reader.page > 0
  /\ \A x \in Listed(q) : Read(x) => Pushed(q, x) \/ ~Ahead(q, x)

Missed(q) == reader.status = "done" =>
  \A x \in Listed(q) \ came : Read(x) \/ Passed(q, x)

Twice(q) == \A m, n \in DOMAIN reader.got : \A x \in reader.got[m] \cap reader.got[n] :
  m < n => reader.first = 0 \/ Pushed(q, x)

PagesInv == \E q \in Question :
  reader.asks = q /\ StillAhead(q) /\ StaysBehind(q) /\ Missed(q) /\ Twice(q)

LEMMA PagesInvImplies == PagesInv => NothingMissed /\ NothingTwice
BY DEF PagesInv, Missed, Twice, Read, Passed, Pushed, NothingMissed, NothingTwice

LEMMA PagesInit == ListingsInit => PagesInv
BY ListingsAssumption DEF ListingsInit, PagesInv, StillAhead, StaysBehind, Missed, Twice

LEMMA PagesBegin ==
  ASSUME ListingsTypeOK, ListingsTypeOK', NEW q, reader.asks = q, BeginReading
  PROVE  reader'.asks = q /\ StillAhead(q)' /\ StaysBehind(q)' /\ Missed(q)' /\ Twice(q)'
<1>1. /\ reader'.asks = q /\ reader'.status \in {"reading", "failed"} /\ reader'.got = <<>>
      /\ reader'.page = reader'.first
  BY DEF BeginReading
<1>2. reader'.first \in {0, 1} /\ reader'.limit \in Nat
  BY DEF ListingsTypeOK, Reader
<1>3. Offset(reader'.page, reader'.limit) = 0
  BY <1>1, <1>2 DEF Offset
<1>4. ASSUME NEW x PROVE Ahead(q, x)'
  <2>1. RanksAreNats'
    BY RanksAreNumbers, PTL
  <2> QED
    BY <1>3, <2>1 DEF Ahead, RanksAreNats
<1>5. \A x : ~Read(x)'
  BY <1>1 DEF Read
<1> QED
  BY <1>1, <1>2, <1>4, <1>5 DEF StillAhead, StaysBehind, Missed, Twice

LEMMA PagesReadPage ==
  ASSUME ListingsTypeOK, NEW q, reader.asks = q, StillAhead(q), StaysBehind(q), Twice(q), ReadPage
  PROVE  reader'.asks = q /\ StillAhead(q)' /\ StaysBehind(q)' /\ Missed(q)' /\ Twice(q)'
<1> DEFINE page == reader.page
           limit == reader.limit
           got == reader.got
           from == Offset(page, limit)
           rows == Page(q, page, limit)
           next == Offset(page + 1, limit)
<1>1. /\ reader.status = "reading" /\ table' = table /\ came' = came /\ left' = left
      /\ reader'.asks = q /\ reader'.limit = limit /\ reader'.first = reader.first
      /\ reader'.page = page + 1 /\ reader'.got = Append(got, rows)
      /\ reader'.status \in {"reading", "done"}
      /\ reader'.status = "done" <=> limit = 0 \/ Cardinality(rows) < limit
  BY DEF ReadPage
<1>2. /\ page \in Nat /\ limit \in Nat /\ got \in Seq(SUBSET (1 .. MaxRows)) /\ from \in Nat
      /\ reader.first \in {0, 1}
      /\ next = IF page = 0 THEN 0 ELSE from + limit
  BY ReaderTypes, NextOffset DEF ListingsTypeOK
<1>3. /\ \A x : Listed(q)' = Listed(q) /\ Rank(q, x)' = Rank(q, x)
      /\ \A x : Passed(q, x)' <=> Passed(q, x)
      /\ \A x : Pushed(q, x)' <=> Pushed(q, x)
      /\ \A x : Ahead(q, x)' <=> Rank(q, x) >= next
  BY <1>1 DEF Listed, Rank, Earlier, Passed, Pushed, Ahead
<1>4. /\ \A x : x \in rows <=> x \in Listed(q) /\ Rank(q, x) >= from
                               /\ (limit = 0 \/ Rank(q, x) < from + limit)
      /\ \A x : Rank(q, x) \in Nat
  BY EarlierFinite DEF Page
<1>5. /\ DOMAIN reader'.got = 1 .. Len(got) + 1 /\ DOMAIN got = 1 .. Len(got) /\ Len(got) \in Nat
      /\ \A n \in 1 .. Len(got) : reader'.got[n] = got[n]
      /\ reader'.got[Len(got) + 1] = rows
  <2>1. rows \in SUBSET (1 .. MaxRows)
    BY PageTypes
  <2> HIDE DEF rows, got
  <2> QED
    BY <1>1, <1>2, <2>1
<1>6. \A x : Read(x)' <=> Read(x) \/ x \in rows
  <2>1. ASSUME NEW x PROVE Read(x)' <=> \E n \in 1 .. Len(got) + 1 : x \in reader'.got[n]
    BY <1>5 DEF Read
  <2>2. ASSUME NEW x PROVE Read(x) <=> \E n \in 1 .. Len(got) : x \in reader'.got[n]
    BY <1>5 DEF Read
  <2>3. \A n : n \in 1 .. Len(got) + 1 <=> n \in 1 .. Len(got) \/ n = Len(got) + 1
    BY <1>5
  <2> QED
    BY <1>5, <2>1, <2>2, <2>3
<1>7. \A x : Ahead(q, x) <=> Rank(q, x) >= from
  BY DEF Ahead
<1> HIDE DEF page, limit, got, from, rows, next
<1>8. StillAhead(q)'
  <2> SUFFICES ASSUME reader'.status = "reading", NEW x \in Listed(q) \ came, ~Read(x), x \notin rows,
                      ~Passed(q, x)
               PROVE  Rank(q, x) >= next
    BY <1>1, <1>3, <1>6 DEF StillAhead
  <2>1. Rank(q, x) >= from
    BY <1>1, <1>7 DEF StillAhead
  <2>2. limit > 0
    BY <1>1, <1>2
  <2> QED
    BY <1>2, <1>4, <2>1, <2>2
<1>9. StaysBehind(q)'
  <2> SUFFICES ASSUME reader'.status = "reading", reader.first = 1, NEW x \in Listed(q),
                      Read(x) \/ x \in rows, ~Pushed(q, x)
               PROVE  Rank(q, x) < next
    BY <1>1, <1>2, <1>3, <1>4, <1>6 DEF StaysBehind
  <2>1. limit > 0 /\ page > 0
    BY <1>1, <1>2 DEF StaysBehind, page
  <2>2. Read(x) => Rank(q, x) < from
    BY <1>1, <1>2, <1>4, <1>7 DEF StaysBehind
  <2> QED
    BY <1>2, <1>4, <2>1, <2>2
<1>10. Missed(q)'
  <2> SUFFICES ASSUME reader'.status = "done", NEW x \in Listed(q) \ came, ~Read(x), x \notin rows,
                      ~Passed(q, x)
               PROVE  FALSE
    BY <1>1, <1>3, <1>6 DEF Missed
  <2>1. Rank(q, x) >= from
    BY <1>1, <1>7 DEF StillAhead
  <2>2. limit \in Nat \ {0} /\ Rank(q, x) >= from + limit
    BY <1>2, <1>4, <2>1
  <2>3. Cardinality(rows) \in Nat /\ Cardinality(rows) >= limit
    BY <1>2, <2>2, PageIsFull DEF from, rows
  <2> QED
    BY <1>1, <2>2, <2>3
<1>11. Twice(q)'
  <2> SUFFICES ASSUME NEW m \in 1 .. Len(got) + 1, NEW n \in 1 .. Len(got) + 1,
                      NEW x \in reader'.got[m] \cap reader'.got[n], m < n, reader.first = 1
               PROVE  Pushed(q, x)
    BY <1>1, <1>2, <1>3, <1>5 DEF Twice
  <2>1. m \in 1 .. Len(got)
    BY <1>5
  <2>2. CASE n \in 1 .. Len(got)
    BY <1>5, <2>1, <2>2 DEF Twice, got
  <2>3. CASE n = Len(got) + 1
    <3>1. Read(x) /\ x \in rows
      BY <1>5, <2>1, <2>3 DEF Read, got
    <3> QED
      BY <1>1, <1>4, <1>7, <3>1 DEF StaysBehind
  <2> QED
    BY <1>5, <2>2, <2>3
<1> QED
  BY <1>1, <1>8, <1>9, <1>10, <1>11

\* A change of the table, or none.
Changed(q) ==
  /\ reader' = reader
  /\ came \subseteq came' /\ left \subseteq left'
  /\ reader.status \in {"reading", "done"} =>
       /\ Listed(q)' \ Listed(q) \subseteq came'
       /\ Listed(q) \ Listed(q)' \subseteq left'

LEMMA TableChanges ==
  ASSUME NEW q, reader.asks = q, Insert \/ Edit \/ Remove \/ UNCHANGED listingVars
  PROVE  Changed(q)
<1>1. CASE UNCHANGED listingVars
  BY <1>1 DEF listingVars, Changed, Listed
<1>2. ASSUME NEW new, Change(new) PROVE Changed(q)
  <2>1. table' = new /\ reader' = reader
    BY <1>2 DEF Change
  <2>2. Listed(q)' = ListedOf(new, q)
    BY <2>1 DEF Listed
  <2> QED
    BY <1>2, <2>1, <2>2 DEF Change, Changed
<1> QED
  BY <1>1, <1>2 DEF Insert, Edit, Remove

LEMMA PagesChange ==
  ASSUME ListingsTypeOK, ListingsTypeOK', NEW q, reader.asks = q, Changed(q),
         StillAhead(q), StaysBehind(q), Missed(q), Twice(q)
  PROVE  reader'.asks = q /\ StillAhead(q)' /\ StaysBehind(q)' /\ Missed(q)' /\ Twice(q)'
<1>1. /\ \A x : IsFiniteSet(Earlier(q, x)) /\ Rank(q, x) \in Nat
      /\ \A x : IsFiniteSet(Earlier(q, x))' /\ Rank(q, x)' \in Nat
  <2>1. RanksAreNats /\ RanksAreNats'
    BY RanksAreNumbers, PTL
  <2> QED
    BY <2>1 DEF RanksAreNats
<1>2. /\ \A x : Read(x)' <=> Read(x)
      /\ \A x : Passed(q, x) => Passed(q, x)'
      /\ \A x : Pushed(q, x) => Pushed(q, x)'
      /\ Offset(reader.page, reader.limit) \in Nat
  BY ReaderTypes, NextOffset DEF Changed, Read, Passed, Pushed, ListingsTypeOK
<1>3. ASSUME NEW x, Earlier(q, x) \subseteq Earlier(q, x)', Ahead(q, x)
      PROVE  Ahead(q, x)'
  <2>1. Rank(q, x) <= Rank(q, x)'
    BY <1>1, <1>3, FS_Subset DEF Rank
  <2> QED
    BY <1>1, <1>2, <1>3, <2>1 DEF Ahead, Changed
<1>4. ASSUME NEW x, Earlier(q, x)' \subseteq Earlier(q, x), ~Ahead(q, x)
      PROVE  ~Ahead(q, x)'
  <2>1. Rank(q, x)' <= Rank(q, x)
    BY <1>1, <1>4, FS_Subset DEF Rank
  <2> QED
    BY <1>1, <1>2, <1>4, <2>1 DEF Ahead, Changed
<1>5. StillAhead(q)'
  <2> SUFFICES ASSUME reader.status = "reading", NEW x \in Listed(q)' \ came',
                      ~Read(x), ~Passed(q, x)'
               PROVE  Ahead(q, x)'
    BY <1>2 DEF StillAhead, Changed
  <2>1. x \in Listed(q) \ came
    BY DEF Changed
  <2>2. Ahead(q, x)
    BY <1>2, <2>1 DEF StillAhead
  <2>3. Earlier(q, x) \subseteq Earlier(q, x)'
    BY DEF Earlier, Passed, Changed, Precedes
  <2> QED
    BY <1>3, <2>2, <2>3
<1>6. StaysBehind(q)'
  <2> SUFFICES ASSUME reader.status = "reading", reader.first = 1, NEW x \in Listed(q)',
                      Read(x), ~Pushed(q, x)'
               PROVE  ~Ahead(q, x)'
    BY <1>2 DEF StaysBehind, Changed
  <2>1. x \in Listed(q)
    BY DEF Changed, Pushed
  <2>2. ~Ahead(q, x)
    BY <1>2, <2>1 DEF StaysBehind
  <2>3. Earlier(q, x)' \subseteq Earlier(q, x)
    BY DEF Earlier, Pushed, Changed, Precedes
  <2> QED
    BY <1>4, <2>2, <2>3
<1>7. Missed(q)'
  BY <1>2 DEF Missed, Changed
<1>8. Twice(q)'
  BY <1>2 DEF Twice, Changed
<1> QED
  BY <1>5, <1>6, <1>7, <1>8 DEF Changed

LEMMA PagesNext ==
  ASSUME ListingsTypeOK, ListingsTypeOK', PagesInv, [ListingsNext]_listingVars
  PROVE  PagesInv'
<1>1. PICK q \in Question :
        reader.asks = q /\ StillAhead(q) /\ StaysBehind(q) /\ Missed(q) /\ Twice(q)
  BY DEF PagesInv
<1>2. reader'.asks = q /\ StillAhead(q)' /\ StaysBehind(q)' /\ Missed(q)' /\ Twice(q)'
  BY <1>1, PagesBegin, PagesReadPage, TableChanges, PagesChange DEF ListingsNext
<1> QED
  BY <1>2 DEF PagesInv

LEMMA PagesStay == ListingsSpec => [](NothingMissed /\ NothingTwice)
<1>1. ListingsTypeOK /\ ListingsTypeOK' /\ PagesInv /\ [ListingsNext]_listingVars => PagesInv'
  BY PagesNext
<1> QED
  BY <1>1, PagesInit, PagesInvImplies, TypeCorrect, PTL DEF ListingsSpec

\* A reader who goes on until a page is not full has read every row that was listed
\* all the time, unless a row before it left: for any table and pages of any length.
THEOREM NothingIsMissed == ListingsSpec => []NothingMissed
  BY PagesStay, PTL

\* He gets a row twice only when it, or a row before it, came in between, or when he
\* began with page 0.
THEOREM NothingIsReadTwice == ListingsSpec => []NothingTwice
  BY PagesStay, PTL
=============================================================================
