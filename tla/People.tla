------------------------------- MODULE People -------------------------------
(***************************************************************************)
(* The family tree kept in table user: the parents each row names, with a   *)
(* copy of their names.  Registration by an invitation, PATCH users/:id and *)
(* DELETE auth/me look up the relatives of a row one after the other, and   *)
(* write what they have concluded at the end.  No lookup locks a row, and   *)
(* the table has no foreign key from a person to a parent.                  *)
(***************************************************************************)
EXTENDS Naturals, FiniteSets

CONSTANTS
  Client,      \* requests in flight at a time
  Names,       \* names of people
  NoData,      \* 'No data', which is also what a null name is copied as
  FirstPeople, \* the rows of the beginning: of live people without known parents
  FirstName,   \* their names
  MaxPeople,   \* bound: numbers of rows
  Asks         \* bound: bodies of requests

Kind == {"father", "mother"}

Id == 1 .. MaxPeople

\* 0: column fid or mid is null; a number need not be anybody's.
Parent == 0 .. MaxPeople

Name == Names \cup {NoData}

\* parent has the kinds the body gives; name NoData: no name is given.
\* id is 0 for a registration, and the caller's own for a deletion.
Ask ==
  [op : {"register"}, id : {0}, name : Names,
   parent : UNION {[K -> Parent] : K \in SUBSET Kind}] \cup
  [op : {"update"}, id : Id, name : Name,
   parent : UNION {[K -> Parent] : K \in SUBSET Kind}] \cup
  [op : {"delete"}, id : Id, name : {NoData}, parent : [{} -> Parent]]

ASSUME PeopleAssumption ==
  /\ MaxPeople \in Nat /\ FirstPeople \in 0 .. MaxPeople
  /\ FirstName \in [Id -> Names]
  /\ NoData \notin Names /\ {"child", "none"} \cap Name = {}
  /\ Asks \subseteq Ask

VARIABLES
  people,     \* table user
  next,       \* the sequence user.id is taken from
  req,        \* the request each client has in flight
  overtaken   \* auxiliary: the lookups of each request that are out of date

vars == <<people, next, req, overtaken>>

\* "none": there is no such row; "soft": deleted_at is set.
Row == [state : {"none", "live", "soft"}, name : Name,
        parent : [Kind -> Parent], copied : [Kind -> Name]]

\* found: the parent's name, or whether the row is the parent of somebody.
Found == Name \cup {"child"}

NoAsk == [op |-> "none", id |-> 0, name |-> NoData, parent |-> [k \in {} |-> 0]]

Request == [ask : Ask \cup {NoAsk}, looked : SUBSET Kind, found : [Kind -> Found]]

Nobody == [k \in Kind |-> NoData]

NoRow == [state |-> "none", name |-> NoData, parent |-> [k \in Kind |-> 0], copied |-> Nobody]

Begun(a) == [ask |-> a, looked |-> {}, found |-> Nobody]

TypeOK ==
  /\ people \in [Id -> Row]
  /\ next \in 1 .. MaxPeople + 1
  /\ req \in [Client -> Request]
  /\ overtaken \in [Client -> SUBSET Kind]

Init ==
  /\ people = [x \in Id |-> IF x <= FirstPeople
                            THEN [NoRow EXCEPT !.state = "live", !.name = FirstName[x]]
                            ELSE NoRow]
  /\ next = FirstPeople + 1
  /\ req = [r \in Client |-> Begun(NoAsk)]
  /\ overtaken = [r \in Client |-> {}]

-----------------------------------------------------------------------------
(* Lookups *)

InFlight(op) == {r \in Client : req[r].ask.op = op}

Begin(r) == \E a \in Asks :
  /\ req[r].ask = NoAsk
  /\ a.op = "register" => next + Cardinality(InFlight("register")) <= MaxPeople
  /\ a.op = "delete" => people[a.id].state # "none"
  /\ req' = [req EXCEPT ![r] = Begun(a)]
  /\ UNCHANGED <<people, next, overtaken>>

\* getValueOrDefault(dto.fatherId, 0): what a lookup is made by.
Given(a, k) == IF k \in DOMAIN a.parent THEN a.parent[k] ELSE 0

\* registerNotOtp looks up the mother first, the other two the father.
First(op) == IF op = "register" THEN "mother" ELSE "father"

ToLook(q) == {k \in Kind \ q.looked : k = First(q.ask.op) \/ First(q.ask.op) \in q.looked}

\* Faulty: deleted rows are found as well.
NameOfAny(p) == IF p \in Id THEN people[p].name ELSE NoData

\* getValueOrDefault(father?.name, 'No data') of findOne({ id })
NameOf(p) == IF p \in Id /\ people[p].state = "live" THEN people[p].name ELSE NoData

\* Somebody names p as his parent; findOne({ fatherId: p }), findOne({ motherId: p })
HasChild(p, k) == \E c \in Id : people[c].state = "live" /\ people[c].parent[k] = p

\* What the lookup of kind k finds.
LookedUp(q, k) ==
  IF q.ask.op # "delete" THEN NameOf(Given(q.ask, k))
  ELSE IF HasChild(q.ask.id, k) THEN "child" ELSE NoData

Look(r) == \E k \in Kind : LET q == req[r] IN
  /\ q.ask # NoAsk /\ k \in ToLook(q)
  /\ req' = [req EXCEPT ![r] = [ask |-> q.ask, looked |-> q.looked \cup {k},
                                found |-> [q.found EXCEPT ![k] = LookedUp(q, k)]]]
  /\ UNCHANGED <<people, next, overtaken>>

-----------------------------------------------------------------------------
(* Writes *)

Ready(r, op) == req[r].ask.op = op /\ req[r].looked = Kind

\* What q has looked up of row x is not so any more, now that the row is new.
Outdated(q, x, row) == {k \in q.looked :
  IF q.ask.op = "delete" THEN q.ask.id \in {people[x].parent[k], row.parent[k]}
  ELSE Given(q.ask, k) = x}

\* The request of r writes row x, and ends.
Write(r, x, row) ==
  /\ people' = [people EXCEPT ![x] = row]
  /\ req' = [req EXCEPT ![r] = Begun(NoAsk)]
  /\ overtaken' = [q \in Client |-> IF q = r THEN {}
                                   ELSE overtaken[q] \cup Outdated(req[q], x, row)]

End(r) ==
  /\ req' = [req EXCEPT ![r] = Begun(NoAsk)]
  /\ overtaken' = [overtaken EXCEPT ![r] = {}]
  /\ UNCHANGED people

\* Faulty: the number is believed to be free.
FreeAlways(x) == TRUE

\* The primary key refuses a second row.
Free(x) == people[x].state = "none"

\* Faulty: the row is written without the names.
NewRowUnnamed(q) == [state |-> "live", name |-> q.ask.name,
                     parent |-> [k \in Kind |-> Given(q.ask, k)]]

NewRow(q) == [state |-> "live", name |-> q.ask.name,
              parent |-> [k \in Kind |-> Given(q.ask, k)], copied |-> q.found]

\* save() of registerNotOtp: the row gets the next number of the sequence.
Register(r) ==
  /\ Ready(r, "register") /\ Free(next)
  /\ Write(r, next, NewRow(req[r]))
  /\ next' = next + 1

\* A PATCH has made a row with this number: the insertion fails, the number is used up.
RegisterFails(r) ==
  /\ Ready(r, "register") /\ ~Free(next)
  /\ End(r)
  /\ next' = next + 1

\* Faulty: the names change places.
CopiedCrosswise(q) ==
  [k \in Kind |-> q.found[CHOOSE other \in Kind : other # k]]

\* Both names are written, whether a parent is given or not.
Copied(q) == q.found

\* editAccount saves by id, whoever calls it: a deleted row stays deleted, and a row
\* that is missing is inserted.  Columns that are not given keep their values.
Update(r) == LET a == req[r].ask
                 row == people[a.id] IN
  /\ Ready(r, "update")
  /\ Write(r, a.id,
       [state  |-> IF row.state = "none" THEN "live" ELSE row.state,
        name   |-> IF a.name = NoData THEN row.name ELSE a.name,
        parent |-> [k \in Kind |-> IF k \in DOMAIN a.parent THEN a.parent[k] ELSE row.parent[k]],
        copied |-> Copied(req[r])])
  /\ UNCHANGED next

\* Faulty: a parent must be both father and mother of somebody.
IsFatherAndMother(q) == \A k \in Kind : q.found[k] = "child"

IsParent(q) == \E k \in Kind : q.found[k] = "child"

\* softDelete of the caller's row
Delete(r) == LET x == req[r].ask.id IN
  /\ Ready(r, "delete") /\ ~IsParent(req[r])
  /\ Write(r, x, [people[x] EXCEPT !.state = "soft"])
  /\ UNCHANGED next

\* NODE_PARENT
DeleteRefused(r) ==
  /\ Ready(r, "delete") /\ IsParent(req[r])
  /\ End(r)
  /\ UNCHANGED next

\* A database call fails, or the process stops.
Abort(r) ==
  /\ req[r].ask # NoAsk
  /\ End(r)
  /\ UNCHANGED next

Step(r) ==
  \/ Begin(r) \/ Look(r)
  \/ Register(r) \/ RegisterFails(r) \/ Update(r) \/ Delete(r) \/ DeleteRefused(r)
  \/ Abort(r)

Next == \E r \in Client : Step(r)

Spec == Init /\ [][Next]_vars
-----------------------------------------------------------------------------
(* Properties *)

Live(x) == x \in Id /\ people[x].state = "live"

\* What a request has looked up is still so, unless a row it depends on was written
\* since: the names of the parents, or whether the caller is a parent.
RequestsAreCurrent == \A r \in Client : LET q == req[r] IN
  \A k \in q.looked \ overtaken[r] :
    IF q.ask.op = "delete"
    THEN q.found[k] = "child" <=>
           \E c \in Id : Live(c) /\ people[c].parent[k] = q.ask.id
    ELSE IF Live(Given(q.ask, k)) THEN q.found[k] = people[Given(q.ask, k)].name
    ELSE q.found[k] = NoData

\* c names a parent who is no live person.
Orphan(c, k) == Live(c) /\ people[c].parent[k] # 0 /\ ~Live(people[c].parent[k])

Writes(r, c) == (Register(r) /\ c = next) \/ (Update(r) /\ c = req[r].ask.id)

\* A live person comes to name a parent who is not there only when the parent is
\* deleted by a request that looked before the person was written, or when the
\* person is given a parent whom the lookup has not found, or who was written since.
OrphanCauses ==
  [][\A c \in Id, k \in Kind :
       Orphan(c, k)' /\ ~(Orphan(c, k) /\ people[c].parent = people'[c].parent) =>
         \E r \in Client :
           \/ /\ Delete(r) /\ req[r].ask.id = people[c].parent[k]
              /\ k \in overtaken[r]
           \/ Writes(r, c) /\ (k \in overtaken[r] \/ req[r].found[k] = NoData)]_vars

\* The name c has of a parent is not the parent's.
Misnamed(c, k) == /\ Live(c) /\ Live(people[c].parent[k])
                  /\ people[c].copied[k] # people[people[c].parent[k]].name

\* A copied name comes to differ from the parent's own only when the parent's row is
\* written, for nobody renames the copies, when the copy is written by a request
\* that looked before that, or when a PATCH omits the parent, which stays, while
\* the copied name does not.
MisnamedCauses ==
  [][\A c \in Id, k \in Kind : Misnamed(c, k)' /\ ~Misnamed(c, k) =>
       \E r \in Client :
         \/ Writes(r, people'[c].parent[k])
         \/ /\ Writes(r, c)
            /\ k \in overtaken[r] \/ (Update(r) /\ k \notin DOMAIN req[r].ask.parent)]_vars

\* A number that has a row keeps it: the row is written by a PATCH of that number
\* only, and is deleted only on behalf of its own account and for good.
PeopleAreKept ==
  [][\A x \in Id : people[x].state # "none" /\ people'[x] # people[x] =>
       /\ \E r \in Client : req[r].ask # NoAsk /\ req[r].ask.id = x /\ req'[r].ask = NoAsk
       /\ people'[x].state # people[x].state =>
            people'[x] = [people[x] EXCEPT !.state = "soft"]]_vars
=============================================================================
