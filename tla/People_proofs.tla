---------------------------- MODULE People_proofs ----------------------------
(***************************************************************************)
(* Theorems about People for any requests, names, bodies and numbers of     *)
(* rows.                                                                    *)
(***************************************************************************)
EXTENDS People, FiniteSetTheorems, TLAPS

USE PeopleAssumption

-----------------------------------------------------------------------------
(* Requests and rows *)

LEMMA NoAskIsNone ==
  /\ NoAsk \notin Ask /\ NoAsk.op = "none"
  /\ \A a \in Ask : a.op \in {"register", "update", "delete"}
BY DEF NoAsk, Ask

LEMMA AskTypes ==
  ASSUME NEW a \in Ask
  PROVE  /\ a.op \in {"register", "update", "delete"}
         /\ a.op = "register" => a.id = 0 /\ a.name \in Names
         /\ a.op # "register" => a.id \in Id
         /\ a.name \in Name
         /\ DOMAIN a.parent \subseteq Kind
         /\ \A k \in DOMAIN a.parent : a.parent[k] \in Parent
<1>1. CASE a \in [op : {"register"}, id : {0}, name : Names,
                  parent : UNION {[K -> Parent] : K \in SUBSET Kind}]
  BY <1>1 DEF Name
<1>2. CASE a \in [op : {"update"}, id : Id, name : Name,
                  parent : UNION {[K -> Parent] : K \in SUBSET Kind}]
  BY <1>2 DEF Name
<1>3. CASE a \in [op : {"delete"}, id : Id, name : {NoData}, parent : [{} -> Parent]]
  BY <1>3 DEF Name
<1> QED
  BY <1>1, <1>2, <1>3 DEF Ask

LEMMA GivenTypes ==
  ASSUME NEW a \in Ask, NEW k \in Kind
  PROVE  /\ Given(a, k) \in Parent
         /\ k \in DOMAIN a.parent => Given(a, k) = a.parent[k]
         /\ k \notin DOMAIN a.parent => Given(a, k) = 0
BY AskTypes DEF Given, Parent

LEMMA BegunTypes ==
  ASSUME NEW a \in Ask \cup {NoAsk}
  PROVE  /\ Begun(a) \in Request /\ Begun(a).ask = a /\ Begun(a).looked = {}
         /\ Begun(a).found = Nobody
BY DEF Begun, Request, Nobody, Found, Name

-----------------------------------------------------------------------------
(* Type correctness *)

\* Names are found for everything but a deletion; the numbers left are enough for the
\* registrations in flight.
TypeInv ==
  /\ TypeOK
  /\ \A r \in Client : req[r].ask.op # "delete" => req[r].found \in [Kind -> Name]
  /\ IsFiniteSet(InFlight("register"))
  /\ next + Cardinality(InFlight("register")) <= MaxPeople + 1

LEMMA TypeInvInit == Init => TypeInv
<1> SUFFICES ASSUME Init PROVE TypeInv
  OBVIOUS
<1>1. NoRow \in Row
  BY DEF NoRow, Row, Nobody, Name, Parent
<1>2. ASSUME NEW x \in Id PROVE [NoRow EXCEPT !.state = "live", !.name = FirstName[x]] \in Row
  BY <1>1 DEF Row, Name
<1>3. people \in [Id -> Row]
  BY <1>1, <1>2 DEF Init
<1>4. /\ next = FirstPeople + 1 /\ req = [r \in Client |-> Begun(NoAsk)]
      /\ overtaken = [r \in Client |-> {}]
  BY DEF Init
<1>5. /\ \A r \in Client : req[r] = Begun(NoAsk)
      /\ Begun(NoAsk) \in Request /\ Begun(NoAsk).ask.op = "none"
      /\ Begun(NoAsk).found \in [Kind -> Name]
  BY <1>4, BegunTypes, NoAskIsNone DEF Nobody, Name
<1>6. InFlight("register") = {}
  BY <1>5 DEF InFlight
<1>7. next \in 1 .. MaxPeople + 1 /\ next + 0 <= MaxPeople + 1
  <2>1. MaxPeople \in Nat /\ FirstPeople \in 0 .. MaxPeople
    OBVIOUS
  <2> QED
    BY <1>4, <2>1
<1> QED
  BY <1>3, <1>4, <1>5, <1>6, <1>7, FS_EmptySet DEF TypeInv, TypeOK

\* What happens to the registrations in flight when a request changes.
LEMMA InFlightChange ==
  ASSUME TypeOK, IsFiniteSet(InFlight("register")), NEW r \in Client, NEW q,
         req' = [req EXCEPT ![r] = q]
  PROVE  /\ IsFiniteSet(InFlight("register")')
         /\ q.ask.op = "register" /\ req[r].ask.op # "register" =>
              Cardinality(InFlight("register")') = Cardinality(InFlight("register")) + 1
         /\ q.ask.op # "register" /\ req[r].ask.op = "register" =>
              Cardinality(InFlight("register")') = Cardinality(InFlight("register")) - 1
         /\ (q.ask.op = "register" <=> req[r].ask.op = "register") =>
              InFlight("register")' = InFlight("register")
<1> DEFINE before == InFlight("register")
           after == InFlight("register")'
<1>0. Cardinality(before) \in Nat
  BY FS_CardinalityType
<1>1. req'[r] = q /\ \A p \in Client \ {r} : req'[p] = req[p]
  BY DEF TypeOK
<1>2. /\ (q.ask.op = "register" <=> req[r].ask.op = "register") => after = before
      /\ q.ask.op = "register" /\ req[r].ask.op # "register"
           => after = before \cup {r} /\ r \notin before
      /\ q.ask.op # "register" /\ req[r].ask.op = "register"
           => after = before \ {r} /\ r \in before
  BY <1>1 DEF InFlight
<1> HIDE DEF before, after
<1>3. IsFiniteSet(before)
  BY DEF before
<1>4. /\ IsFiniteSet(before \cup {r})
      /\ r \notin before => Cardinality(before \cup {r}) = Cardinality(before) + 1
  BY <1>3, FS_AddElement, Zenon
<1>5. /\ IsFiniteSet(before \ {r})
      /\ r \in before => Cardinality(before \ {r}) = Cardinality(before) - 1
  BY <1>3, FS_RemoveElement, Zenon
<1>6. /\ IsFiniteSet(after)
      /\ q.ask.op = "register" /\ req[r].ask.op # "register" =>
              Cardinality(after) = Cardinality(before) + 1
      /\ q.ask.op # "register" /\ req[r].ask.op = "register" =>
              Cardinality(after) = Cardinality(before) - 1
      /\ (q.ask.op = "register" <=> req[r].ask.op = "register") => after = before
  BY <1>2, <1>3, <1>4, <1>5, Zenon
<1> QED
  BY <1>6 DEF before, after

LEMMA FoundTypes ==
  ASSUME TypeOK, NEW p, NEW k \in Kind
  PROVE  NameOf(p) \in Name
<1>1. NoData \in Name /\ \A x \in Id : people[x].name \in Name
  BY DEF TypeOK, Row, Name
<1> QED
  BY <1>1 DEF NameOf

\* The request after a lookup that has found something.
Further(q, k, found) ==
  [ask |-> q.ask, looked |-> q.looked \cup {k}, found |-> [q.found EXCEPT ![k] = found]]

LEMMA LookStep ==
  ASSUME TypeOK, NEW r \in Client, Look(r)
  PROVE  /\ UNCHANGED <<people, next, overtaken>> /\ req[r].ask \in Ask
         /\ \E k \in Kind \ req[r].looked :
              req' = [req EXCEPT ![r] = Further(req[r], k, LookedUp(req[r], k))]
BY DEF Look, Further, ToLook, TypeOK, Request

LEMMA LookTypes ==
  ASSUME TypeInv, NEW r \in Client, Look(r)
  PROVE  TypeInv'
<1>1. PICK k \in Kind : req' = [req EXCEPT ![r] = Further(req[r], k, LookedUp(req[r], k))]
  BY LookStep DEF TypeInv
<1>2. UNCHANGED <<people, next, overtaken>> /\ req[r] \in Request
  BY LookStep DEF TypeInv, TypeOK
<1> DEFINE found == LookedUp(req[r], k)
           q == Further(req[r], k, found)
<1>3. found \in Found /\ (req[r].ask.op # "delete" => found \in Name)
  BY FoundTypes DEF LookedUp, Found, Name, TypeInv
<1> HIDE DEF found
<1>4. /\ q \in Request /\ q.ask = req[r].ask
      /\ req[r].ask.op # "delete" => q.found \in [Kind -> Name]
  BY <1>2, <1>3 DEF Further, Request, TypeInv
<1>5. req' = [req EXCEPT ![r] = q]
  BY <1>1 DEF found
<1> HIDE DEF q
<1>6. InFlight("register")' = InFlight("register")
  BY <1>4, <1>5, InFlightChange DEF TypeInv
<1> QED
  BY <1>2, <1>4, <1>5, <1>6 DEF TypeInv, TypeOK

LEMMA BeginTypes ==
  ASSUME TypeInv, NEW r \in Client, Begin(r)
  PROVE  TypeInv'
<1>1. PICK a \in Asks :
        /\ req[r].ask = NoAsk
        /\ a.op = "register" => next + Cardinality(InFlight("register")) <= MaxPeople
        /\ req' = [req EXCEPT ![r] = Begun(a)]
        /\ UNCHANGED <<people, next, overtaken>>
  BY DEF Begin
<1>2. a \in Ask
  OBVIOUS
<1>3. Begun(a) \in Request /\ Begun(a).ask = a /\ Begun(a).found \in [Kind -> Name]
  BY <1>2, BegunTypes DEF Nobody, Name
<1>4. req[r].ask.op # "register"
  BY <1>1, NoAskIsNone
<1>5. /\ IsFiniteSet(InFlight("register")')
      /\ a.op = "register" =>
           Cardinality(InFlight("register")') = Cardinality(InFlight("register")) + 1
      /\ a.op # "register" => InFlight("register")' = InFlight("register")
  BY <1>1, <1>3, <1>4, InFlightChange DEF TypeInv
<1>6. Cardinality(InFlight("register")) \in Nat
  BY FS_CardinalityType DEF TypeInv
<1>7. next' + Cardinality(InFlight("register")') <= MaxPeople + 1
  <2>1. MaxPeople \in Nat /\ next \in Nat /\ next' = next
    BY <1>1 DEF TypeInv, TypeOK
  <2>2. CASE a.op = "register"
    BY <1>1, <1>5, <1>6, <2>1, <2>2
  <2>3. CASE a.op # "register"
    BY <1>5, <2>1, <2>3 DEF TypeInv
  <2> QED
    BY <2>2, <2>3
<1>8. TypeOK'
  BY <1>1, <1>3 DEF TypeInv, TypeOK
<1>9. \A p \in Client : req'[p].ask.op # "delete" => req'[p].found \in [Kind -> Name]
  BY <1>1, <1>3 DEF TypeInv, TypeOK
<1> QED
  BY <1>5, <1>7, <1>8, <1>9 DEF TypeInv

\* A request that ends, whatever it wrote; a registration takes at most one number.
LEMMA EndTypes ==
  ASSUME TypeInv, NEW r \in Client, people' \in [Id -> Row],
         overtaken' \in [Client -> SUBSET Kind], req' = [req EXCEPT ![r] = Begun(NoAsk)],
         next' = next \/ (req[r].ask.op = "register" /\ next' = next + 1)
  PROVE  TypeInv'
<1> DEFINE before == InFlight("register")
           after == InFlight("register")'
<1>1. /\ Begun(NoAsk) \in Request /\ Begun(NoAsk).ask = NoAsk
      /\ Begun(NoAsk).found \in [Kind -> Name]
  BY BegunTypes DEF Nobody, Name
<1>2. /\ IsFiniteSet(after)
      /\ req[r].ask.op = "register" => Cardinality(after) = Cardinality(before) - 1
      /\ req[r].ask.op # "register" => after = before
  BY <1>1, NoAskIsNone, InFlightChange DEF TypeInv
<1>3. Cardinality(before) \in Nat /\ Cardinality(after) \in Nat
  BY <1>2, FS_CardinalityType DEF TypeInv
<1>4. next \in 1 .. MaxPeople + 1 /\ MaxPeople \in Nat /\ next + Cardinality(before) <= MaxPeople + 1
  BY DEF TypeInv, TypeOK
<1> HIDE DEF before, after
<1>5. next' \in 1 .. MaxPeople + 1 /\ next' + Cardinality(after) <= MaxPeople + 1
  BY <1>2, <1>3, <1>4
<1>6. req' \in [Client -> Request]
      /\ \A p \in Client : req'[p].ask.op # "delete" => req'[p].found \in [Kind -> Name]
  BY <1>1 DEF TypeInv, TypeOK
<1> QED
  BY <1>2, <1>5, <1>6 DEF TypeInv, TypeOK, before, after

LEMMA OutdatedTypes ==
  ASSUME TypeOK, NEW q \in Client, NEW x, NEW row
  PROVE  Outdated(req[q], x, row) \subseteq Kind
BY DEF Outdated, TypeOK, Request

LEMMA WriteTypes ==
  ASSUME TypeInv, NEW r \in Client, NEW x \in Id, NEW row \in Row, Write(r, x, row),
         next' = next \/ (req[r].ask.op = "register" /\ next' = next + 1)
  PROVE  TypeInv'
<1>1. people' \in [Id -> Row]
  BY DEF Write, TypeInv, TypeOK
<1>2. overtaken' \in [Client -> SUBSET Kind]
  BY OutdatedTypes DEF Write, TypeInv, TypeOK
<1> QED
  BY <1>1, <1>2, EndTypes DEF Write

\* A registration that is ready has a number left.
LEMMA NumberLeft ==
  ASSUME TypeInv, NEW r \in Client, Ready(r, "register")
  PROVE  next \in Id
<1>1. InFlight("register") # {}
  BY DEF InFlight, Ready
<1>2. Cardinality(InFlight("register")) \in Nat \ {0}
  BY <1>1, FS_EmptySet, FS_CardinalityType DEF TypeInv
<1> QED
  BY <1>2 DEF TypeInv, TypeOK, Id

LEMMA ReadyTypes ==
  ASSUME TypeInv, NEW r \in Client, NEW op \in {"register", "update", "delete"}, Ready(r, op)
  PROVE  /\ req[r] \in Request /\ req[r].ask \in Ask /\ req[r].ask.op = op
         /\ req[r].found \in [Kind -> Found]
         /\ op # "delete" => req[r].found \in [Kind -> Name]
         /\ op # "register" => req[r].ask.id \in Id
<1>1. req[r] \in Request /\ req[r].ask.op = op
  BY DEF Ready, TypeInv, TypeOK
<1>2. req[r].ask \in Ask
  BY <1>1, NoAskIsNone DEF Request
<1> QED
  BY <1>1, <1>2, AskTypes DEF Request, TypeInv

\* The row an update leaves.
Updated(r) == LET a == req[r].ask
                  row == people[a.id] IN
  [state  |-> IF row.state = "none" THEN "live" ELSE row.state,
   name   |-> IF a.name = NoData THEN row.name ELSE a.name,
   parent |-> [k \in Kind |-> IF k \in DOMAIN a.parent THEN a.parent[k] ELSE row.parent[k]],
   copied |-> Copied(req[r])]

LEMMA WrittenTypes ==
  ASSUME TypeInv, NEW r \in Client
  PROVE  /\ Ready(r, "register") => NewRow(req[r]) \in Row
         /\ Ready(r, "update") => Updated(r) \in Row
         /\ Ready(r, "delete") => [people[req[r].ask.id] EXCEPT !.state = "soft"] \in Row
<1>1. ASSUME Ready(r, "register") PROVE NewRow(req[r]) \in Row
  <2>1. req[r].ask \in Ask /\ req[r].found \in [Kind -> Name] /\ req[r].ask.name \in Name
    BY <1>1, ReadyTypes, AskTypes
  <2>2. [k \in Kind |-> Given(req[r].ask, k)] \in [Kind -> Parent]
    BY <2>1, GivenTypes
  <2> QED
    BY <2>1, <2>2 DEF NewRow, Row
<1>2. ASSUME Ready(r, "update") PROVE Updated(r) \in Row
  <2>1. /\ req[r].ask \in Ask /\ req[r].found \in [Kind -> Name] /\ req[r].ask.name \in Name
        /\ req[r].ask.id \in Id
    BY <1>2, ReadyTypes, AskTypes
  <2>2. people[req[r].ask.id] \in Row
    BY <2>1 DEF TypeInv, TypeOK
  <2>3. [k \in Kind |-> IF k \in DOMAIN req[r].ask.parent THEN req[r].ask.parent[k]
                        ELSE people[req[r].ask.id].parent[k]] \in [Kind -> Parent]
    BY <2>1, <2>2, AskTypes DEF Row
  <2> QED
    BY <2>1, <2>2, <2>3 DEF Updated, Copied, Row
<1>3. ASSUME Ready(r, "delete") PROVE [people[req[r].ask.id] EXCEPT !.state = "soft"] \in Row
  <2>1. people[req[r].ask.id] \in Row
    BY <1>3, ReadyTypes DEF TypeInv, TypeOK
  <2> QED
    BY <2>1 DEF Row
<1> QED
  BY <1>1, <1>2, <1>3

\* What a step writes: one row of table user at most, for a request that is ready.
LEMMA StepWrites ==
  ASSUME TypeInv, NEW r \in Client, Step(r)
  PROVE  \/ Begin(r) \/ Look(r)
         \/ /\ Register(r) /\ Ready(r, "register") /\ next \in Id /\ next' = next + 1
            /\ Write(r, next, NewRow(req[r])) /\ NewRow(req[r]) \in Row
         \/ /\ Update(r) /\ Ready(r, "update") /\ req[r].ask.id \in Id /\ next' = next
            /\ Write(r, req[r].ask.id, Updated(r)) /\ Updated(r) \in Row
         \/ /\ Delete(r) /\ Ready(r, "delete") /\ req[r].ask.id \in Id /\ next' = next
            /\ Write(r, req[r].ask.id, [people[req[r].ask.id] EXCEPT !.state = "soft"])
            /\ [people[req[r].ask.id] EXCEPT !.state = "soft"] \in Row
         \/ End(r) /\ (next' = next \/ (req[r].ask.op = "register" /\ next' = next + 1))
<1>1. ASSUME Register(r)
      PROVE  /\ Ready(r, "register") /\ next \in Id /\ next' = next + 1
             /\ Write(r, next, NewRow(req[r])) /\ NewRow(req[r]) \in Row
  BY <1>1, WrittenTypes, NumberLeft DEF Register
<1>2. ASSUME Update(r)
      PROVE  /\ Ready(r, "update") /\ req[r].ask.id \in Id /\ next' = next
             /\ Write(r, req[r].ask.id, Updated(r)) /\ Updated(r) \in Row
  BY <1>2, WrittenTypes, ReadyTypes DEF Update, Updated
<1>3. ASSUME Delete(r)
      PROVE  /\ Ready(r, "delete") /\ req[r].ask.id \in Id /\ next' = next
             /\ Write(r, req[r].ask.id, [people[req[r].ask.id] EXCEPT !.state = "soft"])
             /\ [people[req[r].ask.id] EXCEPT !.state = "soft"] \in Row
  BY <1>3, WrittenTypes, ReadyTypes DEF Delete
<1>4. ASSUME RegisterFails(r) \/ DeleteRefused(r) \/ Abort(r)
      PROVE  End(r) /\ (next' = next \/ (req[r].ask.op = "register" /\ next' = next + 1))
  BY <1>4 DEF RegisterFails, DeleteRefused, Abort, Ready
<1> QED
  BY <1>1, <1>2, <1>3, <1>4 DEF Step

LEMMA TypeInvNext ==
  ASSUME TypeInv, [Next]_vars
  PROVE  TypeInv'
<1>1. ASSUME NEW r \in Client, Step(r) PROVE TypeInv'
  <2>1. CASE End(r) /\ (next' = next \/ (req[r].ask.op = "register" /\ next' = next + 1))
    BY <2>1, EndTypes DEF End, TypeInv, TypeOK
  <2>2. CASE Ready(r, "register") /\ Write(r, next, NewRow(req[r])) /\ NewRow(req[r]) \in Row
               /\ next \in Id /\ next' = next + 1
    BY <2>2, WriteTypes DEF Ready
  <2>3. ASSUME NEW x \in Id, NEW row \in Row, Write(r, x, row), next' = next PROVE TypeInv'
    BY <2>3, WriteTypes
  <2> QED
    BY <1>1, <2>1, <2>2, <2>3, StepWrites, BeginTypes, LookTypes
<1>2. CASE UNCHANGED vars
  BY <1>2 DEF vars, TypeInv, TypeOK, InFlight
<1> QED
  BY <1>1, <1>2 DEF Next

\* Type correctness for any requests; in particular a registration never runs out of the
\* numbers it was let in for.
THEOREM TypeCorrect == Spec => []TypeOK
<1>1. TypeInv => TypeOK
  BY DEF TypeInv
<1> QED
  BY <1>1, TypeInvInit, TypeInvNext, PTL DEF Spec

-----------------------------------------------------------------------------
(* What a request has looked up *)

\* What q has looked up of kind k is so.
Current(q, k) ==
  IF q.ask.op = "delete" THEN q.found[k] = "child" <=> HasChild(q.ask.id, k)
  ELSE q.found[k] = NameOf(Given(q.ask, k))

CurrentInv == TypeInv /\ RequestsAreCurrent

LEMMA CurrentIs ==
  ASSUME RequestsAreCurrent, NEW r \in Client, NEW k \in req[r].looked \ overtaken[r]
  PROVE  Current(req[r], k)
BY DEF RequestsAreCurrent, Current, HasChild, NameOf, Live

\* What is so of a person stays so when another row is written.
LEMMA WriteKeeps ==
  ASSUME TypeOK, NEW r \in Client, NEW x \in Id, NEW row, Write(r, x, row),
         NEW q, NEW k \in q.looked, k \notin Outdated(q, x, row), Current(q, k)
  PROVE  Current(q, k)'
<1>1. people'[x] = row /\ \A c \in Id \ {x} : people'[c] = people[c]
  BY DEF Write, TypeOK
<1>2. CASE q.ask.op = "delete"
  <2>1. q.ask.id # people[x].parent[k] /\ q.ask.id # row.parent[k]
    BY <1>2 DEF Outdated
  <2>2. HasChild(q.ask.id, k)' <=> HasChild(q.ask.id, k)
    BY <1>1, <2>1 DEF HasChild
  <2> QED
    BY <1>2, <2>2 DEF Current
<1>3. CASE q.ask.op # "delete"
  <2>1. Given(q.ask, k) # x
    BY <1>3 DEF Outdated
  <2>2. NameOf(Given(q.ask, k))' = NameOf(Given(q.ask, k))
    BY <1>1, <2>1 DEF NameOf
  <2> QED
    BY <1>3, <2>2 DEF Current, Given
<1> QED
  BY <1>2, <1>3

LEMMA LookIsCurrent ==
  ASSUME NEW q \in Request, NEW k \in Kind, NEW j \in Kind,
         j = k \/ Current(q, j)
  PROVE  Current(Further(q, k, LookedUp(q, k)), j)
<1> DEFINE found == LookedUp(q, k)
           f == Further(q, k, found)
<1>1. f.ask = q.ask /\ f.found[k] = found /\ (j # k => f.found[j] = q.found[j])
  BY DEF Further, Request
<1>2. NoData # "child"
  BY DEF Name
<1>3. /\ q.ask.op = "delete" => (found = "child" <=> HasChild(q.ask.id, k))
      /\ q.ask.op # "delete" => found = NameOf(Given(q.ask, k))
  BY <1>2 DEF LookedUp
<1> HIDE DEF f, found
<1>4. Current(f, j)
  BY <1>1, <1>3 DEF Current
<1> QED
  BY <1>4 DEF f, found

LEMMA CurrentStep ==
  ASSUME CurrentInv, NEW r \in Client, Step(r), TypeInv'
  PROVE  \A p \in Client : \A k \in req'[p].looked \ overtaken'[p] :
           \A q : q = req'[p] => Current(q, k)'
<1> SUFFICES ASSUME NEW p \in Client, NEW k \in req'[p].looked \ overtaken'[p],
                    NEW q, q = req'[p]
             PROVE  Current(q, k)'
  OBVIOUS
<1>0. TypeOK /\ req[p] \in Request /\ Begun(NoAsk).looked = {}
  BY BegunTypes DEF CurrentInv, TypeInv, TypeOK
<1>1. ASSUME NEW a, req' = [req EXCEPT ![r] = Begun(a)], UNCHANGED people,
             p = r \/ overtaken'[p] = overtaken[p]
      PROVE  Current(q, k)'
  <2>1. p # r /\ q = req[p] /\ k \in req[p].looked \ overtaken[p]
    BY <1>0, <1>1 DEF Begun, TypeOK
  <2>2. Current(q, k)
    BY <2>1, CurrentIs DEF CurrentInv
  <2> QED
    BY <1>1, <2>2 DEF Current, HasChild, NameOf
<1>2. CASE Begin(r)
  BY <1>1, <1>2 DEF Begin
<1>3. CASE End(r)
  BY <1>0, <1>1, <1>3 DEF End, TypeOK
<1>4. CASE Look(r)
  <2>1. PICK j \in Kind \ req[r].looked :
          req' = [req EXCEPT ![r] = Further(req[r], j, LookedUp(req[r], j))]
    BY <1>0, <1>4, LookStep
  <2>2. UNCHANGED <<people, next, overtaken>>
    BY <1>0, <1>4, LookStep
  <2>3. Current(q, k)
    <3>1. CASE p # r
      BY <1>0, <2>1, <2>2, <3>1, CurrentIs DEF CurrentInv, TypeOK
    <3>2. CASE p = r
      <4>1. q = Further(req[r], j, LookedUp(req[r], j))
        BY <1>0, <2>1, <3>2 DEF TypeOK
      <4>2. k \in req[r].looked \cup {j} /\ k \notin overtaken[r] /\ k \in Kind
        BY <1>0, <2>2, <3>2, <4>1 DEF Further, Request
      <4>3. k = j \/ Current(req[r], k)
        BY <4>2, CurrentIs DEF CurrentInv
      <4> QED
        BY <1>0, <3>2, <4>1, <4>2, <4>3, LookIsCurrent, Zenon
    <3> QED
      BY <3>1, <3>2
  <2> QED
    BY <2>2, <2>3 DEF Current, HasChild, NameOf
<1>5. ASSUME NEW x \in Id, NEW row, Write(r, x, row) PROVE Current(q, k)'
  <2>1. p # r /\ q = req[p] /\ overtaken'[p] = overtaken[p] \cup Outdated(req[p], x, row)
    BY <1>0, <1>5 DEF Write, TypeOK
  <2>2. Current(q, k)
    BY <2>1, CurrentIs DEF CurrentInv
  <2> QED
    BY <1>0, <1>5, <2>1, <2>2, WriteKeeps
<1> QED
  BY <1>2, <1>3, <1>4, <1>5, StepWrites DEF CurrentInv

LEMMA CurrentInit == Init => CurrentInv
<1> SUFFICES ASSUME Init PROVE RequestsAreCurrent
  BY TypeInvInit DEF CurrentInv
<1>1. \A r \in Client : req[r].looked = {}
  BY BegunTypes DEF Init
<1> QED
  BY <1>1 DEF RequestsAreCurrent

LEMMA CurrentNext ==
  ASSUME CurrentInv, [Next]_vars
  PROVE  CurrentInv'
<1>1. TypeInv'
  BY TypeInvNext DEF CurrentInv
<1>2. ASSUME NEW r \in Client, Step(r) PROVE RequestsAreCurrent'
  <2>1. \A p \in Client : \A k \in req'[p].looked \ overtaken'[p] :
          \A q : q = req'[p] => Current(q, k)'
    BY <1>1, <1>2, CurrentStep
  <2> QED
    BY <2>1 DEF Current, RequestsAreCurrent, HasChild, NameOf, Live
<1>3. CASE UNCHANGED vars
  BY <1>1, <1>3 DEF CurrentInv, RequestsAreCurrent, vars, Live
<1> QED
  BY <1>1, <1>2, <1>3 DEF CurrentInv, Next

\* Between the lookups and the write of a request, what it has looked up is so unless a
\* row it depends on was written.
THEOREM RequestsStayCurrent == Spec => []RequestsAreCurrent
<1>1. CurrentInv => RequestsAreCurrent
  BY DEF CurrentInv
<1> QED
  BY <1>1, CurrentInit, CurrentNext, PTL DEF Spec

-----------------------------------------------------------------------------
(* What a step may do to the tree *)

\* A request that writes has looked everything up.
LEMMA ReadyIsCurrent ==
  ASSUME CurrentInv, NEW r \in Client, NEW op, Ready(r, op), NEW k \in Kind \ overtaken[r]
  PROVE  Current(req[r], k)
BY CurrentIs DEF Ready, CurrentInv

LEMMA WriteFrame ==
  ASSUME TypeOK, NEW r \in Client, NEW x \in Id, NEW row, Write(r, x, row)
  PROVE  /\ people'[x] = row /\ \A c \in Id \ {x} : people'[c] = people[c]
         /\ req'[r].ask = NoAsk
BY BegunTypes DEF Write, TypeOK

\* A parent who was looked up, and is nobody in the end, has not been found.
LEMMA NotFound ==
  ASSUME CurrentInv, NEW r \in Client, NEW op, Ready(r, op), op # "delete",
         NEW k \in Kind \ overtaken[r], ~Live(Given(req[r].ask, k))
  PROVE  req[r].found[k] = NoData
BY ReadyIsCurrent DEF Current, NameOf, Live, Ready

LEMMA HasFound ==
  ASSUME CurrentInv, NEW r \in Client, NEW op, Ready(r, op), op # "delete",
         NEW k \in Kind \ overtaken[r], Live(Given(req[r].ask, k))
  PROVE  req[r].found[k] = people[Given(req[r].ask, k)].name
BY ReadyIsCurrent DEF Current, NameOf, Live, Ready

LEMMA RegisterOrphans ==
  ASSUME CurrentInv, NEW r \in Client, Register(r), Write(r, next, NewRow(req[r])), next \in Id,
         NEW c \in Id, NEW k \in Kind, Orphan(c, k)',
         ~(Orphan(c, k) /\ people[c].parent = people'[c].parent)
  PROVE  Writes(r, c) /\ (k \in overtaken[r] \/ req[r].found[k] = NoData)
<1>0. TypeOK /\ Ready(r, "register") /\ people[next].state = "none"
  BY DEF CurrentInv, TypeInv, Register, Free
<1>1. people'[next] = NewRow(req[r]) /\ \A d \in Id \ {next} : people'[d] = people[d]
  BY <1>0, WriteFrame
<1>2. \A v : Live(v) => Live(v)'
  BY <1>0, <1>1 DEF Live
<1>3. c = next
  BY <1>1, <1>2 DEF Orphan, Live
<1>4. people'[c].parent[k] = Given(req[r].ask, k)
  BY <1>1, <1>3 DEF NewRow
<1>5. ~Live(Given(req[r].ask, k))
  BY <1>2, <1>4 DEF Orphan, Live
<1>6. k \in overtaken[r] \/ req[r].found[k] = NoData
  BY <1>0, <1>5, NotFound
<1> QED
  BY <1>3, <1>6 DEF Writes

LEMMA UpdateOrphans ==
  ASSUME CurrentInv, NEW r \in Client, Update(r), req[r].ask.id \in Id,
         Write(r, req[r].ask.id, Updated(r)),
         NEW c \in Id, NEW k \in Kind, Orphan(c, k)',
         ~(Orphan(c, k) /\ people[c].parent = people'[c].parent)
  PROVE  Writes(r, c) /\ (k \in overtaken[r] \/ req[r].found[k] = NoData)
<1> DEFINE x == req[r].ask.id
<1>0. TypeOK /\ Ready(r, "update")
  BY DEF CurrentInv, TypeInv, Update
<1>1. people'[x] = Updated(r) /\ \A d \in Id \ {x} : people'[d] = people[d]
  BY <1>0, WriteFrame
<1>2. \A v : Live(v) => Live(v)'
  BY <1>0, <1>1 DEF Live, Updated
<1>3. c = x
  BY <1>1, <1>2 DEF Orphan, Live
<1>4. ~Live(Given(req[r].ask, k))
  <2>1. CASE k \in DOMAIN req[r].ask.parent
    <3>1. people'[c].parent[k] = Given(req[r].ask, k)
      BY <1>1, <1>3, <2>1 DEF Updated, Given
    <3> QED
      BY <1>2, <3>1 DEF Orphan, Live
  <2>2. CASE k \notin DOMAIN req[r].ask.parent
    BY <2>2 DEF Given, Live, Id
  <2> QED
    BY <2>1, <2>2
<1>5. k \in overtaken[r] \/ req[r].found[k] = NoData
  BY <1>0, <1>4, NotFound
<1> QED
  BY <1>3, <1>5 DEF Writes

LEMMA DeleteOrphans ==
  ASSUME CurrentInv, NEW r \in Client, Delete(r), req[r].ask.id \in Id,
         Write(r, req[r].ask.id, [people[req[r].ask.id] EXCEPT !.state = "soft"]),
         [people[req[r].ask.id] EXCEPT !.state = "soft"] \in Row,
         NEW c \in Id, NEW k \in Kind, Orphan(c, k)',
         ~(Orphan(c, k) /\ people[c].parent = people'[c].parent)
  PROVE  Delete(r) /\ req[r].ask.id = people[c].parent[k] /\ k \in overtaken[r]
<1> DEFINE x == req[r].ask.id
<1>0. TypeOK /\ Ready(r, "delete") /\ ~IsParent(req[r])
  BY DEF CurrentInv, TypeInv, Delete
<1>1. /\ people'[x].state = "soft"
      /\ \A d \in Id \ {x} : people'[d] = people[d]
  BY <1>0, WriteFrame DEF TypeOK, Row
<1>2. c # x /\ people'[c] = people[c]
  BY <1>1 DEF Orphan, Live
<1>3. Live(c) /\ people[c].parent[k] = x
  BY <1>1, <1>2 DEF Orphan, Live
<1>4. HasChild(x, k)
  BY <1>3 DEF HasChild, Live
<1>5. req[r].found[k] # "child"
  BY <1>0 DEF IsParent
<1>6. k \in overtaken[r]
  BY <1>0, <1>4, <1>5, ReadyIsCurrent DEF Current, Ready
<1> QED
  BY <1>3, <1>6

\* A child is left with a parent who is not there only by a deletion or a write that
\* something came in between, or for a parent who was not found in the first place.
THEOREM OrphansAreExplained == Spec => OrphanCauses
<1> DEFINE Good(c, k) ==
      Orphan(c, k)' /\ ~(Orphan(c, k) /\ people[c].parent = people'[c].parent) =>
        \E r \in Client :
          \/ /\ Delete(r) /\ req[r].ask.id = people[c].parent[k]
             /\ k \in overtaken[r]
          \/ Writes(r, c) /\ (k \in overtaken[r] \/ req[r].found[k] = NoData)
<1>1. ASSUME CurrentInv, NEW r \in Client, Step(r), NEW c \in Id, NEW k \in Kind
      PROVE  Good(c, k)
  <2>1. TypeInv
    BY <1>1 DEF CurrentInv
  <2>2. CASE UNCHANGED people
    BY <2>2 DEF Orphan, Live
  <2>3. Begin(r) \/ Look(r) \/ End(r) => UNCHANGED people
    BY DEF Begin, Look, End
  <2>4. CASE Register(r) /\ next \in Id /\ Write(r, next, NewRow(req[r]))
    BY <1>1, <2>4, RegisterOrphans
  <2>5. CASE Update(r) /\ req[r].ask.id \in Id /\ Write(r, req[r].ask.id, Updated(r))
    BY <1>1, <2>5, UpdateOrphans
  <2>6. CASE /\ Delete(r) /\ req[r].ask.id \in Id
             /\ Write(r, req[r].ask.id, [people[req[r].ask.id] EXCEPT !.state = "soft"])
             /\ [people[req[r].ask.id] EXCEPT !.state = "soft"] \in Row
    BY <1>1, <2>6, DeleteOrphans
  <2> HIDE DEF Good
  <2> QED
    BY <1>1, <2>1, <2>2, <2>3, <2>4, <2>5, <2>6, StepWrites
<1>2. ASSUME CurrentInv, [Next]_vars PROVE [\A c \in Id, k \in Kind : Good(c, k)]_vars
  BY <1>1, <1>2 DEF Next
<1> QED
  BY <1>2, CurrentInit, CurrentNext, PTL DEF Spec, OrphanCauses

-----------------------------------------------------------------------------
(* What the lookups suffice for: nobody is left with a parent who is not there *)

\* Writes that the lookups of parents and children do not cover: a deletion that another
\* write has overtaken, and a person saved with a parent who was not found, or whom
\* another request has written since.
Uncovered ==
  \/ \E r \in Client : Delete(r) /\ overtaken[r] # {}
  \/ \E r \in Client, c \in Id, k \in Kind :
       /\ Writes(r, c) /\ people'[c].parent[k] # 0
       /\ k \in overtaken[r] \/ req[r].found[k] = NoData

\* As long as there are no such writes, every parent that a live person names is live:
\* looking for the parents on a write, and for children on a deletion, is enough.
THEOREM ParentsStay ==
  Spec /\ [][~Uncovered]_vars => [](\A c \in Id, k \in Kind : ~Orphan(c, k))
<1> DEFINE NoOrphans == \A c \in Id, k \in Kind : ~Orphan(c, k)
           Causes == \A c \in Id, k \in Kind :
             Orphan(c, k)' /\ ~(Orphan(c, k) /\ people[c].parent = people'[c].parent) =>
               \E r \in Client :
                 \/ /\ Delete(r) /\ req[r].ask.id = people[c].parent[k]
                    /\ k \in overtaken[r]
                 \/ Writes(r, c) /\ (k \in overtaken[r] \/ req[r].found[k] = NoData)
<1>1. ASSUME Init PROVE NoOrphans
  <2>1. ASSUME NEW c \in Id, NEW k \in Kind PROVE people[c].parent[k] = 0
    <3>1. people[c] \in {NoRow, [NoRow EXCEPT !.state = "live", !.name = FirstName[c]]}
      BY <1>1, <2>1 DEF Init
    <3>2. NoRow.parent = [x \in Kind |-> 0]
          /\ [NoRow EXCEPT !.state = "live", !.name = FirstName[c]].parent = NoRow.parent
      BY Zenon DEF NoRow
    <3>3. people[c].parent = [x \in Kind |-> 0]
      BY <3>1, <3>2
    <3> QED
      BY <2>1, <3>3
  <2> QED
    BY <2>1 DEF Orphan
<1>2. ASSUME NoOrphans, [Causes]_vars, [~Uncovered]_vars PROVE NoOrphans'
  <2>1. CASE UNCHANGED vars
    BY <1>2, <2>1 DEF vars, Orphan, Live
  <2>2. ASSUME Causes, ~Uncovered, NEW c \in Id, NEW k \in Kind, Orphan(c, k)' PROVE FALSE
    <3>1. ~Orphan(c, k) /\ people'[c].parent[k] # 0
      BY <1>2, <2>2 DEF Orphan
    <3>2. PICK r \in Client :
            \/ Delete(r) /\ k \in overtaken[r]
            \/ Writes(r, c) /\ (k \in overtaken[r] \/ req[r].found[k] = NoData)
      BY <2>2, <3>1
    <3> QED
      BY <2>2, <3>1, <3>2 DEF Uncovered
  <2> QED
    BY <1>2, <2>1, <2>2
<1>3. Spec => [][Causes]_vars
  BY OrphansAreExplained DEF OrphanCauses
<1> HIDE DEF NoOrphans, Causes
<1>4. Spec /\ [][~Uncovered]_vars => []NoOrphans
  BY <1>1, <1>2, <1>3, PTL DEF Spec
<1> QED
  BY <1>4 DEF NoOrphans

LEMMA WriteMisnames ==
  ASSUME CurrentInv, NEW r \in Client, Step(r), ~UNCHANGED people,
         NEW c \in Id, NEW k \in Kind, Misnamed(c, k)', ~Misnamed(c, k)
  PROVE  \/ Writes(r, people'[c].parent[k])
         \/ /\ Writes(r, c)
            /\ k \in overtaken[r] \/ (Update(r) /\ k \notin DOMAIN req[r].ask.parent)
<1> DEFINE p == people'[c].parent[k]
<1>0. TypeOK /\ TypeInv
  BY DEF CurrentInv, TypeInv
\* Of a row that is left as it was, only the parent can have changed.
<1>1. ASSUME NEW x \in Id, people'[x].state = "soft" \/ Writes(r, x),
             \A d \in Id \ {x} : people'[d] = people[d], c # x
      PROVE  Writes(r, p)
  BY <1>1 DEF Misnamed, Live
\* A row that is written with the parent that was looked up.
<1>2. ASSUME NEW op \in {"register", "update"}, Ready(r, op), Writes(r, c),
             \A d \in Id \ {c} : people'[d] = people[d],
             p = Given(req[r].ask, k), people'[c].copied[k] = req[r].found[k]
      PROVE  Writes(r, p) \/ k \in overtaken[r]
  <2> SUFFICES ASSUME p # c, k \notin overtaken[r] PROVE FALSE
    BY <1>2
  <2>1. Live(p) /\ people'[p] = people[p]
    BY <1>2 DEF Misnamed, Live
  <2>2. req[r].found[k] = people[p].name
    BY <1>2, <2>1, HasFound
  <2> QED
    BY <1>2, <2>1, <2>2 DEF Misnamed
<1>3. CASE Register(r) /\ Ready(r, "register") /\ next \in Id /\ Write(r, next, NewRow(req[r]))
  <2>1. people'[next] = NewRow(req[r]) /\ \A d \in Id \ {next} : people'[d] = people[d]
    BY <1>0, <1>3, WriteFrame
  <2>2. CASE c # next
    BY <1>1, <1>3, <2>1, <2>2 DEF Writes
  <2>3. CASE c = next
    <3>1. p = Given(req[r].ask, k) /\ people'[c].copied[k] = req[r].found[k]
      BY <2>1, <2>3 DEF NewRow
    <3>2. Writes(r, c)
      BY <1>3, <2>3 DEF Writes
    <3> QED
      BY <1>2, <1>3, <2>1, <2>3, <3>1, <3>2
  <2> QED
    BY <2>2, <2>3
<1>4. CASE Update(r) /\ Ready(r, "update") /\ req[r].ask.id \in Id
           /\ Write(r, req[r].ask.id, Updated(r))
  <2> DEFINE x == req[r].ask.id
  <2>1. people'[x] = Updated(r) /\ \A d \in Id \ {x} : people'[d] = people[d]
    BY <1>0, <1>4, WriteFrame
  <2>2. CASE c # x
    BY <1>1, <1>4, <2>1, <2>2 DEF Writes
  <2>3. CASE c = x
    <3>1. /\ k \in DOMAIN req[r].ask.parent => p = Given(req[r].ask, k)
          /\ people'[c].copied[k] = req[r].found[k]
      BY <2>1, <2>3 DEF Updated, Given, Copied
    <3>2. Writes(r, c)
      BY <1>4, <2>3 DEF Writes
    <3> QED
      BY <1>2, <1>4, <2>1, <2>3, <3>1, <3>2
  <2> QED
    BY <2>2, <2>3
<1>5. CASE Delete(r) /\ req[r].ask.id \in Id
           /\ Write(r, req[r].ask.id, [people[req[r].ask.id] EXCEPT !.state = "soft"])
  <2>1. /\ people'[req[r].ask.id].state = "soft"
        /\ \A d \in Id \ {req[r].ask.id} : people'[d] = people[d]
    BY <1>0, <1>5, WriteFrame DEF TypeOK, Row
  <2>2. c # req[r].ask.id
    BY <2>1 DEF Misnamed, Live
  <2> QED
    BY <1>1, <1>5, <2>1, <2>2
<1>6. Begin(r) \/ Look(r) \/ End(r) => UNCHANGED people
  BY DEF Begin, Look, End
<1> QED
  BY <1>0, <1>3, <1>4, <1>5, <1>6, StepWrites

\* A copied name goes wrong only with a write of the parent, or of the copy after one.
THEOREM MisnamedAreExplained == Spec => MisnamedCauses
<1> DEFINE Good(c, k) ==
      Misnamed(c, k)' /\ ~Misnamed(c, k) =>
        \E r \in Client :
          \/ Writes(r, people'[c].parent[k])
          \/ /\ Writes(r, c)
             /\ k \in overtaken[r] \/ (Update(r) /\ k \notin DOMAIN req[r].ask.parent)
<1>1. ASSUME CurrentInv, NEW r \in Client, Step(r), NEW c \in Id, NEW k \in Kind
      PROVE  Good(c, k)
  <2>1. CASE UNCHANGED people
    BY <2>1 DEF Misnamed, Live
  <2> QED
    BY <1>1, <2>1, WriteMisnames
<1>2. ASSUME CurrentInv, [Next]_vars PROVE [\A c \in Id, k \in Kind : Good(c, k)]_vars
  BY <1>1, <1>2 DEF Next
<1> QED
  BY <1>2, CurrentInit, CurrentNext, PTL DEF Spec, MisnamedCauses

\* The number of a person is nobody else's later, and a deleted person stays deleted.
THEOREM PeopleStay == Spec => PeopleAreKept
<1> DEFINE Good(x) ==
      people[x].state # "none" /\ people'[x] # people[x] =>
        /\ \E r \in Client : req[r].ask # NoAsk /\ req[r].ask.id = x /\ req'[r].ask = NoAsk
        /\ people'[x].state # people[x].state =>
             people'[x] = [people[x] EXCEPT !.state = "soft"]
<1>1. ASSUME TypeInv, NEW r \in Client, Step(r), NEW x \in Id,
             people[x].state # "none", people'[x] # people[x]
      PROVE  Good(x)
  <2>0. TypeOK
    BY <1>1 DEF TypeInv
  <2>1. CASE Begin(r) \/ Look(r) \/ End(r)
    BY <1>1, <2>1 DEF Begin, Look, End
  <2>2. CASE Register(r) /\ next \in Id /\ Write(r, next, NewRow(req[r]))
    BY <1>1, <2>0, <2>2, WriteFrame DEF Register, Free
  <2>3. CASE Ready(r, "update") /\ req[r].ask.id \in Id /\ Write(r, req[r].ask.id, Updated(r))
    <3>1. x = req[r].ask.id /\ people'[x] = Updated(r) /\ req'[r].ask = NoAsk
      BY <1>1, <2>0, <2>3, WriteFrame
    <3>2. people'[x].state = people[x].state
      BY <1>1, <3>1 DEF Updated
    <3>3. req[r].ask # NoAsk
      BY <2>3, NoAskIsNone DEF Ready
    <3> QED
      BY <3>1, <3>2, <3>3
  <2>4. CASE Ready(r, "delete") /\ req[r].ask.id \in Id
             /\ Write(r, req[r].ask.id, [people[req[r].ask.id] EXCEPT !.state = "soft"])
    <3>1. x = req[r].ask.id /\ people'[x] = [people[x] EXCEPT !.state = "soft"]
          /\ req'[r].ask = NoAsk
      BY <1>1, <2>0, <2>4, WriteFrame
    <3>2. req[r].ask # NoAsk
      BY <2>4, NoAskIsNone DEF Ready
    <3> QED
      BY <3>1, <3>2
  <2> QED
    BY <1>1, <2>1, <2>2, <2>3, <2>4, StepWrites
<1>2. ASSUME TypeInv, [Next]_vars PROVE [\A x \in Id : Good(x)]_vars
  BY <1>1, <1>2 DEF Next
<1> QED
  BY <1>2, TypeInvInit, TypeInvNext, PTL DEF Spec, PeopleAreKept
=============================================================================
