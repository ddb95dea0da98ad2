--------------------------- MODULE ClanFund_proofs ---------------------------
(***************************************************************************)
(* Theorems about ClanFund for every set of clients and clans, all amounts  *)
(* and tables of any length.                                                *)
(***************************************************************************)
EXTENDS ClanFund, LedgerSums_proofs

USE ClanAssumption, AmountAssumption, NoMoneyAssumption, BoundsAssumption

-----------------------------------------------------------------------------
(* What the writes do to a table and to its totals *)

LEMMA RowIsEntry == Row = Entry(Clan)
BY DEF Row, Entry

LEMMA InsertedTable ==
  ASSUME NEW t \in Seq(Row), NEW q \in Request, q.clan \in Clan, q.money \in Int
  PROVE  /\ NewRow(q) \in Row
         /\ Append(t, NewRow(q)) \in Seq(Row)
         /\ \A i \in DOMAIN t : i \in DOMAIN Append(t, NewRow(q))
                             /\ Append(t, NewRow(q))[i] = t[i]
         /\ \A i \in DOMAIN Append(t, NewRow(q)) :
              i \in DOMAIN t \/ Append(t, NewRow(q))[i] = NewRow(q)
         /\ \A c : Total(Append(t, NewRow(q)), c)
                     = Total(t, c) + (IF c = q.clan THEN q.money ELSE 0)
<1>1. NewRow(q) \in Row
  BY DEF NewRow, Row, Request
<1>2. ASSUME NEW c
      PROVE  Total(Append(t, NewRow(q)), c)
                     = Total(t, c) + (IF c = q.clan THEN q.money ELSE 0)
  <2>1. Total(Append(t, NewRow(q)), c) = Total(t, c) + Share(NewRow(q), c)
    BY <1>1, RowIsEntry, TotalAppend
  <2>2. Share(NewRow(q), c) = IF c = q.clan THEN q.money ELSE 0
    BY DEF NewRow, Share
  <2> QED
    BY <2>1, <2>2
<1> QED
  BY <1>1, <1>2

\* A save changes the money of one row, and the total of its clan by the
\* difference if the row is live.
LEMMA SavedTable ==
  ASSUME NEW t \in Seq(Row), NEW q \in Request, q.id \in DOMAIN t
  PROVE  /\ Saved(t, q) \in Seq(Row)
         /\ DOMAIN Saved(t, q) = DOMAIN t
         /\ \A i \in DOMAIN t : /\ Saved(t, q)[i].clan = t[i].clan
                                /\ Saved(t, q)[i].deleted = t[i].deleted
                                /\ Saved(t, q)[i].money
                                     = IF i = q.id /\ q.money # NoMoney
                                       THEN q.money ELSE t[i].money
         /\ \A c : c # t[q.id].clan => Total(Saved(t, q), c) = Total(t, c)
<1> DEFINE row == [t[q.id] EXCEPT !.money = q.money]
<1>1. CASE q.money = NoMoney
  BY <1>1 DEF Saved
<1>2. CASE q.money # NoMoney
  <2>1. t[q.id] \in Row /\ q.money \in Int
    BY <1>2 DEF Request
  <2>2. row \in Row /\ row.clan = t[q.id].clan /\ row.deleted = t[q.id].deleted
        /\ row.money = q.money
    BY <2>1 DEF Row
  <2>3. Saved(t, q) = [t EXCEPT ![q.id] = row]
    BY <1>2 DEF Saved
  <2> HIDE DEF row
  <2>4. Saved(t, q) \in Seq(Row) /\ DOMAIN Saved(t, q) = DOMAIN t
    BY <2>2, <2>3
  <2>5. \A i \in DOMAIN t : Saved(t, q)[i] = IF i = q.id THEN row ELSE t[i]
    BY <2>3
  <2>6. ASSUME NEW c, c # t[q.id].clan PROVE Total(Saved(t, q), c) = Total(t, c)
    <3> DEFINE u == [t EXCEPT ![q.id] = row]
    <3>1. Total(u, c) = Total(t, c) - Share(t[q.id], c) + Share(row, c)
      <4>1. t \in Seq(Entry(Clan)) /\ row \in Entry(Clan)
        BY <2>2, RowIsEntry
      <4> QED
        BY <4>1, TotalExcept
    <3>2. Share(t[q.id], c) = 0 /\ Share(row, c) = 0 /\ Total(t, c) \in Int
      BY <2>2, <2>6, RowIsEntry, TotalType DEF Share
    <3> QED
      BY <2>3, <3>1, <3>2
  <2> QED
    BY <1>2, <2>2, <2>4, <2>5, <2>6
<1> QED
  BY <1>1, <1>2

\* A soft delete stamps one row and takes its share out of the total of its clan.
LEMMA RemovedTable ==
  ASSUME NEW t \in Seq(Row), NEW id \in DOMAIN t
  PROVE  /\ Removed(t, id) \in Seq(Row)
         /\ DOMAIN Removed(t, id) = DOMAIN t
         /\ \A i \in DOMAIN t : /\ Removed(t, id)[i].clan = t[i].clan
                                /\ Removed(t, id)[i].money = t[i].money
                                /\ t[i].deleted => Removed(t, id)[i].deleted
<1> DEFINE row == [t[id] EXCEPT !.deleted = TRUE]
<1>1. \A i \in DOMAIN t : t[i] \in Row
  OBVIOUS
<1>2. row \in Row /\ row.clan = t[id].clan /\ row.money = t[id].money /\ row.deleted
  BY <1>1 DEF Row
<1>3. Removed(t, id) = [t EXCEPT ![id] = row]
  BY DEF Removed
<1> HIDE DEF row
<1>4. Removed(t, id) \in Seq(Row) /\ DOMAIN Removed(t, id) = DOMAIN t
  BY <1>2, <1>3
<1>5. \A i \in DOMAIN t : Removed(t, id)[i] = IF i = id THEN row ELSE t[i]
  BY <1>3
<1> QED
  BY <1>2, <1>4, <1>5

LEMMA RemovedTotal ==
  ASSUME NEW t \in Seq(Row), NEW id \in DOMAIN t, NEW c
  PROVE  Total(Removed(t, id), c) = Total(t, c) - Share(t[id], c)
<1> DEFINE row == [t[id] EXCEPT !.deleted = TRUE]
           u == [t EXCEPT ![id] = row]
<1>1. t[id] \in Row
  OBVIOUS
<1>2. row \in Row /\ Share(row, c) = 0
  BY <1>1 DEF Row, Share
<1>6. Share(t[id], c) \in Int
  BY <1>1 DEF Row, Share
<1>3. u = Removed(t, id)
  BY DEF Removed
<1> HIDE DEF row
<1>4. Total(u, c) = Total(t, c) - Share(t[id], c) + Share(row, c)
  <2>1. t \in Seq(Entry(Clan)) /\ row \in Entry(Clan)
    BY <1>2, RowIsEntry
  <2> QED
    BY <2>1, TotalExcept
<1>5. Total(t, c) \in Int
  BY RowIsEntry, TotalType
<1> HIDE DEF u
<1> QED
  BY <1>2, <1>3, <1>4, <1>5, <1>6

-----------------------------------------------------------------------------
(* Type correctness, and what requests know of their entries *)

FundInv == TypeOK /\ RequestsKnowTheirEntries

LEMMA FundInvInit == Init => FundInv
BY DEF Init, FundInv, TypeOK, RequestsKnowTheirEntries, RequestOK, Request, Idle, Begun, Op, PC

\* A step that changes no table and leaves r with a request in order.
LEMMA LocalStep ==
  ASSUME FundInv, NEW r \in Client, NEW q \in Request, RequestOK(q),
         req' = [req EXCEPT ![r] = q], UNCHANGED <<collects, pays, clans, manager>>,
         stale' \subseteq stale, overtaken' \subseteq overtaken
  PROVE  FundInv'
BY DEF FundInv, TypeOK, RequestsKnowTheirEntries, RequestOK

LEMMA BeginStep ==
  ASSUME FundInv, NEW r \in Client,
         \/ BeginCreateCollectMoney(r) \/ BeginUpdateCollectMoney(r) \/ BeginTotalMoney(r)
         \/ BeginCreatePay(r) \/ BeginUpdatePay(r)
  PROVE  FundInv'
<1> USE DEF Begin
<1>1. CASE BeginCreateCollectMoney(r)
  <2>1. PICK c \in Clan, m \in Amount : Begin(r, "createCollectMoney", "validateRoleMember", c, 0, m)
    BY <1>1 DEF BeginCreateCollectMoney
  <2> DEFINE q == Begun("createCollectMoney", "validateRoleMember", c, 0, m)
  <2>2. q \in Request /\ RequestOK(q)
    BY DEF Begun, Request, RequestOK, Op, PC
  <2> QED
    BY <2>1, <2>2, LocalStep
<1>2. CASE BeginUpdateCollectMoney(r)
  <2>1. PICK id \in 1..MaxCollects, m \in EditAmount \cup {NoMoney} :
          Begin(r, "updateCollectMoney", "findEntry", 0, id, m)
    BY <1>2 DEF BeginUpdateCollectMoney
  <2> DEFINE q == Begun("updateCollectMoney", "findEntry", 0, id, m)
  <2>2. q \in Request /\ RequestOK(q)
    BY DEF Begun, Request, RequestOK, Op, PC
  <2> QED
    BY <2>1, <2>2, LocalStep
<1>3. CASE BeginTotalMoney(r)
  <2>1. PICK c \in Clan : Begin(r, "totalMoney", "findClan", c, 0, NoMoney)
    BY <1>3 DEF BeginTotalMoney
  <2> DEFINE q == Begun("totalMoney", "findClan", c, 0, NoMoney)
  <2>2. q \in Request /\ RequestOK(q)
    BY DEF Begun, Request, RequestOK, Op, PC
  <2> QED
    BY <2>1, <2>2, LocalStep
<1>4. CASE BeginCreatePay(r)
  <2>1. PICK c \in Clan, m \in Amount : Begin(r, "createPay", "validateRoleMember", c, 0, m)
    BY <1>4 DEF BeginCreatePay
  <2> DEFINE q == Begun("createPay", "validateRoleMember", c, 0, m)
  <2>2. q \in Request /\ RequestOK(q)
    BY DEF Begun, Request, RequestOK, Op, PC
  <2> QED
    BY <2>1, <2>2, LocalStep
<1>5. CASE BeginUpdatePay(r)
  <2>1. PICK id \in 1..MaxPays, m \in Amount \cup {NoMoney} :
          Begin(r, "updatePay", "findEntry", 0, id, m)
    BY <1>5 DEF BeginUpdatePay
  <2> DEFINE q == Begun("updatePay", "findEntry", 0, id, m)
  <2>2. q \in Request /\ RequestOK(q)
    BY DEF Begun, Request, RequestOK, Op, PC
  <2> QED
    BY <2>1, <2>2, LocalStep
<1> QED
  BY <1>1, <1>2, <1>3, <1>4, <1>5

LEMMA FinishStep ==
  ASSUME FundInv, NEW r \in Client, Finish(r), UNCHANGED <<collects, pays, clans, manager>>
  PROVE  FundInv'
<1>1. Idle \in Request /\ RequestOK(Idle)
  BY DEF Idle, Begun, Request, RequestOK, Op, PC
<1> QED
  BY <1>1, LocalStep DEF Finish

LEMMA ContinueStep ==
  ASSUME FundInv, NEW r \in Client, NEW pc \in PC,
         RequestOK([req[r] EXCEPT !.pc = pc]),
         Continue(r, pc), UNCHANGED <<collects, pays, clans, manager>>
  PROVE  FundInv'
<1> DEFINE q == [req[r] EXCEPT !.pc = pc]
<1>1. q \in Request
  BY DEF FundInv, TypeOK, Request
<1>2. req' = [req EXCEPT ![r] = q]
  BY DEF Continue
<1> QED
  BY <1>1, <1>2, LocalStep DEF Continue

LEMMA LookupStep ==
  ASSUME FundInv, NEW r \in Client,
         FindEntry(r) \/ ValidateRoleMember(r) \/ FindClan(r) \/ FindUser(r)
  PROVE  FundInv'
<1>0. req[r] \in Request /\ RequestOK(req[r]) /\ collects \in Seq(Row) /\ pays \in Seq(Row)
  BY DEF FundInv, TypeOK, RequestsKnowTheirEntries
<1>1. CASE FindEntry(r)
  <2>1. CASE Finish(r)
    BY <1>1, <2>1, FinishStep DEF FindEntry
  <2>2. CASE ~Finish(r)
    <3> DEFINE table == IF req[r].op = "updatePay" THEN pays ELSE collects
               row == table[req[r].id]
               q == WithEntry(req[r], row)
    <3>1. /\ req[r].pc = "findEntry" /\ req[r].id \in DOMAIN table
          /\ req' = [req EXCEPT ![r] = q]
          /\ UNCHANGED <<collects, pays, clans, manager, stale, overtaken>>
      BY <1>1, <2>2 DEF FindEntry, Exists
    <3>2. row \in Row
      BY <1>0, <3>1
    <3>3. req[r].op \in {"updateCollectMoney", "updatePay"}
      BY <1>0, <3>1 DEF RequestOK, Request, Op
    <3>4. q \in Request
      <4>1. row.clan \in Clan /\ row.money \in Int
        BY <3>2 DEF Row
      <4>2. "validateRoleMember" \in PC
        BY DEF PC
      <4>3. req[r].op \in Op /\ req[r].id \in Nat /\ req[r].money \in Int \cup {NoMoney}
        BY <1>0 DEF Request
      <4> HIDE DEF row
      <4>4. WithEntry(req[r], row) \in Request
        BY <4>1, <4>2, <4>3, SMTT(30) DEF WithEntry, Begun, Request
      <4> QED
        BY <4>4
    <3>5. /\ q.op = req[r].op /\ q.pc = "validateRoleMember" /\ q.id = req[r].id
          /\ q.clan = row.clan /\ q.money = req[r].money
      BY DEF WithEntry, Begun
    <3> HIDE DEF q
    <3>6. RequestOK(q)
      BY <1>0, <3>1, <3>3, <3>5 DEF RequestOK
    <3> QED
      BY <3>1, <3>4, <3>6, LocalStep
  <2> QED
    BY <2>1, <2>2
<1>2. CASE ValidateRoleMember(r)
  <2> DEFINE pc == IF req[r].op = "updateCollectMoney" THEN "save" ELSE "findClan"
  <2>1. req[r].pc = "validateRoleMember" /\ pc \in PC
    BY <1>2 DEF ValidateRoleMember, PC
  <2>2. RequestOK([req[r] EXCEPT !.pc = pc])
    BY <1>0, <2>1 DEF RequestOK, Request
  <2>3. (Continue(r, pc) \/ Finish(r)) /\ UNCHANGED <<collects, pays, clans, manager>>
    BY <1>2 DEF ValidateRoleMember
  <2> HIDE DEF pc
  <2> QED
    BY <2>1, <2>2, <2>3, FinishStep, ContinueStep
<1>3. CASE FindClan(r)
  <2> DEFINE pc == AfterFindClan(req[r])
  <2>1. req[r].pc = "findClan" /\ pc \in PC
    BY <1>3 DEF FindClan, AfterFindClan, PC
  <2>2. RequestOK([req[r] EXCEPT !.pc = pc])
    BY <1>0, <2>1 DEF RequestOK, Request, AfterFindClan, Op
  <2>3. (Continue(r, pc) \/ Finish(r)) /\ UNCHANGED <<collects, pays, clans, manager>>
    BY <1>3 DEF FindClan
  <2> HIDE DEF pc
  <2> QED
    BY <2>1, <2>2, <2>3, FinishStep, ContinueStep
<1>4. CASE FindUser(r)
  <2>1. RequestOK([req[r] EXCEPT !.pc = "save"]) /\ "save" \in PC
    BY <1>0, <1>4 DEF RequestOK, Request, FindUser, PC
  <2> QED
    BY <1>4, <2>1, FinishStep, ContinueStep DEF FindUser
<1> QED
  BY <1>1, <1>2, <1>3, <1>4

LEMMA SumStep ==
  ASSUME FundInv, NEW r \in Client, TotalCollectMoney(r) \/ GetTotalPay(r)
  PROVE  FundInv'
<1>0. req[r] \in Request /\ RequestOK(req[r])
  BY DEF FundInv, TypeOK, RequestsKnowTheirEntries
<1>1. CASE TotalCollectMoney(r)
  <2> DEFINE s == Total(collects, SummedClan(req[r]))
             q == [req[r] EXCEPT !.pc = "getTotalPay", !.collected = s]
  <2>1. s \in Int
    BY RowIsEntry, TotalType DEF FundInv, TypeOK
  <2> HIDE DEF s
  <2>2. q \in Request
    BY <1>0, <2>1 DEF Request, PC
  <2>3. RequestOK(q)
    BY <1>0, <1>1 DEF RequestOK, Request, TotalCollectMoney
  <2>4. req' = [req EXCEPT ![r] = q]
    BY <1>1 DEF TotalCollectMoney, s
  <2> QED
    BY <1>1, <2>2, <2>3, <2>4, LocalStep DEF TotalCollectMoney
<1>2. CASE GetTotalPay(r)
  <2>1. CASE Finish(r)
    BY <1>2, <2>1, FinishStep DEF GetTotalPay
  <2>2. CASE ~Finish(r)
    <3> DEFINE q == Checked(req[r])
    <3>1. /\ req[r].pc = "getTotalPay" /\ req[r].op # "totalMoney"
          /\ req' = [req EXCEPT ![r] = q]
          /\ UNCHANGED <<collects, pays, clans, manager, stale, overtaken>>
      BY <1>2, <2>2 DEF GetTotalPay
    <3>2. q \in Request
      BY <1>0 DEF Checked, Begun, Request, PC
    <3>3. /\ q.op = req[r].op /\ q.pc = "save" /\ q.id = req[r].id
          /\ q.clan = req[r].clan /\ q.money = req[r].money
      BY DEF Checked, Begun
    <3> HIDE DEF q
    <3>4. RequestOK(q)
      BY <1>0, <3>1, <3>3 DEF RequestOK
    <3> QED
      BY <3>1, <3>2, <3>4, LocalStep
  <2> QED
    BY <2>1, <2>2
<1> QED
  BY <1>1, <1>2


\* A table that keeps its rows and their clans.
KeepsRows(t, u) == \A i \in DOMAIN t : i \in DOMAIN u /\ u[i].clan = t[i].clan

LEMMA WriteStep ==
  ASSUME FundInv, collects' \in Seq(Row), pays' \in Seq(Row),
         KeepsRows(collects, collects'), KeepsRows(pays, pays'),
         \A i \in DOMAIN pays' : pays'[i].money >= 0,
         (\E r \in Client : req' = [req EXCEPT ![r] = Idle]) \/ UNCHANGED req,
         UNCHANGED <<clans, manager>>, stale' \subseteq Client, overtaken' \subseteq overtaken
  PROVE  FundInv'
<1>1. Idle \in Request /\ RequestOK(Idle)'
  BY DEF Idle, Begun, Request, RequestOK, Op, PC
<1>2. TypeOK'
  BY <1>1 DEF FundInv, TypeOK
<1>3. ASSUME NEW r \in Client PROVE RequestOK(req[r])'
  <2>1. RequestOK(req[r]) /\ req \in [Client -> Request]
    BY DEF FundInv, RequestsKnowTheirEntries, TypeOK
  <2>2. CASE req'[r] = Idle
    BY <1>1, <2>2 DEF RequestOK
  <2>3. CASE req'[r] = req[r]
    BY <2>1, <2>3 DEF RequestOK, KeepsRows
  <2> QED
    BY <2>1, <2>2, <2>3
<1> QED
  BY <1>2, <1>3 DEF FundInv, RequestsKnowTheirEntries

\* The facts about a saving request that its write relies on.
LEMMA SavingRequest ==
  ASSUME FundInv, NEW r \in Client, req[r].pc = "save"
  PROVE  /\ req[r] \in Request
         /\ req[r].op \in {"createCollectMoney", "createPay"} =>
              req[r].clan \in Clan /\ req[r].money \in Nat
         /\ req[r].op = "updateCollectMoney" =>
              req[r].id \in DOMAIN collects /\ collects[req[r].id].clan = req[r].clan
         /\ req[r].op = "updatePay" =>
              /\ req[r].id \in DOMAIN pays /\ pays[req[r].id].clan = req[r].clan
              /\ req[r].money \in Nat \cup {NoMoney}
BY DEF FundInv, TypeOK, RequestsKnowTheirEntries, RequestOK

LEMMA WritesKeepInv ==
  ASSUME FundInv, NEW r \in Client,
         \/ InsertCollect(r) \/ InsertPay(r) \/ UpdateCollect(r) \/ UpdatePay(r)
         \/ \E id \in 1..MaxCollects : RemoveCollect(r, id)
         \/ \E id \in 1..MaxPays : RemovePay(r, id)
  PROVE  FundInv'
<1>0. /\ collects \in Seq(Row) /\ pays \in Seq(Row) /\ stale \subseteq Client
      /\ \A i \in DOMAIN pays : pays[i].money >= 0
  BY DEF FundInv, TypeOK, RequestsKnowTheirEntries
<1>1. KeepsRows(collects, collects) /\ KeepsRows(pays, pays)
  BY DEF KeepsRows
<1>2. \A c : Summing(c) \subseteq Client
  BY DEF Summing
<1>3. CASE InsertCollect(r)
  <2>1. req[r].clan \in Clan /\ req[r].money \in Int /\ req[r] \in Request
    BY <1>3, SavingRequest DEF InsertCollect
  <2>2. collects' \in Seq(Row) /\ KeepsRows(collects, collects')
    BY <1>0, <1>3, <2>1, InsertedTable DEF InsertCollect, KeepsRows
  <2> QED
    BY <1>0, <1>1, <1>2, <1>3, <2>2, WriteStep DEF InsertCollect, WriteAndFinish
<1>4. CASE InsertPay(r)
  <2>1. req[r].clan \in Clan /\ req[r].money \in Nat /\ req[r] \in Request
    BY <1>4, SavingRequest DEF InsertPay
  <2>2. pays' \in Seq(Row) /\ KeepsRows(pays, pays')
    BY <1>0, <1>4, <2>1, InsertedTable DEF InsertPay, KeepsRows
  <2>3. NewRow(req[r]).money >= 0
    BY <2>1 DEF NewRow
  <2>4. \A i \in DOMAIN pays' : pays'[i].money >= 0
    BY <1>0, <1>4, <2>1, <2>3, InsertedTable DEF InsertPay
  <2> QED
    BY <1>0, <1>1, <1>2, <1>4, <2>2, <2>4, WriteStep DEF InsertPay, WriteAndFinish
<1>5. CASE UpdateCollect(r)
  <2>1. req[r].id \in DOMAIN collects /\ req[r] \in Request
    BY <1>5, SavingRequest DEF UpdateCollect
  <2>2. collects' \in Seq(Row) /\ KeepsRows(collects, collects')
    BY <1>0, <1>5, <2>1, SavedTable DEF UpdateCollect, KeepsRows
  <2> QED
    BY <1>0, <1>1, <1>2, <1>5, <2>2, WriteStep DEF UpdateCollect, WriteAndFinish
<1>6. CASE UpdatePay(r)
  <2>1. /\ req[r].id \in DOMAIN pays /\ req[r] \in Request
        /\ req[r].money \in Nat \cup {NoMoney}
    BY <1>6, SavingRequest DEF UpdatePay
  <2>2. pays' \in Seq(Row) /\ KeepsRows(pays, pays')
    BY <1>0, <1>6, <2>1, SavedTable DEF UpdatePay, KeepsRows
  <2>3. \A i \in DOMAIN pays' : pays'[i].money >= 0
    <3>1. pays' = Saved(pays, req[r])
      BY <1>6 DEF UpdatePay
    <3>2. DOMAIN pays' = DOMAIN pays
          /\ \A i \in DOMAIN pays : pays'[i].money \in {req[r].money, pays[i].money} \ {NoMoney}
      <4>1. \A i \in DOMAIN pays : pays[i].money # NoMoney
        <5>1. \A i \in DOMAIN pays : pays[i] \in Row
          BY <1>0
        <5> QED
          BY <5>1 DEF Row
      <4> QED
        BY <1>0, <2>1, <3>1, <4>1, SavedTable
    <3>3. req[r].money # NoMoney => req[r].money >= 0
      BY <2>1
    <3> QED
      BY <1>0, <3>2, <3>3
  <2> QED
    BY <1>0, <1>1, <1>2, <1>6, <2>2, <2>3, WriteStep DEF UpdatePay, WriteAndFinish
<1>7. CASE \E id \in 1..MaxCollects : RemoveCollect(r, id)
  <2>1. PICK id \in 1..MaxCollects : RemoveCollect(r, id)
    BY <1>7
  <2>2. collects' \in Seq(Row) /\ KeepsRows(collects, collects')
    <3>1. id \in DOMAIN collects /\ collects' = Removed(collects, id)
      BY <2>1 DEF RemoveCollect
    <3> QED
      BY <1>0, <3>1, RemovedTable DEF KeepsRows
  <2> QED
    BY <1>0, <1>1, <1>2, <2>1, <2>2, WriteStep DEF RemoveCollect
<1>8. CASE \E id \in 1..MaxPays : RemovePay(r, id)
  <2>1. PICK id \in 1..MaxPays : RemovePay(r, id)
    BY <1>8
  <2>2. id \in DOMAIN pays /\ pays' = Removed(pays, id)
    BY <2>1 DEF RemovePay
  <2>3. pays' \in Seq(Row) /\ KeepsRows(pays, pays') /\ DOMAIN pays' = DOMAIN pays
        /\ \A i \in DOMAIN pays : pays'[i].money = pays[i].money
    BY <1>0, <2>2, RemovedTable DEF KeepsRows
  <2>4. \A i \in DOMAIN pays' : pays'[i].money >= 0
    BY <1>0, <2>3
  <2> QED
    BY <1>0, <1>1, <1>2, <2>1, <2>3, <2>4, WriteStep DEF RemovePay
<1> QED
  BY <1>3, <1>4, <1>5, <1>6, <1>7, <1>8

LEMMA FundInvNext ==
  ASSUME FundInv, [Next]_vars
  PROVE  FundInv'
<1>1. ASSUME NEW r \in Client, Step(r) PROVE FundInv'
  <2>1. CASE Abort(r)
    BY <2>1, FinishStep DEF Abort
  <2> QED
    BY <1>1, <2>1, BeginStep, LookupStep, SumStep, WritesKeepInv DEF Step
<1>2. ASSUME NEW c \in Clan, RemoveClan(c) PROVE FundInv'
  BY <1>2 DEF RemoveClan, FundInv, TypeOK, RequestsKnowTheirEntries, RequestOK
<1>3. ASSUME NEW r \in Client, NEW c \in Clan, ChangeManagers(r, c) PROVE FundInv'
  BY <1>3 DEF ChangeManagers, FundInv, TypeOK, RequestsKnowTheirEntries, RequestOK
<1>4. CASE UNCHANGED vars
  BY <1>4 DEF vars, FundInv, TypeOK, RequestsKnowTheirEntries, RequestOK
<1> QED
  BY <1>1, <1>2, <1>3, <1>4 DEF Next

\* Type correctness of every reachable state.
THEOREM TypeCorrect == Spec => []TypeOK
<1>1. FundInv => TypeOK
  BY DEF FundInv
<1> QED
  BY <1>1, FundInvInit, FundInvNext, PTL DEF Spec

\* Every request keeps knowing its entry: the clan whose role an update
\* validates is the clan of the row it saves, and no payment is negative.
THEOREM EntriesStayKnown == Spec => []RequestsKnowTheirEntries
<1>1. FundInv => RequestsKnowTheirEntries
  BY DEF FundInv
<1> QED
  BY <1>1, FundInvInit, FundInvNext, PTL DEF Spec


-----------------------------------------------------------------------------
(* Sums held by requests that are not interfered with *)

\* A write by r to the fund of clan d changes no other total, and makes every
\* request stale that had begun to sum d.
FundWrite(r, d) ==
  /\ \A c : c # d => Total(collects', c) = Total(collects, c)
                    /\ Total(pays', c) = Total(pays, c)
  /\ (stale \cup Summing(d)) \ {r} \subseteq stale'
  /\ \A q \in Client \ {r} : req'[q] = req[q]
  /\ req'[r].pc = "idle"

LEMMA EveryWrite ==
  ASSUME FundInv, NEW r \in Client
  PROVE  /\ InsertCollect(r) \/ InsertPay(r) \/ UpdateCollect(r) \/ UpdatePay(r)
              => FundWrite(r, req[r].clan)
         /\ \A id \in 1..MaxCollects : RemoveCollect(r, id) => FundWrite(r, collects[id].clan)
         /\ \A id \in 1..MaxPays : RemovePay(r, id) => FundWrite(r, pays[id].clan)
<1>0. collects \in Seq(Row) /\ pays \in Seq(Row) /\ req \in [Client -> Request]
  BY DEF FundInv, TypeOK
<1>1. Idle.pc = "idle"
  BY DEF Idle, Begun
<1>2. ASSUME InsertCollect(r) PROVE FundWrite(r, req[r].clan)
  <2>1. req[r].clan \in Clan /\ req[r].money \in Int /\ req[r] \in Request
    BY <1>2, SavingRequest DEF InsertCollect
  <2>2. \A c : Total(collects', c) = Total(collects, c) + (IF c = req[r].clan THEN req[r].money ELSE 0)
    BY <1>0, <1>2, <2>1, InsertedTable DEF InsertCollect
  <2>3. \A c : Total(collects, c) \in Int
    BY <1>0, RowIsEntry, TotalType
  <2> QED
    BY <1>0, <1>1, <1>2, <2>2, <2>3 DEF InsertCollect, WriteAndFinish, FundWrite
<1>3. ASSUME InsertPay(r) PROVE FundWrite(r, req[r].clan)
  <2>1. req[r].clan \in Clan /\ req[r].money \in Int /\ req[r] \in Request
    BY <1>3, SavingRequest DEF InsertPay
  <2>2. \A c : Total(pays', c) = Total(pays, c) + (IF c = req[r].clan THEN req[r].money ELSE 0)
    BY <1>0, <1>3, <2>1, InsertedTable DEF InsertPay
  <2>3. \A c : Total(pays, c) \in Int
    BY <1>0, RowIsEntry, TotalType
  <2> QED
    BY <1>0, <1>1, <1>3, <2>2, <2>3 DEF InsertPay, WriteAndFinish, FundWrite
<1>4. ASSUME UpdateCollect(r) PROVE FundWrite(r, req[r].clan)
  <2>1. /\ req[r].id \in DOMAIN collects /\ collects[req[r].id].clan = req[r].clan
        /\ req[r] \in Request
    BY <1>4, SavingRequest DEF UpdateCollect
  <2>2. \A c : c # req[r].clan => Total(collects', c) = Total(collects, c)
    BY <1>0, <1>4, <2>1, SavedTable DEF UpdateCollect
  <2> QED
    BY <1>0, <1>1, <1>4, <2>2 DEF UpdateCollect, WriteAndFinish, FundWrite
<1>5. ASSUME UpdatePay(r) PROVE FundWrite(r, req[r].clan)
  <2>1. /\ req[r].id \in DOMAIN pays /\ pays[req[r].id].clan = req[r].clan
        /\ req[r] \in Request
    BY <1>5, SavingRequest DEF UpdatePay
  <2>2. \A c : c # req[r].clan => Total(pays', c) = Total(pays, c)
    BY <1>0, <1>5, <2>1, SavedTable DEF UpdatePay
  <2> QED
    BY <1>0, <1>1, <1>5, <2>2 DEF UpdatePay, WriteAndFinish, FundWrite
<1>6. ASSUME NEW id \in 1..MaxCollects, RemoveCollect(r, id)
      PROVE  FundWrite(r, collects[id].clan)
  <2>1. id \in DOMAIN collects /\ collects' = Removed(collects, id)
    BY <1>6 DEF RemoveCollect
  <2>2. \A c : Total(collects', c) = Total(collects, c) - Share(collects[id], c)
    BY <1>0, <2>1, RemovedTotal
  <2>3. \A c : Total(collects, c) \in Int
    BY <1>0, RowIsEntry, TotalType
  <2>4. \A c : c # collects[id].clan => Total(collects', c) = Total(collects, c)
    BY <2>2, <2>3 DEF Share
  <2> QED
    BY <1>6, <2>4 DEF RemoveCollect, FundWrite
<1>7. ASSUME NEW id \in 1..MaxPays, RemovePay(r, id)
      PROVE  FundWrite(r, pays[id].clan)
  <2>1. id \in DOMAIN pays /\ pays' = Removed(pays, id)
    BY <1>7 DEF RemovePay
  <2>2. \A c : Total(pays', c) = Total(pays, c) - Share(pays[id], c)
    BY <1>0, <2>1, RemovedTotal
  <2>3. \A c : Total(pays, c) \in Int
    BY <1>0, RowIsEntry, TotalType
  <2>4. \A c : c # pays[id].clan => Total(pays', c) = Total(pays, c)
    BY <2>2, <2>3 DEF Share
  <2> QED
    BY <1>7, <2>4 DEF RemovePay, FundWrite
<1> QED
  BY <1>2, <1>3, <1>4, <1>5, <1>6, <1>7

\* What UninterferedSums says of one request.
SumsOK(q) ==
  /\ q.pc = "getTotalPay" => q.collected = Collected(SummedClan(q))
  /\ q.pc = "save" /\ q.op = "createPay" => ~NotEnough(q, Collected(q.clan), Paid(q.clan))

LEMMA SumsAfterWrite ==
  ASSUME FundInv, UninterferedSums, NEW r \in Client, NEW d, FundWrite(r, d)
  PROVE  UninterferedSums'
<1> SUFFICES ASSUME NEW q \in Client, q \notin stale' PROVE SumsOK(req[q])'
  BY DEF UninterferedSums, SumsOK
<1>1. CASE q = r
  BY <1>1 DEF FundWrite, SumsOK
<1>2. CASE q # r
  <2>1. q \notin stale /\ q \notin Summing(d) /\ req'[q] = req[q]
    BY <1>2 DEF FundWrite
  <2>2. SumsOK(req[q])
    BY <2>1 DEF UninterferedSums, SumsOK
  <2>3. CASE req[q].pc \notin {"getTotalPay", "save"}
    BY <2>1, <2>3 DEF SumsOK
  <2>4. CASE SummedClan(req[q]) # d
    <3>1. /\ Total(collects', SummedClan(req[q])) = Total(collects, SummedClan(req[q]))
          /\ Total(pays', SummedClan(req[q])) = Total(pays, SummedClan(req[q]))
      BY <2>4 DEF FundWrite
    <3>2. req[q].op = "createPay" => SummedClan(req[q]) = req[q].clan
      BY DEF SummedClan
    <3> QED
      BY <2>1, <2>2, <3>1, <3>2 DEF SumsOK, Collected, Paid, SummedClan, NotEnough, PaidAfter
  <2> QED
    BY <2>1, <2>3, <2>4 DEF Summing
<1> QED
  BY <1>1, <1>2

\* A step that writes no table, and leaves r with sums in order.
LEMMA SumsAfterLocalStep ==
  ASSUME FundInv, UninterferedSums, NEW r \in Client, UNCHANGED <<collects, pays>>,
         \A q \in Client \ {r} : req'[q] = req[q] /\ (q \in stale => q \in stale'),
         r \notin stale' => SumsOK(req[r])'
  PROVE  UninterferedSums'
BY DEF UninterferedSums, SumsOK, Collected, Paid, SummedClan, NotEnough, PaidAfter

LEMMA UninterferedSumsInit == Init => UninterferedSums
BY DEF Init, UninterferedSums, Idle, Begun

\* The step of a request that is answered, and one that only moves on.
LEMMA SumsAfterFinish ==
  ASSUME FundInv, UninterferedSums, NEW r \in Client, Finish(r), UNCHANGED <<collects, pays>>
  PROVE  UninterferedSums'
<1>1. req'[r] = Idle
  BY DEF Finish, FundInv, TypeOK
<1>2. SumsOK(req[r])'
  BY <1>1 DEF SumsOK, Idle, Begun
<1> QED
  BY <1>2, SumsAfterLocalStep DEF Finish, FundInv, TypeOK

LEMMA SumsAfterMove ==
  ASSUME FundInv, UninterferedSums, NEW r \in Client, NEW q,
         req' = [req EXCEPT ![r] = q], UNCHANGED <<collects, pays, stale>>,
         q.pc # "getTotalPay", q.pc # "save" \/ q.op # "createPay"
  PROVE  UninterferedSums'
<1>1. req'[r] = q
  BY DEF FundInv, TypeOK
<1>2. SumsOK(req[r])'
  BY <1>1 DEF SumsOK
<1> QED
  BY <1>2, SumsAfterLocalStep DEF FundInv, TypeOK

LEMMA SumsAfterContinue ==
  ASSUME FundInv, UninterferedSums, NEW r \in Client, NEW pc, Continue(r, pc),
         UNCHANGED <<collects, pays>>, pc # "getTotalPay",
         pc # "save" \/ req[r].op # "createPay"
  PROVE  UninterferedSums'
<1> DEFINE q == [req[r] EXCEPT !.pc = pc]
<1>1. req[r] \in Request
  BY DEF FundInv, TypeOK
<1>2. q.pc = pc /\ q.op = req[r].op
  BY <1>1 DEF Request
<1>3. req' = [req EXCEPT ![r] = q]
  BY DEF Continue
<1> HIDE DEF q
<1> QED
  BY <1>2, <1>3, SumsAfterMove DEF Continue

LEMMA SumsAfterSum ==
  ASSUME FundInv, UninterferedSums, NEW r \in Client, TotalCollectMoney(r) \/ GetTotalPay(r)
  PROVE  UninterferedSums'
<1>0. req[r] \in Request /\ RequestOK(req[r]) /\ req \in [Client -> Request]
  BY DEF FundInv, TypeOK, RequestsKnowTheirEntries
<1>1. CASE TotalCollectMoney(r)
  <2> DEFINE s == Total(collects, SummedClan(req[r]))
             q == [req[r] EXCEPT !.pc = "getTotalPay", !.collected = s]
  <2>1. q.pc = "getTotalPay" /\ q.collected = s /\ SummedClan(q) = SummedClan(req[r])
    BY <1>0 DEF Request, SummedClan
  <2>2. req' = [req EXCEPT ![r] = q]
    BY <1>1 DEF TotalCollectMoney
  <2>3. req'[r] = q
    BY <1>0, <2>2
  <2> HIDE DEF q
  <2>4. SumsOK(req[r])'
    BY <1>1, <2>1, <2>3 DEF SumsOK, Collected, TotalCollectMoney
  <2> QED
    BY <1>0, <1>1, <2>2, <2>4, SumsAfterLocalStep DEF TotalCollectMoney
<1>2. CASE GetTotalPay(r)
  <2>1. CASE Finish(r)
    BY <1>2, <2>1, SumsAfterFinish DEF GetTotalPay
  <2>2. CASE ~Finish(r)
    <3> DEFINE paid == Total(pays, SummedClan(req[r]))
               q == Checked(req[r])
    <3>1. /\ req[r].pc = "getTotalPay"
          /\ ~NotEnough(req[r], req[r].collected, paid)
          /\ req' = [req EXCEPT ![r] = q]
          /\ UNCHANGED <<collects, pays, stale>>
      BY <1>2, <2>2 DEF GetTotalPay
    <3>2. q.pc = "save" /\ q.op = req[r].op /\ q.clan = req[r].clan /\ q.money = req[r].money
      BY DEF Checked, Begun
    <3>3. req'[r] = q
      BY <1>0, <3>1
    <3> HIDE DEF q
    <3>4. ASSUME r \notin stale' PROVE SumsOK(req[r])'
      <4>1. req[r].collected = Collected(SummedClan(req[r]))
        BY <3>1, <3>4 DEF UninterferedSums
      <4>2. ASSUME req[r].op = "createPay"
            PROVE  ~NotEnough(q, Collected(q.clan), Paid(q.clan))
        BY <3>1, <3>2, <4>1, <4>2 DEF SummedClan, NotEnough, PaidAfter, Paid
      <4> QED
        BY <3>1, <3>2, <3>3, <4>2 DEF SumsOK, Collected, Paid
    <3> QED
      BY <1>0, <3>1, <3>4, SumsAfterLocalStep
  <2> QED
    BY <2>1, <2>2
<1> QED
  BY <1>1, <1>2

LEMMA SumsAfterLookup ==
  ASSUME FundInv, UninterferedSums, NEW r \in Client,
         FindEntry(r) \/ ValidateRoleMember(r) \/ FindClan(r) \/ FindUser(r)
  PROVE  UninterferedSums'
<1>0. req[r] \in Request /\ RequestOK(req[r])
  BY DEF FundInv, TypeOK, RequestsKnowTheirEntries
<1>1. CASE FindEntry(r)
  <2>1. CASE Finish(r)
    BY <1>1, <2>1, SumsAfterFinish DEF FindEntry
  <2>2. CASE ~Finish(r)
    <3> DEFINE table == IF req[r].op = "updatePay" THEN pays ELSE collects
               q == WithEntry(req[r], table[req[r].id])
    <3>1. req' = [req EXCEPT ![r] = q] /\ UNCHANGED <<collects, pays, stale>>
      BY <1>1, <2>2 DEF FindEntry
    <3>2. q.pc = "validateRoleMember"
      BY DEF WithEntry, Begun
    <3> HIDE DEF q
    <3> QED
      BY <3>1, <3>2, SumsAfterMove
  <2> QED
    BY <2>1, <2>2
<1>2. CASE ValidateRoleMember(r)
  BY <1>2, SumsAfterFinish, SumsAfterContinue DEF ValidateRoleMember
<1>3. CASE FindClan(r)
  <2>1. AfterFindClan(req[r]) # "getTotalPay"
    BY DEF AfterFindClan
  <2>2. req[r].op = "createPay" => AfterFindClan(req[r]) # "save"
    BY DEF AfterFindClan
  <2> QED
    BY <1>3, <2>1, <2>2, SumsAfterFinish, SumsAfterContinue DEF FindClan
<1>4. CASE FindUser(r)
  <2>1. req[r].op # "createPay"
    BY <1>0, <1>4 DEF FindUser, RequestOK
  <2> QED
    BY <1>4, <2>1, SumsAfterFinish, SumsAfterContinue DEF FindUser
<1> QED
  BY <1>1, <1>2, <1>3, <1>4

LEMMA SumsAfterBegin ==
  ASSUME FundInv, UninterferedSums, NEW r \in Client, NEW op, NEW pc, NEW c, NEW id, NEW m,
         Begin(r, op, pc, c, id, m), pc \in {"validateRoleMember", "findEntry", "findClan"}
  PROVE  UninterferedSums'
<1> DEFINE q == Begun(op, pc, c, id, m)
<1>1. q.pc = pc
  BY DEF Begun
<1>2. req' = [req EXCEPT ![r] = q] /\ UNCHANGED <<collects, pays, stale>>
  BY DEF Begin
<1> HIDE DEF q
<1> QED
  BY <1>1, <1>2, SumsAfterMove

LEMMA UninterferedSumsNext ==
  ASSUME FundInv, UninterferedSums, [Next]_vars
  PROVE  UninterferedSums'
<1>1. ASSUME NEW r \in Client, Step(r) PROVE UninterferedSums'
  <2>1. CASE \/ BeginCreateCollectMoney(r) \/ BeginUpdateCollectMoney(r)
             \/ BeginTotalMoney(r) \/ BeginCreatePay(r) \/ BeginUpdatePay(r)
    BY <2>1, SumsAfterBegin
       DEF BeginCreateCollectMoney, BeginUpdateCollectMoney, BeginTotalMoney,
           BeginCreatePay, BeginUpdatePay
  <2>2. CASE Abort(r)
    BY <2>2, SumsAfterFinish DEF Abort
  <2>3. CASE \/ InsertCollect(r) \/ InsertPay(r) \/ UpdateCollect(r) \/ UpdatePay(r)
             \/ \E id \in 1..MaxCollects : RemoveCollect(r, id)
             \/ \E id \in 1..MaxPays : RemovePay(r, id)
    <3>1. PICK d : FundWrite(r, d)
      BY <2>3, EveryWrite
    <3> QED
      BY <3>1, SumsAfterWrite
  <2> QED
    BY <1>1, <2>1, <2>2, <2>3, SumsAfterLookup, SumsAfterSum DEF Step
<1>2. ASSUME NEW c \in Clan, RemoveClan(c) PROVE UninterferedSums'
  BY <1>2 DEF RemoveClan, UninterferedSums, Collected, Paid
<1>3. ASSUME NEW r \in Client, NEW c \in Clan, ChangeManagers(r, c) PROVE UninterferedSums'
  BY <1>3 DEF ChangeManagers, UninterferedSums, Collected, Paid
<1>4. CASE UNCHANGED vars
  BY <1>4 DEF vars, UninterferedSums, Collected, Paid
<1> QED
  BY <1>1, <1>2, <1>3, <1>4 DEF Next

\* A request left alone since its first total holds the fund's totals: what
\* totalMoney is about to answer is current, and a payment createPay is about to
\* save is covered at that moment.
THEOREM SumsStayCurrent == Spec => []UninterferedSums
<1> DEFINE Inv == FundInv /\ UninterferedSums
<1>1. Init => Inv
  BY FundInvInit, UninterferedSumsInit
<1>2. Inv /\ [Next]_vars => Inv'
  BY FundInvNext, UninterferedSumsNext
<1> QED
  BY <1>1, <1>2, PTL DEF Spec

-----------------------------------------------------------------------------
(* Entries are forever *)

Forever(t, u) == \A i \in DOMAIN t : /\ i \in DOMAIN u
                                     /\ u[i].clan = t[i].clan
                                     /\ t[i].deleted => u[i].deleted

LEMMA TablesForever ==
  ASSUME FundInv, [Next]_vars
  PROVE  Forever(collects, collects') /\ Forever(pays, pays')
<1>0. collects \in Seq(Row) /\ pays \in Seq(Row)
  BY DEF FundInv, TypeOK
<1>1. Forever(collects, collects) /\ Forever(pays, pays)
  BY DEF Forever
<1>2. ASSUME NEW r \in Client, InsertCollect(r) PROVE Forever(collects, collects')
  <2>1. req[r].clan \in Clan /\ req[r].money \in Int /\ req[r] \in Request
    BY <1>2, SavingRequest DEF InsertCollect
  <2> QED
    BY <1>0, <1>2, <2>1, InsertedTable DEF InsertCollect, Forever
<1>3. ASSUME NEW r \in Client, InsertPay(r) PROVE Forever(pays, pays')
  <2>1. req[r].clan \in Clan /\ req[r].money \in Int /\ req[r] \in Request
    BY <1>3, SavingRequest DEF InsertPay
  <2> QED
    BY <1>0, <1>3, <2>1, InsertedTable DEF InsertPay, Forever
<1>4. ASSUME NEW r \in Client, UpdateCollect(r) PROVE Forever(collects, collects')
  <2>1. req[r].id \in DOMAIN collects /\ req[r] \in Request
    BY <1>4, SavingRequest DEF UpdateCollect
  <2> QED
    BY <1>0, <1>4, <2>1, SavedTable DEF UpdateCollect, Forever
<1>5. ASSUME NEW r \in Client, UpdatePay(r) PROVE Forever(pays, pays')
  <2>1. req[r].id \in DOMAIN pays /\ req[r] \in Request
    BY <1>5, SavingRequest DEF UpdatePay
  <2> QED
    BY <1>0, <1>5, <2>1, SavedTable DEF UpdatePay, Forever
<1>6. ASSUME NEW r \in Client, NEW id, RemoveCollect(r, id) PROVE Forever(collects, collects')
  BY <1>0, <1>6, RemovedTable DEF RemoveCollect, Forever
<1>7. ASSUME NEW r \in Client, NEW id, RemovePay(r, id) PROVE Forever(pays, pays')
  BY <1>0, <1>7, RemovedTable DEF RemovePay, Forever
<1>8. ASSUME NEW r \in Client, Step(r)
      PROVE  Forever(collects, collects') /\ Forever(pays, pays')
  <2>1. collects' = collects \/ InsertCollect(r) \/ UpdateCollect(r)
          \/ \E id : RemoveCollect(r, id)
    BY <1>8 DEF Step, BeginCreateCollectMoney, BeginUpdateCollectMoney, BeginTotalMoney,
        BeginCreatePay, BeginUpdatePay, Begin, FindEntry, ValidateRoleMember, FindClan,
        FindUser, TotalCollectMoney, GetTotalPay, InsertPay, UpdatePay, RemovePay, Abort
  <2>2. pays' = pays \/ InsertPay(r) \/ UpdatePay(r) \/ \E id : RemovePay(r, id)
    BY <1>8 DEF Step, BeginCreateCollectMoney, BeginUpdateCollectMoney, BeginTotalMoney,
        BeginCreatePay, BeginUpdatePay, Begin, FindEntry, ValidateRoleMember, FindClan,
        FindUser, TotalCollectMoney, GetTotalPay, InsertCollect, UpdateCollect,
        RemoveCollect, Abort
  <2> QED
    BY <1>1, <1>2, <1>3, <1>4, <1>5, <1>6, <1>7, <2>1, <2>2
<1> QED
  BY <1>1, <1>8 DEF Next, RemoveClan, ChangeManagers, vars

\* No step loses an entry, moves it to another clan or revives it once deleted.
THEOREM EntriesStay == Spec => EntriesAreForever
<1>1. FundInv /\ [Next]_vars =>
        [/\ \A i \in DOMAIN collects : /\ i \in DOMAIN collects'
                                       /\ collects'[i].clan = collects[i].clan
                                       /\ collects[i].deleted => collects'[i].deleted
         /\ \A i \in DOMAIN pays : /\ i \in DOMAIN pays'
                                   /\ pays'[i].clan = pays[i].clan
                                   /\ pays[i].deleted => pays'[i].deleted]_vars
  BY TablesForever DEF Forever
<1> QED
  BY <1>1, FundInvInit, FundInvNext, PTL DEF Spec, EntriesAreForever

-----------------------------------------------------------------------------
(* What a payment and a removal do to the balance *)

LEMMA BalanceType ==
  ASSUME FundInv, NEW c
  PROVE  Collected(c) \in Int /\ Paid(c) \in Int /\ Balance(c) \in Int
BY RowIsEntry, TotalType DEF FundInv, TypeOK, Collected, Paid, Balance

\* A new payment lowers its clan's balance by its money and no other's.
LEMMA BalanceAfterPay ==
  ASSUME FundInv, NEW r \in Client, InsertPay(r), NEW c
  PROVE  /\ Balance(c)' = Balance(c) - (IF c = req[r].clan THEN req[r].money ELSE 0)
         /\ req[r].money \in Nat
<1>1. req[r].clan \in Clan /\ req[r].money \in Nat /\ req[r] \in Request
  BY SavingRequest DEF InsertPay
<1>2. Total(pays', c) = Total(pays, c) + (IF c = req[r].clan THEN req[r].money ELSE 0)
  BY <1>1, InsertedTable DEF InsertPay, FundInv, TypeOK
<1>3. Total(collects, c) \in Int /\ Total(pays, c) \in Int
  BY BalanceType DEF Collected, Paid
<1> QED
  BY <1>1, <1>2, <1>3 DEF InsertPay, Balance, Collected, Paid

\* A payment saved by a createPay nobody interfered with leaves the fund in credit.
LEMMA CoveredPay ==
  ASSUME FundInv, UninterferedSums, NEW r \in Client, InsertPay(r), r \notin stale,
         NEW c, req[r].clan = c
  PROVE  Balance(c)' >= 0
<1>1. ~NotEnough(req[r], Collected(req[r].clan), Paid(req[r].clan))
  BY DEF UninterferedSums, InsertPay
<1>2. Balance(c) - req[r].money >= 0
  BY <1>1, BalanceType, BalanceAfterPay DEF NotEnough, PaidAfter, InsertPay, Balance
<1> QED
  BY <1>2, BalanceAfterPay

\* A new contribution and the removal of a payment do not lower any balance.
LEMMA BalanceRises ==
  ASSUME FundInv, NEW r \in Client, NEW c,
         InsertCollect(r) \/ \E id \in 1..MaxPays : RemovePay(r, id)
  PROVE  Balance(c)' \in Int /\ Balance(c)' >= Balance(c)
<1>0. /\ collects \in Seq(Row) /\ pays \in Seq(Row)
      /\ \A i \in DOMAIN pays : pays[i].money >= 0
      /\ Total(collects, c) \in Int /\ Total(pays, c) \in Int
  BY BalanceType DEF FundInv, TypeOK, RequestsKnowTheirEntries, Collected, Paid
<1>1. CASE InsertCollect(r)
  <2>1. req[r].clan \in Clan /\ req[r].money \in Nat /\ req[r] \in Request
    BY <1>1, SavingRequest DEF InsertCollect
  <2>2. Total(collects', c)
          = Total(collects, c) + (IF c = req[r].clan THEN req[r].money ELSE 0)
    BY <1>0, <1>1, <2>1, InsertedTable DEF InsertCollect
  <2> QED
    BY <1>0, <1>1, <2>1, <2>2 DEF InsertCollect, Balance, Collected, Paid
<1>2. CASE \E id \in 1..MaxPays : RemovePay(r, id)
  <2>1. PICK id \in 1..MaxPays : RemovePay(r, id)
    BY <1>2
  <2>2. id \in DOMAIN pays /\ pays' = Removed(pays, id) /\ collects' = collects
    BY <2>1 DEF RemovePay
  <2>3. Total(pays', c) = Total(pays, c) - Share(pays[id], c)
    BY <1>0, <2>2, RemovedTotal
  <2>4. Share(pays[id], c) \in Int /\ Share(pays[id], c) >= 0
    <3>1. pays[id] \in Row /\ pays[id].money >= 0
      BY <1>0, <2>2
    <3> QED
      BY <3>1 DEF Row, Share
  <2> QED
    BY <1>0, <2>2, <2>3, <2>4 DEF Balance, Collected, Paid
<1> QED
  BY <1>1, <1>2

\* The answers and the refusals of a request that is left alone are exact, for
\* any number of clients, clans, rows and amounts.
THEOREM ChecksAreExact == Spec => ExactWhenAlone
<1> DEFINE Inv == FundInv /\ UninterferedSums
           Exact(r) ==
             /\ GetTotalPay(r) /\ req[r].op = "totalMoney" => Answer(r) = Balance(req[r].clan)
             /\ GetTotalPay(r) /\ req[r].op = "createPay" =>
                  (req'[r].pc = "save") = (Balance(req[r].clan) >= req[r].money)
             /\ \A c \in Clan : InsertPay(r) /\ req[r].clan = c => Balance(c)' >= 0
<1>1. Init => Inv
  BY FundInvInit, UninterferedSumsInit
<1>2. Inv /\ [Next]_vars => Inv'
  BY FundInvNext, UninterferedSumsNext
<1>3. ASSUME Inv, NEW r \in Client, r \notin stale PROVE Exact(r)
  <2>1. ASSUME GetTotalPay(r)
        PROVE  req[r].collected = Collected(SummedClan(req[r])) /\ req[r].pc = "getTotalPay"
    BY <1>3, <2>1 DEF GetTotalPay, UninterferedSums
  <2>2. ASSUME GetTotalPay(r), req[r].op = "totalMoney"
        PROVE  Answer(r) = Balance(req[r].clan)
    BY <2>1, <2>2 DEF Answer, Balance, Collected, Paid, SummedClan
  <2>3. ASSUME GetTotalPay(r), req[r].op = "createPay"
        PROVE  (req'[r].pc = "save") = (Balance(req[r].clan) >= req[r].money)
    <3>1. SummedClan(req[r]) = req[r].clan /\ req \in [Client -> Request]
      BY <1>3, <2>3 DEF SummedClan, FundInv, TypeOK
    <3>2. req[r].money \in Nat
      BY <1>3, <2>3 DEF FundInv, RequestsKnowTheirEntries, RequestOK
    <3>3. NotEnough(req[r], req[r].collected, Total(pays, SummedClan(req[r])))
            <=> ~(Balance(req[r].clan) >= req[r].money)
      <4>1. Collected(req[r].clan) \in Int /\ Paid(req[r].clan) \in Int
        BY <1>3, BalanceType
      <4>2. NotEnough(req[r], Collected(req[r].clan), Paid(req[r].clan))
              <=> Collected(req[r].clan) - (Paid(req[r].clan) + req[r].money) < 0
        BY <2>3 DEF NotEnough, PaidAfter
      <4>3. NotEnough(req[r], req[r].collected, Total(pays, SummedClan(req[r])))
              <=> NotEnough(req[r], Collected(req[r].clan), Paid(req[r].clan))
        BY <2>1, <2>3, <3>1 DEF Paid
      <4> QED
        BY <3>2, <4>1, <4>2, <4>3 DEF Balance
    <3>4. CASE NotEnough(req[r], req[r].collected, Total(pays, SummedClan(req[r])))
      <4>1. req'[r] = Idle
        BY <2>3, <3>1, <3>4 DEF GetTotalPay, Finish
      <4>2. Idle.pc = "idle"
        BY DEF Idle, Begun
      <4> QED
        BY <3>3, <3>4, <4>1, <4>2
    <3>5. CASE ~NotEnough(req[r], req[r].collected, Total(pays, SummedClan(req[r])))
      <4>1. req'[r] = Checked(req[r])
        BY <2>3, <3>1, <3>5 DEF GetTotalPay
      <4>2. Checked(req[r]).pc = "save"
        BY DEF Checked, Begun
      <4> QED
        BY <3>3, <3>5, <4>1, <4>2
    <3> QED
      BY <3>4, <3>5
  <2>4. ASSUME NEW c \in Clan, InsertPay(r), req[r].clan = c PROVE Balance(c)' >= 0
    BY <1>3, <2>4, CoveredPay
  <2> QED
    BY <2>2, <2>3, <2>4
<1>4. Inv => [\A r \in Client : r \notin stale => Exact(r)]_vars
  BY <1>3
<1> QED
  BY <1>1, <1>2, <1>4, PTL DEF Spec, ExactWhenAlone

\* What one step of a request may write.
LEMMA StepWrites ==
  ASSUME NEW r \in Client, Step(r)
  PROVE  \/ UNCHANGED <<collects, pays>>
         \/ InsertCollect(r) \/ InsertPay(r) \/ UpdateCollect(r) \/ UpdatePay(r)
         \/ \E id \in 1..MaxCollects : RemoveCollect(r, id)
         \/ \E id \in 1..MaxPays : RemovePay(r, id)
BY DEF Step, BeginCreateCollectMoney, BeginUpdateCollectMoney, BeginTotalMoney,
    BeginCreatePay, BeginUpdatePay, Begin, FindEntry, ValidateRoleMember, FindClan,
    FindUser, TotalCollectMoney, GetTotalPay, Abort

OverdraftCause(c) ==
  \/ \E r \in stale : InsertPay(r) /\ req[r].clan = c
  \/ \E r \in Client : UpdatePay(r) /\ req[r].clan = c
  \/ \E r \in Client : UpdateCollect(r) /\ req[r].clan = c
  \/ \E r \in Client, id \in 1..MaxCollects : RemoveCollect(r, id) /\ collects[id].clan = c

\* A write to another fund leaves the balance alone.
LEMMA BalanceElsewhere ==
  ASSUME FundInv, NEW r \in Client, NEW d, FundWrite(r, d), NEW c, c # d
  PROVE  Balance(c)' = Balance(c)
BY DEF FundWrite, Balance, Collected, Paid

LEMMA OverdraftByStep ==
  ASSUME FundInv, UninterferedSums, NEW c \in Clan, NEW r \in Client, Step(r),
         Balance(c) >= 0, Balance(c)' < 0
  PROVE  OverdraftCause(c)
<1>0. Balance(c) \in Int /\ (Balance(c)' = Balance(c) => FALSE)
  BY BalanceType
<1>1. CASE UNCHANGED <<collects, pays>>
  BY <1>0, <1>1 DEF Balance, Collected, Paid
<1>2. CASE InsertCollect(r) \/ \E id \in 1..MaxPays : RemovePay(r, id)
  <2>1. Balance(c)' \in Int /\ Balance(c)' >= Balance(c)
    BY <1>2, BalanceRises
  <2> QED
    BY <1>0, <2>1
<1>3. CASE InsertPay(r)
  <2>1. req[r].clan = c
    BY <1>0, <1>3, BalanceAfterPay
  <2>2. r \in stale
    <3>1. SUFFICES ASSUME r \notin stale PROVE FALSE
      OBVIOUS
    <3>2. Balance(c)' >= 0
      BY <1>3, <2>1, <3>1, CoveredPay
    <3>3. Balance(c)' \in Int
      BY <1>3, BalanceAfterPay, <1>0
    <3> QED
      BY <3>2, <3>3
  <2> QED
    BY <1>3, <2>1, <2>2 DEF OverdraftCause
<1>4. CASE UpdateCollect(r) \/ UpdatePay(r)
  <2>1. req[r].clan = c
    BY <1>0, <1>4, EveryWrite, BalanceElsewhere
  <2> QED
    BY <1>4, <2>1 DEF OverdraftCause
<1>5. CASE \E id \in 1..MaxCollects : RemoveCollect(r, id)
  <2>1. PICK id \in 1..MaxCollects : RemoveCollect(r, id)
    BY <1>5
  <2>2. collects[id].clan = c
    BY <1>0, <2>1, EveryWrite, BalanceElsewhere
  <2> QED
    BY <2>1, <2>2 DEF OverdraftCause
<1> QED
  BY <1>1, <1>2, <1>3, <1>4, <1>5, StepWrites

\* The list of the ways a fund gets into debt is complete, for any number of
\* clients, clans, rows and amounts.
THEOREM OverdraftsAreExplained == Spec => OverdraftCauses
<1> DEFINE Inv == FundInv /\ UninterferedSums
<1>1. Init => Inv
  BY FundInvInit, UninterferedSumsInit
<1>2. Inv /\ [Next]_vars => Inv'
  BY FundInvNext, UninterferedSumsNext
<1>3. ASSUME Inv, [Next]_vars, NEW c \in Clan, Balance(c) >= 0, Balance(c)' < 0
      PROVE  OverdraftCause(c)
  <2>1. CASE UNCHANGED <<collects, pays>>
    <3>1. Balance(c)' = Balance(c) /\ Balance(c) \in Int
      BY <1>3, <2>1, BalanceType DEF Balance, Collected, Paid
    <3> QED
      BY <1>3, <3>1
  <2>2. ASSUME NEW r \in Client, Step(r) PROVE OverdraftCause(c)
    BY <1>3, <2>2, OverdraftByStep
  <2> QED
    BY <1>3, <2>1, <2>2 DEF Next, RemoveClan, ChangeManagers, vars
<1>4. Inv /\ [Next]_vars =>
        [\A c \in Clan : Balance(c) >= 0 /\ Balance(c)' < 0 =>
           \/ \E r \in stale : InsertPay(r) /\ req[r].clan = c
           \/ \E r \in Client : UpdatePay(r) /\ req[r].clan = c
           \/ \E r \in Client : UpdateCollect(r) /\ req[r].clan = c
           \/ \E r \in Client, id \in 1..MaxCollects :
                RemoveCollect(r, id) /\ collects[id].clan = c]_vars
  BY <1>3 DEF OverdraftCause
<1> QED
  BY <1>1, <1>2, <1>4, PTL DEF Spec, OverdraftCauses

-----------------------------------------------------------------------------
(* What the checks suffice for: a fund that only they guard stays in credit *)

\* Saving a row with other money changes its clan's total by the difference.
LEMMA SavedTotal ==
  ASSUME NEW t \in Seq(Row), NEW q \in Request, q.id \in DOMAIN t, NEW c
  PROVE  /\ q.money # NoMoney /\ q.money >= t[q.id].money => Total(Saved(t, q), c) >= Total(t, c)
         /\ q.money # NoMoney /\ q.money <= t[q.id].money => Total(Saved(t, q), c) <= Total(t, c)
         /\ q.money = NoMoney => Total(Saved(t, q), c) = Total(t, c)
         /\ Total(t, c) \in Int /\ Total(Saved(t, q), c) \in Int
<1>0. Total(t, c) \in Int
  BY RowIsEntry, TotalType
<1>1. CASE q.money = NoMoney
  BY <1>0, <1>1 DEF Saved
<1>2. CASE q.money # NoMoney
  <2> DEFINE row == [t[q.id] EXCEPT !.money = q.money]
             u == [t EXCEPT ![q.id] = row]
  <2>1. t[q.id] \in Row /\ q.money \in Int
    BY <1>2 DEF Request
  <2>2. row \in Row /\ row.clan = t[q.id].clan /\ row.deleted = t[q.id].deleted
        /\ row.money = q.money
    BY <2>1 DEF Row
  <2>3. Saved(t, q) = u
    BY <1>2 DEF Saved
  <2> HIDE DEF row
  <2>4. Total(u, c) = Total(t, c) - Share(t[q.id], c) + Share(row, c)
    <3>1. t \in Seq(Entry(Clan)) /\ row \in Entry(Clan)
      BY <2>2, RowIsEntry
    <3> QED
      BY <3>1, TotalExcept
  <2> HIDE DEF u
  <2>5. /\ Share(t[q.id], c) \in Int /\ Share(row, c) \in Int
        /\ q.money >= t[q.id].money => Share(row, c) >= Share(t[q.id], c)
        /\ q.money <= t[q.id].money => Share(row, c) <= Share(t[q.id], c)
    BY <2>1, <2>2 DEF Row, Share
  <2> QED
    BY <1>0, <1>2, <2>3, <2>4, <2>5
<1> QED
  BY <1>1, <1>2

\* Writes that no check of the balance covers: a payment checked against sums another
\* request has since changed, a payment raised, a contribution lowered or taken back.
Unchecked ==
  \/ \E r \in stale : InsertPay(r)
  \/ \E r \in Client : /\ UpdatePay(r) /\ req[r].money # NoMoney
                       /\ req[r].money > pays[req[r].id].money
  \/ \E r \in Client : /\ UpdateCollect(r) /\ req[r].money # NoMoney
                       /\ req[r].money < collects[req[r].id].money
  \/ \E r \in Client, id \in 1..MaxCollects : RemoveCollect(r, id) /\ collects[id].money > 0

InCredit == \A c \in Clan : Balance(c) >= 0

LEMMA UpdateInCredit ==
  ASSUME FundInv, InCredit, ~Unchecked, NEW r \in Client, UpdateCollect(r) \/ UpdatePay(r),
         NEW c \in Clan
  PROVE  Balance(c)' >= 0
<1>0. /\ collects \in Seq(Row) /\ pays \in Seq(Row)
      /\ Balance(c) = Total(collects, c) - Total(pays, c) /\ Balance(c) >= 0
      /\ Balance(c)' = Total(collects', c) - Total(pays', c)
      /\ Total(collects, c) \in Int /\ Total(pays, c) \in Int
  BY BalanceType DEF FundInv, TypeOK, InCredit, Balance, Collected, Paid
<1>1. CASE UpdateCollect(r)
  <2>1. /\ req[r].id \in DOMAIN collects /\ req[r] \in Request
        /\ collects' = Saved(collects, req[r]) /\ pays' = pays
    BY <1>1, SavingRequest DEF UpdateCollect
  <2>2. req[r].money # NoMoney => req[r].money >= collects[req[r].id].money
    <3>1. req[r].money # NoMoney => req[r].money \in Int
      BY <2>1 DEF Request
    <3>2. collects[req[r].id] \in Row
      BY <1>0, <2>1
    <3>3. collects[req[r].id].money \in Int
      BY <3>2 DEF Row
    <3> QED
      BY <1>1, <3>1, <3>3 DEF Unchecked
  <2>3. Total(collects', c) >= Total(collects, c) /\ Total(collects', c) \in Int
    BY <1>0, <2>1, <2>2, SavedTotal
  <2> QED
    BY <1>0, <2>1, <2>3
<1>2. CASE UpdatePay(r)
  <2>1. /\ req[r].id \in DOMAIN pays /\ req[r] \in Request
        /\ pays' = Saved(pays, req[r]) /\ collects' = collects
    BY <1>2, SavingRequest DEF UpdatePay
  <2>2. req[r].money # NoMoney => req[r].money <= pays[req[r].id].money
    <3>1. req[r].money # NoMoney => req[r].money \in Int
      BY <2>1 DEF Request
    <3>2. pays[req[r].id] \in Row
      BY <1>0, <2>1
    <3>3. pays[req[r].id].money \in Int
      BY <3>2 DEF Row
    <3> QED
      BY <1>2, <3>1, <3>3 DEF Unchecked
  <2>3. Total(pays', c) <= Total(pays, c) /\ Total(pays', c) \in Int
    BY <1>0, <2>1, <2>2, SavedTotal
  <2> QED
    BY <1>0, <2>1, <2>3
<1> QED
  BY <1>1, <1>2

LEMMA RemoveInCredit ==
  ASSUME FundInv, InCredit, ~Unchecked, NEW r \in Client, NEW id \in 1..MaxCollects,
         RemoveCollect(r, id), NEW c \in Clan
  PROVE  Balance(c)' >= 0
<1>1. /\ collects \in Seq(Row) /\ id \in DOMAIN collects
      /\ collects' = Removed(collects, id) /\ pays' = pays
      /\ Balance(c) = Total(collects, c) - Total(pays, c) /\ Balance(c) >= 0
      /\ Balance(c)' = Total(collects', c) - Total(pays', c)
      /\ Total(collects, c) \in Int /\ Total(pays, c) \in Int
  BY BalanceType DEF FundInv, TypeOK, InCredit, Balance, Collected, Paid, RemoveCollect
<1>2. collects[id] \in Row /\ ~(collects[id].money > 0)
  BY <1>1 DEF Unchecked
<1>3. Share(collects[id], c) \in Int /\ Share(collects[id], c) <= 0
  BY <1>2 DEF Row, Share
<1>4. Total(collects', c) = Total(collects, c) - Share(collects[id], c)
  BY <1>1, RemovedTotal
<1> QED
  BY <1>1, <1>3, <1>4

LEMMA InCreditNext ==
  ASSUME FundInv, UninterferedSums, InCredit, [Next]_vars, [~Unchecked]_vars
  PROVE  InCredit'
<1> SUFFICES ASSUME NEW c \in Clan PROVE Balance(c)' >= 0
  BY DEF InCredit
<1>1. CASE UNCHANGED <<collects, pays>>
  BY <1>1 DEF InCredit, Balance, Collected, Paid
<1>2. ASSUME NEW r \in Client, Step(r), ~Unchecked PROVE Balance(c)' >= 0
  <2>1. CASE InsertCollect(r) \/ \E id \in 1..MaxPays : RemovePay(r, id)
    <3>1. Balance(c)' \in Int /\ Balance(c)' >= Balance(c)
      BY <2>1, BalanceRises
    <3> QED
      BY <3>1, BalanceType DEF InCredit
  <2>2. CASE InsertPay(r)
    <3>1. r \notin stale
      BY <1>2, <2>2 DEF Unchecked
    <3>2. CASE req[r].clan = c
      BY <2>2, <3>1, <3>2, CoveredPay
    <3>3. CASE req[r].clan # c
      <4>1. Balance(c)' = Balance(c)
        BY <2>2, <3>3, EveryWrite, BalanceElsewhere
      <4> QED
        BY <4>1 DEF InCredit
    <3> QED
      BY <3>2, <3>3
  <2> QED
    BY <1>1, <1>2, <2>1, <2>2, UpdateInCredit, RemoveInCredit, StepWrites
<1>3. CASE UNCHANGED vars
  BY <1>1, <1>3 DEF vars
<1> QED
  BY <1>1, <1>2, <1>3 DEF Next, RemoveClan, ChangeManagers

\* As long as no payment is saved on sums that another request has changed, none is
\* raised and no contribution is lowered or taken back, no fund is ever overdrawn,
\* however requests of different funds, or on the same one, overlap otherwise.
THEOREM FundsStayInCredit == Spec /\ [][~Unchecked]_vars => []InCredit
<1>1. Init => InCredit
  <2>1. ASSUME Init, NEW c \in Clan PROVE Balance(c) >= 0
    <3>1. collects = <<>> /\ pays = <<>>
      BY <2>1 DEF Init
    <3> QED
      BY <2>1, <3>1, BalanceType, FundInvInit DEF Balance, Collected, Paid
  <2> QED
    BY <2>1 DEF InCredit
<1>2. FundInv /\ UninterferedSums /\ InCredit /\ [Next]_vars /\ [~Unchecked]_vars => InCredit'
  BY InCreditNext
<1> QED
  BY <1>1, <1>2, FundInvInit, FundInvNext, UninterferedSumsInit, UninterferedSumsNext, PTL DEF Spec

-----------------------------------------------------------------------------
(* What a request that is not overtaken has looked up *)

LookupOK(q, r) ==
  /\ q.op # "totalMoney" /\ Past(q, "validateRoleMember") => <<r, q.clan>> \in manager
  /\ q.op # "updateCollectMoney" /\ Past(q, "findClan") => q.clan \in clans

LookupsCurrent == \A r \in Client \ overtaken : LookupOK(req[r], r)

LEMMA LookupsAfterStep ==
  ASSUME FundInv, LookupsCurrent, NEW r \in Client, UNCHANGED <<clans, manager>>,
         \A q \in Client \ {r} : req'[q] = req[q] /\ (q \in overtaken => q \in overtaken'),
         r \notin overtaken' => LookupOK(req'[r], r)
  PROVE  LookupsCurrent'
BY DEF LookupsCurrent, LookupOK, Past

LEMMA IdleLookup == ASSUME NEW r PROVE LookupOK(Idle, r)
BY DEF Idle, Begun, LookupOK, Past

\* The step of a request that leaves it idle, one that leaves it before its
\* lookups, and one that moves it on.
LEMMA LookupsAfterFinish ==
  ASSUME FundInv, LookupsCurrent, NEW r \in Client, UNCHANGED <<clans, manager>>,
         req' = [req EXCEPT ![r] = Idle], overtaken' = overtaken \ {r}
  PROVE  LookupsCurrent'
<1>1. req'[r] = Idle /\ \A q \in Client \ {r} : req'[q] = req[q]
  BY DEF FundInv, TypeOK
<1> QED
  BY <1>1, IdleLookup, LookupsAfterStep

LEMMA LookupsAfterMove ==
  ASSUME FundInv, LookupsCurrent, NEW r \in Client, NEW q, UNCHANGED <<clans, manager, overtaken>>,
         req' = [req EXCEPT ![r] = q], r \notin overtaken => LookupOK(q, r)
  PROVE  LookupsCurrent'
<1>1. req'[r] = q /\ \A p \in Client \ {r} : req'[p] = req[p]
  BY DEF FundInv, TypeOK
<1> QED
  BY <1>1, LookupsAfterStep

LEMMA LookupsAfterBegin ==
  ASSUME FundInv, LookupsCurrent, NEW r \in Client, NEW op, NEW pc, NEW c, NEW id, NEW m,
         Begin(r, op, pc, c, id, m),
         pc \in {"validateRoleMember", "findEntry"} \/ (pc = "findClan" /\ op = "totalMoney")
  PROVE  LookupsCurrent'
<1> DEFINE q == Begun(op, pc, c, id, m)
<1>1. q.pc = pc /\ q.op = op
  BY DEF Begun
<1>2. req' = [req EXCEPT ![r] = q] /\ UNCHANGED <<clans, manager, overtaken>>
  BY DEF Begin
<1> HIDE DEF q
<1>3. LookupOK(q, r)
  BY <1>1 DEF LookupOK, Past
<1> QED
  BY <1>2, <1>3, LookupsAfterMove

LEMMA LookupsAfterLookup ==
  ASSUME FundInv, LookupsCurrent, NEW r \in Client,
         \/ FindEntry(r) \/ ValidateRoleMember(r) \/ FindClan(r) \/ FindUser(r)
         \/ TotalCollectMoney(r) \/ GetTotalPay(r)
  PROVE  LookupsCurrent'
<1>0. /\ req[r] \in Request /\ RequestOK(req[r])
      /\ r \notin overtaken => LookupOK(req[r], r)
  BY DEF FundInv, TypeOK, RequestsKnowTheirEntries, LookupsCurrent
<1>1. CASE Finish(r) /\ UNCHANGED <<clans, manager>>
  BY <1>1, LookupsAfterFinish DEF Finish
<1>2. ASSUME NEW pc, Continue(r, pc), UNCHANGED <<clans, manager>>,
             r \notin overtaken => LookupOK([req[r] EXCEPT !.pc = pc], r)
      PROVE  LookupsCurrent'
  BY <1>2, LookupsAfterMove DEF Continue
<1>3. ASSUME NEW pc
      PROVE  LET q == [req[r] EXCEPT !.pc = pc]
             IN q.pc = pc /\ q.op = req[r].op /\ q.clan = req[r].clan
  BY <1>0 DEF Request
<1>4. CASE FindEntry(r) /\ ~Finish(r)
  <2> DEFINE table == IF req[r].op = "updatePay" THEN pays ELSE collects
             q == WithEntry(req[r], table[req[r].id])
  <2>1. req' = [req EXCEPT ![r] = q] /\ UNCHANGED <<clans, manager, overtaken>>
    BY <1>4 DEF FindEntry
  <2>2. q.pc = "validateRoleMember"
    BY DEF WithEntry, Begun
  <2> HIDE DEF q
  <2>3. LookupOK(q, r)
    BY <2>2 DEF LookupOK, Past
  <2> QED
    BY <2>1, <2>3, LookupsAfterMove
<1>5. CASE ValidateRoleMember(r) /\ ~Finish(r)
  <2> DEFINE pc == IF req[r].op = "updateCollectMoney" THEN "save" ELSE "findClan"
  <2>1. Continue(r, pc) /\ <<r, req[r].clan>> \in manager /\ UNCHANGED <<clans, manager>>
    BY <1>5 DEF ValidateRoleMember
  <2>2. LookupOK([req[r] EXCEPT !.pc = pc], r)
    BY <2>1, <1>3 DEF LookupOK, Past
  <2> QED
    BY <1>2, <2>1, <2>2
<1>6. CASE FindClan(r) /\ ~Finish(r)
  <2> DEFINE pc == AfterFindClan(req[r])
  <2>1. /\ Continue(r, pc) /\ req[r].clan \in clans /\ UNCHANGED <<clans, manager>>
        /\ req[r].pc = "findClan"
    BY <1>6 DEF FindClan
  <2>2. r \notin overtaken => LookupOK([req[r] EXCEPT !.pc = pc], r)
    BY <1>0, <1>3, <2>1 DEF LookupOK, Past
  <2> QED
    BY <1>2, <2>1, <2>2
<1>7. CASE FindUser(r) /\ ~Finish(r)
  <2>1. Continue(r, "save") /\ UNCHANGED <<clans, manager>> /\ req[r].pc = "findUser"
    BY <1>7 DEF FindUser
  <2>2. r \notin overtaken => LookupOK([req[r] EXCEPT !.pc = "save"], r)
    BY <1>0, <1>3, <2>1 DEF LookupOK, Past
  <2> QED
    BY <1>2, <2>1, <2>2
<1>8. CASE TotalCollectMoney(r)
  <2> DEFINE s == Total(collects, SummedClan(req[r]))
             q == [req[r] EXCEPT !.pc = "getTotalPay", !.collected = s]
  <2>1. q.pc = "getTotalPay" /\ q.op = req[r].op /\ q.clan = req[r].clan
    BY <1>0 DEF Request
  <2>2. /\ req' = [req EXCEPT ![r] = q] /\ UNCHANGED <<clans, manager, overtaken>>
        /\ req[r].pc = "totalCollectMoney"
    BY <1>8 DEF TotalCollectMoney
  <2> HIDE DEF q
  <2>3. r \notin overtaken => LookupOK(q, r)
    BY <1>0, <2>1, <2>2 DEF LookupOK, Past
  <2> QED
    BY <2>2, <2>3, LookupsAfterMove
<1>9. CASE GetTotalPay(r) /\ ~Finish(r)
  <2> DEFINE q == Checked(req[r])
  <2>1. q.pc = "save" /\ q.op = req[r].op /\ q.clan = req[r].clan
    BY DEF Checked, Begun
  <2>2. /\ req' = [req EXCEPT ![r] = q] /\ UNCHANGED <<clans, manager, overtaken>>
        /\ req[r].pc = "getTotalPay"
    BY <1>9 DEF GetTotalPay
  <2> HIDE DEF q
  <2>3. r \notin overtaken => LookupOK(q, r)
    BY <1>0, <2>1, <2>2 DEF LookupOK, Past
  <2> QED
    BY <2>2, <2>3, LookupsAfterMove
<1> QED
  BY <1>1, <1>4, <1>5, <1>6, <1>7, <1>8, <1>9
     DEF FindEntry, ValidateRoleMember, FindClan, FindUser, GetTotalPay

LEMMA LookupsCurrentNext ==
  ASSUME FundInv, LookupsCurrent, [Next]_vars
  PROVE  LookupsCurrent'
<1>1. ASSUME NEW r \in Client, Step(r) PROVE LookupsCurrent'
  <2>1. CASE \/ BeginCreateCollectMoney(r) \/ BeginUpdateCollectMoney(r)
             \/ BeginTotalMoney(r) \/ BeginCreatePay(r) \/ BeginUpdatePay(r)
    BY <2>1, LookupsAfterBegin
       DEF BeginCreateCollectMoney, BeginUpdateCollectMoney, BeginTotalMoney,
           BeginCreatePay, BeginUpdatePay
  <2>2. CASE \/ Abort(r) \/ InsertCollect(r) \/ InsertPay(r) \/ UpdateCollect(r) \/ UpdatePay(r)
    BY <2>2, LookupsAfterFinish
       DEF Abort, Finish, InsertCollect, InsertPay, UpdateCollect, UpdatePay, WriteAndFinish
  <2>3. CASE \/ \E id \in 1..MaxCollects : RemoveCollect(r, id)
             \/ \E id \in 1..MaxPays : RemovePay(r, id)
    BY <2>3 DEF RemoveCollect, RemovePay, LookupsCurrent, LookupOK, Past
  <2> QED
    BY <1>1, <2>1, <2>2, <2>3, LookupsAfterLookup DEF Step
<1>2. ASSUME NEW c \in Clan, RemoveClan(c) PROVE LookupsCurrent'
  BY <1>2 DEF RemoveClan, LookupsCurrent, LookupOK, Past
<1>3. ASSUME NEW r \in Client, NEW c \in Clan, ChangeManagers(r, c) PROVE LookupsCurrent'
  <2>1. \A q \in Client \ overtaken' :
          q \in Client \ overtaken /\ ~(q = r /\ req[q].clan = c /\ Past(req[q], "validateRoleMember"))
    BY <1>3 DEF ChangeManagers
  <2>2. \A q \in Client : \A d : <<q, d>> # <<r, c>> => (<<q, d>> \in manager' <=> <<q, d>> \in manager)
    BY <1>3 DEF ChangeManagers
  <2> QED
    BY <1>3, <2>1, <2>2 DEF ChangeManagers, LookupsCurrent, LookupOK, Past
<1>4. CASE UNCHANGED vars
  BY <1>4 DEF vars, LookupsCurrent, LookupOK, Past
<1> QED
  BY <1>1, <1>2, <1>3, <1>4 DEF Next

\* A request that is not overtaken saves in a fund its client manages and adds
\* entries to live clans only, for any number of clients, clans and rows.
THEOREM SavesAreAllowed == Spec => SavesWhereAllowed
<1> DEFINE Inv == FundInv /\ LookupsCurrent
<1>1. Init => Inv
  <2>1. Init => LookupsCurrent
    BY IdleLookup DEF Init, LookupsCurrent
  <2> QED
    BY <2>1, FundInvInit
<1>2. Inv /\ [Next]_vars => Inv'
  BY FundInvNext, LookupsCurrentNext
<1>3. Inv => [\A r \in Client : r \notin overtaken =>
                /\ InsertCollect(r) \/ InsertPay(r) \/ UpdateCollect(r) \/ UpdatePay(r)
                     => <<r, req[r].clan>> \in manager
                /\ InsertCollect(r) \/ InsertPay(r) \/ UpdatePay(r)
                     => req[r].clan \in clans]_vars
  BY DEF LookupsCurrent, LookupOK, Past, InsertCollect, InsertPay, UpdateCollect, UpdatePay
<1> QED
  BY <1>1, <1>2, <1>3, PTL DEF Spec, SavesWhereAllowed

=============================================================================
