------------------------------ MODULE ClanFund ------------------------------
(***************************************************************************)
(* The money fund of a clan: the collect-money and pay endpoints of         *)
(* ClanController with the services they call.  No handler runs in a        *)
(* transaction, so a request is a process that may be suspended at every    *)
(* await of a database call; each action below is one such call together    *)
(* with the synchronous code up to the next one.                            *)
(***************************************************************************)
EXTENDS LedgerSums, FiniteSets

CONSTANTS
  Client,      \* accounts calling the API, each with at most one request in flight
  Clan,        \* clan ids
  Amount,      \* the money of a new entry and of an updatePay (int, min 0)
  EditAmount,  \* the money of an updateCollectMoney (int, no lower bound)
  NoMoney,     \* "money" left out of an update (the DTO field is optional)
  MaxCollects, \* bound: rows ever inserted in collect_money
  MaxPays,     \* bound: rows ever inserted in pay
  RoleChanges, \* bound: the <<client, clan>> whose role may change meanwhile
  Removable    \* bound: the clans that may be removed meanwhile

ASSUME ClanAssumption   == Clan \subseteq Nat \ {0}
ASSUME AmountAssumption == Amount \subseteq Nat /\ EditAmount \subseteq Int
ASSUME NoMoneyAssumption == NoMoney \notin Int
ASSUME BoundsAssumption ==
  /\ MaxCollects \in Nat /\ MaxPays \in Nat
  /\ RoleChanges \subseteq Client \X Clan /\ Removable \subseteq Clan

VARIABLES
  collects,    \* table collect_money
  pays,        \* table pay
  clans,       \* clans whose row carries no deletedAt
  manager,     \* <<client, clan>>: the client's live member row is OWNER or ADMIN
  req,         \* the request each client has in flight
  stale,       \* auxiliary: requests whose clan's ledger was written by another
               \* request after they had begun to sum it
  overtaken    \* auxiliary: requests whose clan was removed, or whose client's
               \* role in it was changed, after they had looked it up

vars == <<collects, pays, clans, manager, req, stale, overtaken>>

Row == [clan : Clan, money : Int, deleted : BOOLEAN]

Op == {"none", "createCollectMoney", "updateCollectMoney", "totalMoney",
       "createPay", "updatePay"}

\* The await a request is suspended at.
PC == {"idle", "findEntry", "validateRoleMember", "findClan", "findUser",
       "totalCollectMoney", "getTotalPay", "save"}

Request ==
  [op : Op, pc : PC, clan : Clan \cup {0}, id : Nat,
   money : Int \cup {NoMoney}, before : Int, collected : Int]

\* A request with its inputs, before its first lookup.
Begun(op, pc, c, id, m) ==
  [op |-> op, pc |-> pc, clan |-> c, id |-> id, money |-> m,
   before |-> 0, collected |-> 0]

Idle == Begun("none", "idle", 0, 0, NoMoney)

TypeOK ==
  /\ collects \in Seq(Row)
  /\ pays \in Seq(Row)
  /\ clans \subseteq Clan
  /\ manager \subseteq Client \X Clan
  /\ req \in [Client -> Request]
  /\ stale \subseteq Client
  /\ overtaken \subseteq Client

Collected(c) == Total(collects, c)
Paid(c)      == Total(pays, c)
Balance(c)   == Collected(c) - Paid(c)

Init ==
  /\ collects = <<>>
  /\ pays = <<>>
  /\ clans = Clan
  /\ manager = Client \X Clan
  /\ req = [r \in Client |-> Idle]
  /\ stale = {}
  /\ overtaken = {}

-----------------------------------------------------------------------------
(* Requests *)

Begin(r, op, pc, c, id, m) ==
  /\ req[r].pc = "idle"
  /\ req' = [req EXCEPT ![r] = Begun(op, pc, c, id, m)]
  /\ UNCHANGED <<collects, pays, clans, manager, stale, overtaken>>

\* POST clan/collect-money
BeginCreateCollectMoney(r) == \E c \in Clan, m \in Amount :
  Begin(r, "createCollectMoney", "validateRoleMember", c, 0, m)

\* PATCH clan/collect-money/:collectMoneyId
BeginUpdateCollectMoney(r) == \E id \in 1..MaxCollects, m \in EditAmount \cup {NoMoney} :
  Begin(r, "updateCollectMoney", "findEntry", 0, id, m)

\* GET clan/collect-money/total-money/:clanId
BeginTotalMoney(r) == \E c \in Clan : Begin(r, "totalMoney", "findClan", c, 0, NoMoney)

\* POST clan/pay
BeginCreatePay(r) == \E c \in Clan, m \in Amount :
  Begin(r, "createPay", "validateRoleMember", c, 0, m)

\* PATCH clan/pay/:payId
BeginUpdatePay(r) == \E id \in 1..MaxPays, m \in Amount \cup {NoMoney} :
  Begin(r, "updatePay", "findEntry", 0, id, m)

\* The request is answered (with a value or an error) and its locals are gone.
Finish(r) ==
  /\ req' = [req EXCEPT ![r] = Idle]
  /\ stale' = stale \ {r}
  /\ overtaken' = overtaken \ {r}

Continue(r, pc) ==
  /\ req' = [req EXCEPT ![r].pc = pc]
  /\ UNCHANGED <<stale, overtaken>>

-----------------------------------------------------------------------------
(* Lookups *)

Exists(table, id) == id \in DOMAIN table /\ ~table[id].deleted

\* Faulty: the entry's id taken for its clan's, and the role check left out.
WithEntryIdAsClan(q, row) == Begun(q.op, "validateRoleMember", q.id, q.id, q.money)
WithEntryUnchecked(q, row) ==
  Begun(q.op, IF q.op = "updatePay" THEN "findClan" ELSE "save", row.clan, q.id, q.money)

\* The row's clan is kept for the checks; updatePay also keeps its money.
WithEntry(q, row) ==
  [Begun(q.op, "validateRoleMember", row.clan, q.id, q.money)
     EXCEPT !.before = IF q.op = "updatePay" THEN row.money ELSE 0]

\* collectMoneyService.findOne / payService.findOne: throws unless a live row
\* has the id.
FindEntry(r) ==
  LET table == IF req[r].op = "updatePay" THEN pays ELSE collects
      row   == table[req[r].id]
  IN /\ req[r].pc = "findEntry"
     /\ IF Exists(table, req[r].id)
        THEN /\ req' = [req EXCEPT ![r] = WithEntry(req[r], row)]
             /\ UNCHANGED <<stale, overtaken>>
        ELSE Finish(r)
     /\ UNCHANGED <<collects, pays, clans, manager>>

\* clanService.validateRoleMember: throws unless the client manages the clan.
ValidateRoleMember(r) ==
  /\ req[r].pc = "validateRoleMember"
  /\ IF <<r, req[r].clan>> \in manager
     THEN Continue(r, IF req[r].op = "updateCollectMoney" THEN "save" ELSE "findClan")
     ELSE Finish(r)
  /\ UNCHANGED <<collects, pays, clans, manager>>

\* `if (updatePayDto.money)`: neither undefined nor 0.
ChangesMoney(m) == m # NoMoney /\ m # 0

\* Faulty: payments are saved without the balance check.
AfterFindClanUnchecked(q) == IF q.op = "totalMoney" THEN "totalCollectMoney" ELSE "save"

AfterFindClan(q) ==
  CASE q.op = "createCollectMoney" -> "findUser"
    [] q.op = "updatePay" /\ ~ChangesMoney(q.money) -> "save"
    [] OTHER -> "totalCollectMoney"

\* clanService.findOne: throws unless the clan is live.
FindClan(r) ==
  /\ req[r].pc = "findClan"
  /\ IF req[r].clan \in clans THEN Continue(r, AfterFindClan(req[r])) ELSE Finish(r)
  /\ UNCHANGED <<collects, pays, clans, manager>>

\* usersService.findOne of the paying user, who may not exist.
FindUser(r) ==
  /\ req[r].pc = "findUser"
  /\ Continue(r, "save") \/ Finish(r)
  /\ UNCHANGED <<collects, pays, clans, manager>>

-----------------------------------------------------------------------------
(* The balance check *)

\* The value handed to totalCollectMoney and getTotalPay as the clan's id:
\* updatePay hands over the id of the pay row.
SummedClan(q) == IF q.op = "updatePay" THEN q.id ELSE q.clan

TotalCollectMoney(r) ==
  /\ req[r].pc = "totalCollectMoney"
  /\ req' = [req EXCEPT ![r].pc = "getTotalPay",
                        ![r].collected = Total(collects, SummedClan(req[r]))]
  /\ UNCHANGED <<collects, pays, clans, manager, stale, overtaken>>

\* Faulty: the totals are compared without the new payment.
PaidBefore(q, paid) == paid

\* totalPayMoneyAfterInsert: what will have been paid once q is saved.
PaidAfter(q, paid) ==
  IF q.op = "updatePay" THEN paid - q.before + q.money ELSE paid + q.money

NotEnough(q, collected, paid) == collected - PaidAfter(q, paid) < 0

\* The locals of the check are not used after it.
Checked(q) == Begun(q.op, "save", q.clan, q.id, q.money)

\* Answers totalMoney; createPay and updatePay compare and go on or throw
\* MONEY_NOT_ENOUGH.
GetTotalPay(r) ==
  LET paid == Total(pays, SummedClan(req[r]))
  IN /\ req[r].pc = "getTotalPay"
     /\ IF req[r].op = "totalMoney" \/ NotEnough(req[r], req[r].collected, paid)
        THEN Finish(r)
        ELSE /\ req' = [req EXCEPT ![r] = Checked(req[r])]
             /\ UNCHANGED <<stale, overtaken>>
     /\ UNCHANGED <<collects, pays, clans, manager>>

\* What totalMoney answers in its last step.
Answer(r) == req[r].collected - Total(pays, req[r].clan)

-----------------------------------------------------------------------------
(* Writes *)

Summing(c) == {q \in Client : /\ req[q].pc \in {"getTotalPay", "save"}
                              /\ SummedClan(req[q]) = c}

\* r writes the ledger of clan c and is answered.
WriteAndFinish(r, c) ==
  /\ req' = [req EXCEPT ![r] = Idle]
  /\ stale' = (stale \cup Summing(c)) \ {r}
  /\ overtaken' = overtaken \ {r}

NewRow(q) == [clan |-> q.clan, money |-> q.money, deleted |-> FALSE]

InsertCollect(r) ==
  /\ req[r].pc = "save" /\ req[r].op = "createCollectMoney"
  /\ Len(collects) < MaxCollects
  /\ collects' = Append(collects, NewRow(req[r]))
  /\ WriteAndFinish(r, req[r].clan)
  /\ UNCHANGED <<pays, clans, manager>>

InsertPay(r) ==
  /\ req[r].pc = "save" /\ req[r].op = "createPay"
  /\ Len(pays) < MaxPays
  /\ pays' = Append(pays, NewRow(req[r]))
  /\ WriteAndFinish(r, req[r].clan)
  /\ UNCHANGED <<collects, clans, manager>>

\* Faulty: the whole row is written, or also a column that is not given.
SavedWhole(table, q) ==
  IF q.money = NoMoney THEN table ELSE [table EXCEPT ![q.id] = NewRow(q)]
SavedUndefined(table, q) == [table EXCEPT ![q.id].money = q.money]

\* repository.save({ id, ...dto }) finds the row by id, deleted or not, and
\* writes the given columns only.
Saved(table, q) ==
  IF q.money = NoMoney THEN table ELSE [table EXCEPT ![q.id].money = q.money]

UpdateCollect(r) ==
  /\ req[r].pc = "save" /\ req[r].op = "updateCollectMoney"
  /\ collects' = Saved(collects, req[r])
  /\ WriteAndFinish(r, req[r].clan)
  /\ UNCHANGED <<pays, clans, manager>>

UpdatePay(r) ==
  /\ req[r].pc = "save" /\ req[r].op = "updatePay"
  /\ pays' = Saved(pays, req[r])
  /\ WriteAndFinish(r, req[r].clan)
  /\ UNCHANGED <<collects, clans, manager>>

\* DELETE clan/collect-money/:collectId and clan/pay/:payId: softDelete, with no
\* lookup before it; a row already deleted is stamped again.
Removed(table, id) == [table EXCEPT ![id].deleted = TRUE]

RemoveCollect(r, id) ==
  /\ req[r].pc = "idle" /\ id \in DOMAIN collects
  /\ collects' = Removed(collects, id)
  /\ stale' = stale \cup Summing(collects[id].clan)
  /\ UNCHANGED <<pays, clans, manager, req, overtaken>>

RemovePay(r, id) ==
  /\ req[r].pc = "idle" /\ id \in DOMAIN pays
  /\ pays' = Removed(pays, id)
  /\ stale' = stale \cup Summing(pays[id].clan)
  /\ UNCHANGED <<collects, clans, manager, req, overtaken>>

-----------------------------------------------------------------------------
(* The rest of the service, and failures *)

\* Past the await at pc.
Past(q, pc) == q.pc \in
  CASE pc = "validateRoleMember" -> {"findClan", "findUser", "totalCollectMoney",
                                     "getTotalPay", "save"}
    [] pc = "findClan" -> {"findUser", "totalCollectMoney", "getTotalPay", "save"}

\* DELETE clan/:id
RemoveClan(c) ==
  /\ c \in clans
  /\ clans' = clans \ {c}
  /\ overtaken' = overtaken \cup
       {q \in Client : req[q].clan = c /\ Past(req[q], "findClan")}
  /\ UNCHANGED <<collects, pays, manager, req, stale>>

\* The membership endpoints give and take ADMIN and OWNER rows meanwhile.
ChangeManagers(r, c) ==
  /\ manager' = IF <<r, c>> \in manager THEN manager \ {<<r, c>>}
                                        ELSE manager \cup {<<r, c>>}
  /\ overtaken' = overtaken \cup
       {q \in {r} : req[q].clan = c /\ Past(req[q], "validateRoleMember")}
  /\ UNCHANGED <<collects, pays, clans, req, stale>>

\* A database call fails or the process stops: what was saved stays saved.
Abort(r) ==
  /\ req[r].pc # "idle"
  /\ Finish(r)
  /\ UNCHANGED <<collects, pays, clans, manager>>

Step(r) ==
  \/ BeginCreateCollectMoney(r) \/ BeginUpdateCollectMoney(r) \/ BeginTotalMoney(r)
  \/ BeginCreatePay(r) \/ BeginUpdatePay(r)
  \/ FindEntry(r) \/ ValidateRoleMember(r) \/ FindClan(r) \/ FindUser(r)
  \/ TotalCollectMoney(r) \/ GetTotalPay(r)
  \/ InsertCollect(r) \/ InsertPay(r) \/ UpdateCollect(r) \/ UpdatePay(r)
  \/ \E id \in 1..MaxCollects : RemoveCollect(r, id)
  \/ \E id \in 1..MaxPays : RemovePay(r, id)
  \/ Abort(r)

Next ==
  \/ \E r \in Client : Step(r)
  \/ \E c \in Removable : RemoveClan(c)
  \/ \E r \in Client, c \in Clan : <<r, c>> \in RoleChanges /\ ChangeManagers(r, c)

Spec == Init /\ [][Next]_vars
-----------------------------------------------------------------------------
(* Properties *)

\* A request that has begun to sum a fund and has not been interfered with
\* still holds the fund's total, whatever other requests did meanwhile
\* elsewhere, and a createPay that passed the check is about to save a payment
\* the fund covers at that moment.
UninterferedSums ==
  \A r \in Client : r \notin stale =>
    /\ req[r].pc = "getTotalPay" => req[r].collected = Collected(SummedClan(req[r]))
    /\ req[r].pc = "save" /\ req[r].op = "createPay"
         => ~NotEnough(req[r], Collected(req[r].clan), Paid(req[r].clan))

\* What a request knows of its entry stays true while it is under way: the row
\* an update found keeps its place and its clan, so the clan whose role it
\* validates is the clan of the row it saves; amounts are what the DTOs admit,
\* and the totals of updatePay are only taken for a change of money.
RequestOK(q) ==
  /\ q.op = "none" => q.pc = "idle"
  /\ q.op = "createCollectMoney" =>
       /\ q.pc \in {"validateRoleMember", "findClan", "findUser", "save"}
       /\ q.clan \in Clan /\ q.money \in Amount
  /\ q.op = "updateCollectMoney" =>
       /\ q.pc \in {"findEntry", "validateRoleMember", "save"}
       /\ q.money \in EditAmount \cup {NoMoney}
       /\ q.pc # "findEntry" => q.id \in DOMAIN collects /\ collects[q.id].clan = q.clan
  /\ q.op = "totalMoney" =>
       /\ q.pc \in {"findClan", "totalCollectMoney", "getTotalPay"}
       /\ q.clan \in Clan
  /\ q.op = "createPay" =>
       /\ q.pc \in {"validateRoleMember", "findClan", "totalCollectMoney", "getTotalPay", "save"}
       /\ q.clan \in Clan /\ q.money \in Amount
  /\ q.op = "updatePay" =>
       /\ q.pc \in {"findEntry", "validateRoleMember", "findClan", "totalCollectMoney",
                    "getTotalPay", "save"}
       /\ q.money \in Amount \cup {NoMoney}
       /\ q.pc # "findEntry" => q.id \in DOMAIN pays /\ pays[q.id].clan = q.clan
       /\ q.pc \in {"totalCollectMoney", "getTotalPay"} => ChangesMoney(q.money)

\* Every request is as above, and no payment is negative.
RequestsKnowTheirEntries ==
  /\ \A r \in Client : RequestOK(req[r])
  /\ \A i \in DOMAIN pays : pays[i].money >= 0

\* Left alone from its first total to its last step, totalMoney answers the
\* balance of that moment, and createPay refuses a payment exactly when the fund
\* cannot cover it and leaves a covered fund behind when it saves one.
ExactWhenAlone ==
  [][\A r \in Client : r \notin stale =>
       /\ GetTotalPay(r) /\ req[r].op = "totalMoney" => Answer(r) = Balance(req[r].clan)
       /\ GetTotalPay(r) /\ req[r].op = "createPay" =>
            (req'[r].pc = "save") = (Balance(req[r].clan) >= req[r].money)
       /\ \A c \in Clan : InsertPay(r) /\ req[r].clan = c => Balance(c)' >= 0]_vars

\* A fund in credit is overdrawn only by a createPay that another request
\* overtook, by an updatePay, or by taking back or lowering a contribution.
\* Neither a new contribution, the removal of a payment nor a step of another
\* clan's request does it.
OverdraftCauses ==
  [][\A c \in Clan : Balance(c) >= 0 /\ Balance(c)' < 0 =>
       \/ \E r \in stale : InsertPay(r) /\ req[r].clan = c
       \/ \E r \in Client : UpdatePay(r) /\ req[r].clan = c
       \/ \E r \in Client : UpdateCollect(r) /\ req[r].clan = c
       \/ \E r \in Client, id \in 1..MaxCollects :
            RemoveCollect(r, id) /\ collects[id].clan = c]_vars

\* Entries are forever: a row keeps its key and its clan, and once deleted it
\* stays deleted, also when an update that found it live saves it afterwards.
EntriesAreForever ==
  [][/\ \A i \in DOMAIN collects : /\ i \in DOMAIN collects'
                                   /\ collects'[i].clan = collects[i].clan
                                   /\ collects[i].deleted => collects'[i].deleted
     /\ \A i \in DOMAIN pays : /\ i \in DOMAIN pays'
                               /\ pays'[i].clan = pays[i].clan
                               /\ pays[i].deleted => pays'[i].deleted]_vars

\* A request not overtaken saves in a fund its client manages at that moment,
\* and adds entries to live clans only, however long it took from the lookups
\* to the save.
SavesWhereAllowed ==
  [][\A r \in Client : r \notin overtaken =>
       /\ InsertCollect(r) \/ InsertPay(r) \/ UpdateCollect(r) \/ UpdatePay(r)
            => <<r, req[r].clan>> \in manager
       /\ InsertCollect(r) \/ InsertPay(r) \/ UpdatePay(r)
            => req[r].clan \in clans]_vars

\* What createPay's check is for: no payment it saves overdraws the fund.
CreatedPaysAreCovered ==
  [][\A r \in Client, c \in Clan :
       InsertPay(r) /\ req[r].clan = c => Balance(c)' >= 0]_vars

\* What updatePay's check is for: no change of a payment's money it saves
\* overdraws the fund.
UpdatedPaysAreCovered ==
  [][\A r \in Client, c \in Clan :
       UpdatePay(r) /\ req[r].clan = c /\ ChangesMoney(req[r].money)
         => Balance(c)' >= 0]_vars
=============================================================================
