------------------------ MODULE ClanMembership_proofs ------------------------
(***************************************************************************)
(* Theorems about ClanMembership for all sets of accounts and guests and    *)
(* tables of any length.                                                    *)
(***************************************************************************)
EXTENDS ClanMembership, FiniteSetTheorems, TLAPS

USE UsersAssumption, RoleAssumption, BoundAssumption

-----------------------------------------------------------------------------
(* What the writes do to the table *)

LEMMA InsertedMembers ==
  ASSUME members \in Seq(Row), NEW u \in User, NEW role \in Role
  PROVE  /\ NewRow(u, role) \in Row
         /\ Append(members, NewRow(u, role)) \in Seq(Row)
<1>1. NewRow(u, role) \in Row
  BY DEF NewRow, Row
<1> QED
  BY <1>1

LEMMA SavedMembers ==
  ASSUME members \in Seq(Row), NEW id, NEW role \in Role \cup {NoRole}
  PROVE  Saved(id, role) \in Seq(Row)
<1>1. ASSUME NEW old \in Row PROVE SavedRow(old, role) \in Row
  <2>1. NewRow(Nobody, role) \in Row
    BY DEF NewRow, Row
  <2>2. ASSUME role # NoRole, old.state # "gone"
        PROVE  [old EXCEPT !.role = role] \in Row
    <3>1. CASE old.user = Nobody
      BY <2>2, <3>1 DEF Row, User
    <3>2. CASE old.user # Nobody
      BY <2>2, <3>2 DEF Row
    <3> QED
      BY <3>1, <3>2
  <2> QED
    BY <2>1, <2>2 DEF SavedRow
<1>2. DOMAIN members = 1..Len(members) /\ Len(members) \in Nat
      /\ \A i \in DOMAIN members : members[i] \in Row
  OBVIOUS
<1>3. Saved(id, role) = [i \in 1..Len(members) |->
                           IF i = id THEN SavedRow(members[i], role) ELSE members[i]]
  BY <1>2 DEF Saved
<1> QED
  BY <1>1, <1>2, <1>3

LEMMA RemovedMembers ==
  ASSUME members \in Seq(Row), NEW u \in User
  PROVE  /\ [id \in DOMAIN members |->
               IF id \in Rows(u) THEN [members[id] EXCEPT !.state = "soft"]
               ELSE members[id]] \in Seq(Row)
         /\ [id \in DOMAIN members |->
               IF id \in Rows(u) THEN Gone ELSE members[id]] \in Seq(Row)
<1>1. ASSUME NEW id \in DOMAIN members, id \in Rows(u)
      PROVE  [members[id] EXCEPT !.state = "soft"] \in Row
  <2>1. members[id] \in Row /\ members[id].user = u
    BY <1>1 DEF Rows
  <2>2. u # Nobody
    BY DEF User
  <2> QED
    BY <2>1, <2>2 DEF Row
<1>2. Gone \in Row
  BY DEF Gone, Row
<1>3. DOMAIN members = 1..Len(members) /\ Len(members) \in Nat
  OBVIOUS
<1>4. \A id \in DOMAIN members : members[id] \in Row
  OBVIOUS
<1> QED
  BY <1>1, <1>2, <1>3, <1>4

-----------------------------------------------------------------------------
(* Type correctness *)

Inviting == {"checkEmail", "register", "isEmailInClan", "isEmailInDeletedMembers",
             "delete", "findClan", "createInvitation", "createMember"}

\* Which requests wait where, and what they carry.
RequestOK(q) ==
  /\ q.pc # "idle" => q.target \in User
  /\ q.op = "inviteMember" => q.role \in Role
  /\ q.pc = "idle" => q.op = "none"
  /\ q.pc = "insertOwner" => q.op = "create"
  /\ q.pc = "findTarget" => q.op \in {"removeMember", "changeOwner"}
  /\ q.pc = "softDelete" => q.op = "removeMember"
  /\ q.pc \in {"promote", "demote"} => q.op = "changeOwner"
  /\ q.pc \in {"findCaller", "save"} => q.op = "updateMember"
  /\ q.pc \in Inviting => q.op = "inviteMember"

TypeInv == TypeOK /\ \A r \in Client : RequestOK(req[r])

LEMMA TypeInvInit == Init => TypeInv
BY DEF Init, TypeInv, TypeOK, RequestOK, Request, Idle, Begun, Op, PC, User, Inviting

\* A step of r that leaves it with a request in order and the table typed.
LEMMA TypedStep ==
  ASSUME TypeInv, NEW r \in Client, NEW q \in Request, RequestOK(q),
         req' = [req EXCEPT ![r] = q], members' \in Seq(Row),
         clan' \in {"none", "live", "removed"}, accounts' \subseteq User,
         overtaken' \subseteq Client
  PROVE  TypeInv'
BY DEF TypeInv, TypeOK

LEMMA FinishStep ==
  ASSUME TypeInv, NEW r \in Client, req' = [req EXCEPT ![r] = Idle],
         members' \in Seq(Row), UNCHANGED clan, accounts' \subseteq User,
         overtaken' \subseteq Client
  PROVE  TypeInv'
<1>1. Idle \in Request /\ RequestOK(Idle)
  BY DEF Idle, Begun, Request, RequestOK, Op, PC, Inviting
<1> QED
  BY <1>1, TypedStep DEF TypeInv, TypeOK

LEMMA ContinueStep ==
  ASSUME TypeInv, NEW r \in Client, NEW pc \in PC, RequestOK([req[r] EXCEPT !.pc = pc]),
         req' = [req EXCEPT ![r].pc = pc], members' \in Seq(Row), UNCHANGED clan,
         accounts' \subseteq User, overtaken' \subseteq Client
  PROVE  TypeInv'
<1> DEFINE q == [req[r] EXCEPT !.pc = pc]
<1>1. q \in Request
  BY DEF TypeInv, TypeOK, Request
<1>2. req' = [req EXCEPT ![r] = q]
  OBVIOUS
<1> QED
  BY <1>1, <1>2, TypedStep DEF TypeInv, TypeOK

\* An invitation that goes on is still one, whatever await it comes to.
LEMMA InviteOnStep ==
  ASSUME TypeInv, NEW r \in Client, req[r].pc \in Inviting, NEW pc \in Inviting,
         req' = [req EXCEPT ![r].pc = pc], members' \in Seq(Row), UNCHANGED clan,
         accounts' \subseteq User, overtaken' \subseteq Client
  PROVE  TypeInv'
<1> DEFINE q == [req[r] EXCEPT !.pc = pc]
<1>1. req[r] \in Request /\ RequestOK(req[r])
  BY DEF TypeInv, TypeOK
<1>2. q.pc = pc /\ q.op = req[r].op /\ q.role = req[r].role /\ q.target = req[r].target
  BY <1>1 DEF Request
<1> HIDE DEF q
<1>3. RequestOK(q)
  BY <1>1, <1>2 DEF RequestOK, Inviting
<1>4. pc \in PC
  BY DEF Inviting, PC
<1> QED
  BY <1>3, <1>4, ContinueStep DEF q

LEMMA CreateStep ==
  ASSUME TypeInv, NEW r \in Client, Create(r)
  PROVE  TypeInv'
<1> DEFINE q == Begun("create", "insertOwner", r, "OWNER")
<1>1. q \in Request /\ RequestOK(q)
  BY DEF Begun, Request, RequestOK, Op, PC, User, Role, Inviting
<1>2. req' = [req EXCEPT ![r] = q]
  BY DEF Create
<1> HIDE DEF q
<1> QED
  BY <1>1, <1>2, TypedStep DEF Create, TypeInv, TypeOK

\* The operations that look members up, and what they do next.
Looking == {"inviteMember", "removeMember", "changeOwner", "updateMember"}

LEMMA FindCallerStep ==
  ASSUME TypeInv, NEW r \in Client, NEW q \in Request, q.target \in User, q.op \in Looking,
         q.op = "inviteMember" => q.role \in Role, FindCaller(r, q)
  PROVE  TypeInv'
<1>0. /\ members \in Seq(Row) /\ accounts \subseteq User /\ overtaken \subseteq Client
      /\ UNCHANGED <<members, clan, accounts>>
  BY DEF TypeInv, TypeOK, FindCaller
<1>1. CASE Finish(r)
  BY <1>0, <1>1, FinishStep DEF Finish
<1>2. CASE ~Finish(r)
  <2>1. PICK id \in Live(r) :
          /\ req' = [req EXCEPT ![r] =
                       [q EXCEPT !.pc = AfterCaller(q.op),
                                 !.own = IF q.op = "changeOwner" THEN id ELSE 0]]
          /\ UNCHANGED overtaken
    BY <1>2 DEF FindCaller
  <2> DEFINE own == IF q.op = "changeOwner" THEN id ELSE 0
             next == [q EXCEPT !.pc = AfterCaller(q.op), !.own = own]
  <2>2. own \in Nat
    BY <1>0, <2>1 DEF Live, Rows
  <2>3. AfterCaller(q.op) \in {"checkEmail", "save", "findTarget"}
    BY DEF AfterCaller
  <2>4. /\ next \in Request /\ next.pc = AfterCaller(q.op) /\ next.op = q.op
        /\ next.role = q.role /\ next.target = q.target
    BY <2>2, <2>3 DEF Request, PC
  <2>5. req' = [req EXCEPT ![r] = next]
    BY <2>1
  <2> HIDE DEF next
  <2>6. RequestOK(next)
    BY <2>4 DEF RequestOK, AfterCaller, Inviting, Looking
  <2> QED
    BY <1>0, <2>1, <2>4, <2>5, <2>6, TypedStep DEF TypeInv, TypeOK
<1> QED
  BY <1>1, <1>2

LEMMA FindTargetStep ==
  ASSUME TypeInv, NEW r \in Client, NEW q \in Request, q.target \in User,
         q.op \in Looking \ {"inviteMember"}, FindTarget(r, q)
  PROVE  TypeInv'
<1>0. /\ members \in Seq(Row) /\ accounts \subseteq User /\ overtaken \subseteq Client
      /\ UNCHANGED <<members, clan, accounts>>
  BY DEF TypeInv, TypeOK, FindTarget
<1>1. CASE Finish(r)
  BY <1>0, <1>1, FinishStep DEF Finish
<1>2. CASE ~Finish(r)
  <2>1. PICK id \in Live(q.target) :
          /\ req' = [req EXCEPT ![r] =
                       [q EXCEPT !.pc = AfterTarget(q.op),
                                 !.row = IF q.op = "removeMember" THEN 0 ELSE id]]
          /\ UNCHANGED overtaken
    BY <1>2 DEF FindTarget
  <2> DEFINE row == IF q.op = "removeMember" THEN 0 ELSE id
             next == [q EXCEPT !.pc = AfterTarget(q.op), !.row = row]
  <2>2. row \in Nat
    BY <1>0, <2>1 DEF Live, Rows
  <2>3. AfterTarget(q.op) \in {"softDelete", "promote", "findCaller"}
    BY DEF AfterTarget, Looking
  <2>4. /\ next \in Request /\ next.pc = AfterTarget(q.op) /\ next.op = q.op
        /\ next.role = q.role /\ next.target = q.target
    BY <2>2, <2>3 DEF Request, PC
  <2>5. req' = [req EXCEPT ![r] = next]
    BY <2>1
  <2> HIDE DEF next
  <2>6. RequestOK(next)
    BY <2>4 DEF RequestOK, AfterTarget, Inviting, Looking
  <2> QED
    BY <1>0, <2>1, <2>4, <2>5, <2>6, TypedStep DEF TypeInv, TypeOK
<1> QED
  BY <1>1, <1>2

LEMMA LookupStep ==
  ASSUME TypeInv, NEW r \in Client,
         \/ BeginInviteMember(r) \/ BeginRemoveMember(r) \/ BeginChangeOwner(r)
         \/ BeginUpdateMember(r) \/ LookupCaller(r) \/ LookupTarget(r)
  PROVE  TypeInv'
<1>1. ASSUME NEW op \in Looking, NEW u \in User, NEW role \in Role \cup {NoRole}
      PROVE  LET q == Begun(op, "idle", u, role)
             IN  q \in Request /\ q.target = u /\ q.op = op /\ q.role = role
  BY <1>1 DEF Begun, Request, Looking, Op, PC
<1>2. req[r] \in Request /\ RequestOK(req[r])
  BY DEF TypeInv, TypeOK
<1>3. CASE BeginInviteMember(r)
  <2>1. PICK u \in User, role \in InviteRoles :
          FindCaller(r, Begun("inviteMember", "idle", u, role))
    BY <1>3 DEF BeginInviteMember
  <2> QED
    BY <1>1, <2>1, FindCallerStep DEF Looking, Role
<1>4. CASE BeginRemoveMember(r)
  <2>1. PICK u \in User : FindCaller(r, Begun("removeMember", "idle", u, NoRole))
    BY <1>4 DEF BeginRemoveMember
  <2> QED
    BY <1>1, <2>1, FindCallerStep DEF Looking
<1>5. CASE BeginChangeOwner(r)
  <2>1. PICK u \in User : FindCaller(r, Begun("changeOwner", "idle", u, NoRole))
    BY <1>5 DEF BeginChangeOwner
  <2> QED
    BY <1>1, <2>1, FindCallerStep DEF Looking
<1>6. CASE BeginUpdateMember(r)
  <2>1. PICK u \in User, role \in EditRoles :
          FindTarget(r, Begun("updateMember", "idle", u, role))
    BY <1>6 DEF BeginUpdateMember
  <2>2. role \in Role \cup {NoRole}
    BY DEF Role
  <2> QED
    BY <1>1, <2>1, <2>2, FindTargetStep DEF Looking
<1>7. CASE LookupCaller(r)
  BY <1>2, <1>7, FindCallerStep DEF LookupCaller, RequestOK, Looking
<1>8. CASE LookupTarget(r)
  BY <1>2, <1>8, FindTargetStep DEF LookupTarget, RequestOK, Looking
<1> QED
  BY <1>3, <1>4, <1>5, <1>6, <1>7, <1>8

LEMMA WriteStep ==
  ASSUME TypeInv, NEW r \in Client,
         InsertOwner(r) \/ SoftDelete(r) \/ Promote(r) \/ Demote(r) \/ SaveRole(r)
  PROVE  TypeInv'
<1>0. /\ members \in Seq(Row) /\ accounts \subseteq User /\ overtaken \subseteq Client
      /\ req[r] \in Request /\ RequestOK(req[r])
  BY DEF TypeInv, TypeOK
<1>1. \A u : Overtakes(r, u) \subseteq Client
  BY DEF Overtakes
<1>2. CASE InsertOwner(r)
  <2>1. members' \in Seq(Row)
    BY <1>0, <1>2, InsertedMembers DEF InsertOwner, User, Role
  <2> QED
    BY <1>0, <1>1, <1>2, <2>1, FinishStep DEF InsertOwner, WriteAndFinish
<1>3. CASE SoftDelete(r)
  <2>1. req[r].target \in User
    BY <1>0, <1>3 DEF SoftDelete, RequestOK
  <2>2. members' \in Seq(Row)
    BY <1>0, <1>3, <2>1, RemovedMembers DEF SoftDelete
  <2> QED
    BY <1>0, <1>1, <1>3, <2>2, FinishStep DEF SoftDelete, WriteAndFinish
<1>4. CASE Promote(r)
  <2>1. members' \in Seq(Row)
    BY <1>0, <1>4, SavedMembers DEF Promote, Role
  <2> QED
    <3>1. RequestOK([req[r] EXCEPT !.pc = "demote"])
      BY <1>0, <1>4 DEF Promote, RequestOK, Request, Inviting
    <3> QED
      BY <1>0, <1>1, <1>4, <2>1, <3>1, ContinueStep DEF Promote, WriteAndContinue, PC
<1>5. CASE Demote(r)
  <2>1. members' \in Seq(Row)
    BY <1>0, <1>5, SavedMembers DEF Demote, Role
  <2> QED
    BY <1>0, <1>1, <1>5, <2>1, FinishStep DEF Demote, WriteAndFinish
<1>6. CASE SaveRole(r)
  <2>1. req[r].role \in Role \cup {NoRole}
    BY <1>0 DEF Request
  <2>2. members' \in Seq(Row)
    BY <1>0, <1>6, <2>1, SavedMembers DEF SaveRole
  <2> QED
    BY <1>0, <1>1, <1>6, <2>2, FinishStep DEF SaveRole, WriteAndFinish
<1> QED
  BY <1>2, <1>3, <1>4, <1>5, <1>6

LEMMA InviteStep ==
  ASSUME TypeInv, NEW r \in Client,
         \/ CheckEmailMemberExists(r) \/ RegisterNotOtp(r) \/ IsEmailInClan(r)
         \/ IsEmailInDeletedMembers(r) \/ Delete(r) \/ FindClan(r) \/ CreateInvitation(r)
         \/ CreateMember(r)
  PROVE  TypeInv'
<1>0. /\ members \in Seq(Row) /\ accounts \subseteq User /\ overtaken \subseteq Client
      /\ clan \in {"none", "live", "removed"} /\ req[r] \in Request /\ RequestOK(req[r])
  BY DEF TypeInv, TypeOK
<1>1. \A u : Overtakes(r, u) \subseteq Client
  BY DEF Overtakes
<1>2. req[r].pc \in Inviting => req[r].op = "inviteMember" /\ req[r].target \in User
                                  /\ req[r].role \in Role
  BY <1>0 DEF RequestOK, Inviting
<1>3. CASE CheckEmailMemberExists(r)
  <2>1. PICK pc \in {"isEmailInClan", "register"} : Continue(r, pc)
    BY <1>3 DEF CheckEmailMemberExists, AfterCheckEmail
  <2> QED
    BY <1>0, <1>3, <2>1, InviteOnStep DEF CheckEmailMemberExists, Continue, Inviting
<1>4. CASE RegisterNotOtp(r)
  <2>1. req[r].target \in User /\ req[r].op = "inviteMember" /\ req[r].pc # "idle"
    BY <1>2, <1>4 DEF RegisterNotOtp, Inviting
  <2>2. UNCHANGED <<members, clan>> /\ accounts' \subseteq User
    BY <1>0, <1>4, <2>1 DEF RegisterNotOtp
  <2>3. CASE Finish(r)
    BY <1>0, <2>2, <2>3, FinishStep DEF Finish
  <2>4. CASE Continue(r, "findClan")
    BY <1>0, <1>4, <2>2, <2>4, InviteOnStep DEF RegisterNotOtp, Continue, Inviting
  <2> QED
    BY <1>4, <2>3, <2>4 DEF RegisterNotOtp
<1>5. CASE IsEmailInClan(r)
  <2> DEFINE found == Live(req[r].target) # {}
             q == [req[r] EXCEPT !.pc = "isEmailInDeletedMembers", !.inClan = found]
  <2>1. found \in BOOLEAN
    OBVIOUS
  <2>2. req[r].pc = "isEmailInClan" /\ req' = [req EXCEPT ![r] = q]
    BY <1>5 DEF IsEmailInClan
  <2> HIDE DEF found
  <2>3. /\ q \in Request /\ q.pc = "isEmailInDeletedMembers" /\ q.op = req[r].op
        /\ q.role = req[r].role /\ q.target = req[r].target
    BY <1>0, <2>1 DEF Request, PC
  <2> HIDE DEF q
  <2>4. RequestOK(q)
    BY <1>2, <2>2, <2>3 DEF RequestOK, Inviting
  <2> QED
    BY <1>0, <1>5, <2>2, <2>3, <2>4, TypedStep DEF IsEmailInClan
<1>6. CASE IsEmailInDeletedMembers(r)
  <2>1. CASE Finish(r)
    BY <1>0, <1>6, <2>1, FinishStep DEF IsEmailInDeletedMembers, Finish
  <2>2. CASE ~Finish(r)
    <3>1. PICK pc \in {"delete", "findClan"} : Continue(r, pc)
      BY <1>6, <2>2 DEF IsEmailInDeletedMembers
    <3> QED
      BY <1>0, <1>6, <3>1, InviteOnStep DEF IsEmailInDeletedMembers, Continue, Inviting
  <2> QED
    BY <2>1, <2>2
<1>7. CASE Delete(r)
  <2>1. req[r].target \in User /\ req[r].op = "inviteMember" /\ req[r].pc # "idle"
    BY <1>2, <1>7 DEF Delete, Inviting
  <2>2. members' \in Seq(Row)
    BY <1>0, <1>7, <2>1, RemovedMembers DEF Delete
  <2> QED
    BY <1>0, <1>1, <1>7, <2>2, InviteOnStep DEF Delete, WriteAndContinue, Inviting
<1>8. CASE FindClan(r)
  <2>1. CASE Finish(r)
    BY <1>0, <1>8, <2>1, FinishStep DEF FindClan, Finish
  <2>2. CASE ~Finish(r)
    BY <1>0, <1>8, <2>2, InviteOnStep DEF FindClan, Continue, Inviting
  <2> QED
    BY <2>1, <2>2
<1>9. CASE CreateInvitation(r)
  BY <1>0, <1>9, InviteOnStep DEF CreateInvitation, Continue, Inviting
<1>10. CASE CreateMember(r)
  <2>1. /\ req[r].target \in User /\ req[r].op = "inviteMember" /\ req[r].pc # "idle"
        /\ req[r].role \in Role
    BY <1>2, <1>10 DEF CreateMember, Inviting
  <2>2. members' \in Seq(Row)
    BY <1>0, <1>10, <2>1, InsertedMembers DEF CreateMember
  <2> QED
    BY <1>0, <1>1, <1>10, <2>1, <2>2, FinishStep DEF CreateMember, WriteAndFinish
<1> QED
  BY <1>3, <1>4, <1>5, <1>6, <1>7, <1>8, <1>9, <1>10

LEMMA TypeInvNext ==
  ASSUME TypeInv, [Next]_vars
  PROVE  TypeInv'
<1>1. ASSUME NEW r \in Client, Step(r) PROVE TypeInv'
  <2>1. CASE Abort(r)
    BY <2>1, FinishStep DEF Abort, Finish, TypeInv, TypeOK
  <2> QED
    BY <1>1, <2>1, CreateStep, LookupStep, WriteStep, InviteStep DEF Step
<1>2. CASE RemoveClan
  BY <1>2 DEF RemoveClan, TypeInv, TypeOK, RequestOK
<1>3. CASE UNCHANGED vars
  BY <1>3 DEF vars, TypeInv, TypeOK, RequestOK
<1> QED
  BY <1>1, <1>2, <1>3 DEF Next

\* Type correctness of every reachable state; in particular a row that belongs
\* to a user always has a role.
THEOREM TypeCorrect == Spec => []TypeOK
<1>1. TypeInv => TypeOK
  BY DEF TypeInv
<1> QED
  BY <1>1, TypeInvInit, TypeInvNext, PTL DEF Spec

-----------------------------------------------------------------------------
(* What requests know *)

\* What RequestsAreCurrent says of one request that was not overtaken, and that the
\* clan whose owner is about to be inserted is there.
Current(r) == LET q == req[r] IN
  /\ CallerChecked(q) => CallerMay(r)
  /\ q.pc \in {"promote", "demote", "findCaller", "save"} => q.row \in Live(q.target)
  /\ q.op = "changeOwner" /\ CallerChecked(q)
       => q.own \in Live(r) /\ members[q.own].role = "OWNER"
  /\ q.pc = "demote" => members[q.row].role = "OWNER"
  /\ q.pc = "softDelete" => \E id \in Live(q.target) : members[id].role # "OWNER"
  /\ q.pc = "isEmailInDeletedMembers" => q.inClan = (Live(q.target) # {})
  /\ q.pc \in {"delete", "findClan", "createInvitation", "createMember"}
       => Live(q.target) = {}
  /\ q.pc \in {"createInvitation", "createMember"} => clan = "live"
  /\ q.pc = "insertOwner" => clan = "live"

\* The awaits of an invitation whose address is known to have an account.
Registered == {"isEmailInClan", "isEmailInDeletedMembers", "delete", "findClan",
               "createInvitation", "createMember"}

\* What every request knows, overtaken or not: the rows it holds are in the table and
\* are still those of its user, unless they are nobody's by now.
Holds(r) == LET q == req[r] IN
  /\ q.pc \in {"promote", "demote", "findCaller", "save"}
       => q.row \in DOMAIN members /\ members[q.row].user \in {q.target, Nobody}
  /\ q.op = "changeOwner" /\ CallerChecked(q)
       => /\ q.target # r /\ q.own \in DOMAIN members
          /\ members[q.own].user \in {r, Nobody}
  /\ q.pc \in Registered => q.target \in accounts

MemberInv ==
  /\ TypeInv
  /\ Client \subseteq accounts
  /\ \A u \in User : Rows(u) # {} => u \in accounts
  /\ \A r \in Client : Holds(r)
  /\ \A r \in Client \ overtaken : Current(r)

\* A write to rows of u: rows stay in the table, lose their user at most, and are
\* changed or added only if they are of u or of nobody.
Touches(u) ==
  /\ DOMAIN members \subseteq DOMAIN members'
  /\ \A id \in DOMAIN members : members'[id].user \in {members[id].user, Nobody}
  /\ \A id \in DOMAIN members' : members'[id].user \notin {u, Nobody} => id \in DOMAIN members
  /\ \A id \in DOMAIN members : members[id].user \notin {u, Nobody} => members'[id] = members[id]

LEMMA TouchedRows ==
  ASSUME NEW u, Touches(u), NEW v, v \notin {u, Nobody}
  PROVE  /\ Rows(v)' = Rows(v) /\ Live(v)' = Live(v)
         /\ \A id \in Rows(v) : members'[id] = members[id]
<1>1. \A id \in Rows(v) : id \in DOMAIN members' /\ members'[id] = members[id]
  BY DEF Touches, Rows
<1>2. \A id \in DOMAIN members' : members'[id].user = v => id \in DOMAIN members /\ members[id].user = v
  BY DEF Touches
<1>3. Rows(v)' = Rows(v)
  BY <1>1, <1>2 DEF Rows
<1> QED
  BY <1>1, <1>3 DEF Live

LEMMA InsertTouches ==
  ASSUME members \in Seq(Row), NEW u \in User, NEW role \in Role,
         members' = Append(members, NewRow(u, role))
  PROVE  Touches(u)
BY DEF Touches, NewRow

LEMMA SoftDeleteTouches ==
  ASSUME members \in Seq(Row), NEW u \in User,
         members' = [id \in DOMAIN members |->
           IF id \in Rows(u) THEN [members[id] EXCEPT !.state = "soft"] ELSE members[id]]
  PROVE  Touches(u) /\ DOMAIN members' = DOMAIN members
<1>1. ASSUME NEW id \in DOMAIN members
      PROVE  [members[id] EXCEPT !.state = "soft"].user = members[id].user
  <2>1. members[id] \in Row
    OBVIOUS
  <2> QED
    BY <2>1 DEF Row
<1> QED
  BY <1>1 DEF Touches, Rows

LEMMA DeleteTouches ==
  ASSUME members \in Seq(Row), NEW u \in User,
         members' = [id \in DOMAIN members |-> IF id \in Rows(u) THEN Gone ELSE members[id]]
  PROVE  Touches(u) /\ DOMAIN members' = DOMAIN members
BY DEF Touches, Rows, Gone

LEMMA SaveTouches ==
  ASSUME members \in Seq(Row), NEW u, NEW id \in DOMAIN members, NEW role,
         members[id].user \in {u, Nobody}, members' = Saved(id, role)
  PROVE  Touches(u) /\ DOMAIN members' = DOMAIN members
<1>1. members[id] \in Row
  OBVIOUS
<1>2. SavedRow(members[id], role).user \in {members[id].user, Nobody}
  BY <1>1 DEF SavedRow, NewRow, Row
<1>3. \A i \in DOMAIN members :
        members'[i] = IF i = id THEN SavedRow(members[id], role) ELSE members[i]
  BY DEF Saved
<1>4. DOMAIN members' = DOMAIN members
  BY DEF Saved
<1> QED
  BY <1>2, <1>3, <1>4 DEF Touches

\* A request knows what it knew, when the rows it has looked up are as before.
LEMMA StaysCurrent ==
  ASSUME TypeInv, NEW r \in Client, req[r].pc # "idle", req'[r] = req[r],
         \A v \in LookedUp(r, req[r]) :
           /\ Rows(v)' = Rows(v) /\ Live(v)' = Live(v)
           /\ \A id \in Rows(v) : members'[id] = members[id],
         clan' \in {clan, "live"}, Current(r)
  PROVE  Current(r)'
<1>1. PICK q : q = req[r] /\ q = req'[r]
  OBVIOUS
<1>2. CallerChecked(q) => Live(r)' = Live(r) /\ \A id \in Live(r) : members'[id] = members[id]
  <2>1. CallerChecked(q) => r \in LookedUp(r, q)
    BY DEF LookedUp
  <2> QED
    BY <1>1, <2>1 DEF Live
<1>3. TargetFound(q) => /\ Live(q.target)' = Live(q.target)
                        /\ \A id \in Live(q.target) : members'[id] = members[id]
  <2>1. TargetFound(q) => q.target \in LookedUp(r, q)
    BY DEF LookedUp
  <2> QED
    BY <1>1, <2>1 DEF Live
<1>4. CallerChecked(q) => CallerMay(r)'
  BY <1>1, <1>2 DEF Current, CallerMay, MayCall
<1>5. q.op = "changeOwner" /\ CallerChecked(q) => q.own \in Live(r)' /\ members'[q.own].role = "OWNER"
  BY <1>1, <1>2 DEF Current
<1>6. q.pc \in {"promote", "demote", "findCaller", "save", "softDelete", "isEmailInDeletedMembers",
                "delete", "findClan", "createInvitation", "createMember"} => TargetFound(q)
  BY DEF TargetFound
<1>7. /\ q.pc \in {"promote", "demote", "findCaller", "save"} => q.row \in Live(q.target)'
      /\ q.pc = "demote" => members'[q.row].role = "OWNER"
  BY <1>1, <1>3, <1>6 DEF Current
<1>8. /\ q.pc = "softDelete" => \E id \in Live(q.target)' : members'[id].role # "OWNER"
      /\ q.pc = "isEmailInDeletedMembers" => q.inClan = (Live(q.target)' # {})
      /\ q.pc \in {"delete", "findClan", "createInvitation", "createMember"} => Live(q.target)' = {}
  BY <1>1, <1>3, <1>6 DEF Current
<1>9. q.pc \in {"createInvitation", "createMember", "insertOwner"} => clan' = "live"
  BY <1>1 DEF Current
<1> QED
  BY <1>1, <1>4, <1>5, <1>7, <1>8, <1>9 DEF Current, CallerChecked

LEMMA IdleIsCurrent ==
  ASSUME NEW r \in Client, req'[r] = Idle
  PROVE  Holds(r)' /\ Current(r)'
BY DEF Idle, Begun, Holds, Current, CallerChecked, Registered

\* What a write to rows of u by r leaves to the other requests.
LEMMA WriteFrame ==
  ASSUME MemberInv, TypeInv', NEW r \in Client, NEW u \in User, Touches(u),
         u \in accounts \/ DOMAIN members' = DOMAIN members,
         UNCHANGED <<clan, accounts>>, \A q \in Client \ {r} : req'[q] = req[q],
         (overtaken \cup Overtakes(r, u)) \ {r} \subseteq overtaken',
         Holds(r)', r \notin overtaken' => Current(r)'
  PROVE  MemberInv'
<1>1. ASSUME NEW v \in User, Rows(v)' # {} PROVE v \in accounts'
  <2>1. CASE v # u
    <3>1. v # Nobody
      BY DEF User
    <3> QED
      BY <1>1, <2>1, <3>1, TouchedRows DEF MemberInv
  <2>2. CASE v = u
    <3>1. CASE u \in accounts
      BY <2>2, <3>1
    <3>2. CASE DOMAIN members' = DOMAIN members
      <4>1. PICK id \in DOMAIN members : members'[id].user = u
        BY <1>1, <2>2, <3>2 DEF Rows
      <4>2. u # Nobody
        BY DEF User
      <4>3. id \in Rows(u)
        BY <4>1, <4>2 DEF Rows, Touches
      <4> QED
        BY <2>2, <4>3 DEF MemberInv
    <3> QED
      BY <3>1, <3>2
  <2> QED
    BY <2>1, <2>2
<1>2. ASSUME NEW q \in Client, q # r PROVE Holds(q)'
  <2>1. Holds(q) /\ req'[q] = req[q]
    BY <1>2 DEF MemberInv
  <2>2. \A id \in DOMAIN members : \A v : members[id].user \in {v, Nobody} =>
          id \in DOMAIN members' /\ members'[id].user \in {v, Nobody}
    BY DEF Touches
  <2>3. accounts' = accounts
    OBVIOUS
  <2>4. req[q].pc \in {"promote", "demote", "findCaller", "save"}
          => /\ req[q].row \in DOMAIN members'
             /\ members'[req[q].row].user \in {req[q].target, Nobody}
    BY <2>1, <2>2 DEF Holds
  <2>5. req[q].op = "changeOwner" /\ CallerChecked(req[q])
          => /\ req[q].target # q /\ req[q].own \in DOMAIN members'
             /\ members'[req[q].own].user \in {q, Nobody}
    BY <2>1, <2>2 DEF Holds
  <2> QED
    BY <2>1, <2>3, <2>4, <2>5 DEF Holds, CallerChecked
<1>3. ASSUME NEW q \in Client, q # r, q \notin overtaken' PROVE Current(q)'
  <2>1. Current(q) /\ req'[q] = req[q]
    BY <1>3 DEF MemberInv
  <2>2. CASE req[q].pc = "idle"
    BY <2>1, <2>2 DEF Current, CallerChecked, MemberInv, TypeInv, RequestOK
  <2>3. CASE req[q].pc # "idle"
    <3>1. u \notin LookedUp(q, req[q])
      BY <1>3, <2>3 DEF Overtakes
    <3>2. Nobody \notin LookedUp(q, req[q])
      BY <2>3 DEF MemberInv, TypeInv, RequestOK, User, LookedUp
    <3>3. \A v \in LookedUp(q, req[q]) :
            /\ Rows(v)' = Rows(v) /\ Live(v)' = Live(v)
            /\ \A id \in Rows(v) : members'[id] = members[id]
      BY <3>1, <3>2, TouchedRows
    <3> QED
      BY <2>1, <2>3, <3>3, StaysCurrent DEF MemberInv
  <2> QED
    BY <2>2, <2>3
<1> QED
  BY <1>1, <1>2, <1>3 DEF MemberInv

\* What a lookup by r, or one that ends r, leaves to them.
LEMMA ReadFrame ==
  ASSUME MemberInv, TypeInv', NEW r \in Client, UNCHANGED members,
         accounts \subseteq accounts', clan' \in {clan, "live"},
         \A q \in Client \ {r} : req'[q] = req[q], overtaken \ {r} \subseteq overtaken',
         Holds(r)', r \notin overtaken' => Current(r)'
  PROVE  MemberInv'
<1>1. \A v : Rows(v)' = Rows(v) /\ Live(v)' = Live(v)
  BY DEF Rows, Live
<1>2. ASSUME NEW q \in Client, q # r PROVE Holds(q)'
  <2>1. Holds(q) /\ req'[q] = req[q]
    BY <1>2 DEF MemberInv
  <2> QED
    BY <2>1 DEF Holds, CallerChecked
<1>3. ASSUME NEW q \in Client, q # r, q \notin overtaken' PROVE Current(q)'
  <2>1. Current(q) /\ req'[q] = req[q]
    BY <1>3 DEF MemberInv
  <2>2. CASE req[q].pc = "idle"
    BY <2>1, <2>2 DEF Current, CallerChecked, MemberInv, TypeInv, RequestOK
  <2>3. CASE req[q].pc # "idle"
    BY <1>1, <2>1, <2>3, StaysCurrent DEF MemberInv
  <2> QED
    BY <2>2, <2>3
<1> QED
  BY <1>1, <1>2, <1>3 DEF MemberInv

LEMMA MemberInvInit == Init => MemberInv
<1>1. Init => TypeInv
  BY TypeInvInit
<1>2. ASSUME Init PROVE \A u : Rows(u) = {} /\ \A r \in Client : req[r] = Idle
  BY <1>2 DEF Init, Rows
<1>3. ASSUME Init, NEW r \in Client PROVE Holds(r) /\ Current(r)
  <2>1. req[r] = Idle
    BY <1>3 DEF Init
  <2> QED
    BY <2>1 DEF Idle, Begun, Holds, Current, CallerChecked, Registered
<1> QED
  BY <1>1, <1>2, <1>3 DEF MemberInv, Init

\* A request that is answered without a write.
LEMMA FinishCurrent ==
  ASSUME MemberInv, TypeInv', NEW r \in Client, Finish(r), UNCHANGED <<members, clan>>,
         accounts \subseteq accounts'
  PROVE  MemberInv'
<1>1. /\ req'[r] = Idle /\ \A q \in Client \ {r} : req'[q] = req[q]
      /\ overtaken' = overtaken \ {r}
  BY DEF Finish, MemberInv, TypeInv, TypeOK
<1> QED
  BY <1>1, IdleIsCurrent, ReadFrame

\* A request that is answered after a write to rows of u.
LEMMA WriteAndFinishCurrent ==
  ASSUME MemberInv, TypeInv', NEW r \in Client, NEW u \in User, Touches(u),
         u \in accounts \/ DOMAIN members' = DOMAIN members, WriteAndFinish(r, u),
         UNCHANGED <<clan, accounts>>
  PROVE  MemberInv'
<1>1. /\ req'[r] = Idle /\ \A q \in Client \ {r} : req'[q] = req[q]
      /\ overtaken' = (overtaken \cup Overtakes(r, u)) \ {r}
  BY DEF WriteAndFinish, MemberInv, TypeInv, TypeOK
<1> QED
  BY <1>1, IdleIsCurrent, WriteFrame

LEMMA CreateCurrent ==
  ASSUME MemberInv, TypeInv', NEW r \in Client, Create(r)
  PROVE  MemberInv'
<1>1. /\ req'[r] = Begun("create", "insertOwner", r, "OWNER")
      /\ \A q \in Client \ {r} : req'[q] = req[q]
  BY DEF Create, MemberInv, TypeInv, TypeOK
<1>2. Holds(r)' /\ Current(r)'
  BY <1>1 DEF Create, Begun, Holds, Current, CallerChecked, Registered
<1> QED
  BY <1>1, <1>2, ReadFrame DEF Create

LEMMA FindCallerCurrent ==
  ASSUME MemberInv, TypeInv', NEW r \in Client, NEW q \in Request, q.target \in User,
         q.op \in Looking, q.op = "updateMember" => q.pc = "findCaller" /\ q = req[r],
         FindCaller(r, q)
  PROVE  MemberInv'
<1>1. CASE Finish(r)
  BY <1>1, FinishCurrent DEF FindCaller
<1>2. CASE ~Finish(r)
  <2>1. PICK id \in Live(r) :
          /\ MayCall(r, q, members[id].role)
          /\ req' = [req EXCEPT ![r] =
                       [q EXCEPT !.pc = AfterCaller(q.op),
                                 !.own = IF q.op = "changeOwner" THEN id ELSE 0]]
          /\ UNCHANGED overtaken
    BY <1>2 DEF FindCaller
  <2> DEFINE own == IF q.op = "changeOwner" THEN id ELSE 0
             next == [q EXCEPT !.pc = AfterCaller(q.op), !.own = own]
  <2>2. /\ next.pc = AfterCaller(q.op) /\ next.op = q.op /\ next.row = q.row
        /\ next.target = q.target /\ next.own = own
    BY DEF Request
  <2>3. req'[r] = next /\ \A p \in Client \ {r} : req'[p] = req[p]
    BY <2>1 DEF MemberInv, TypeInv, TypeOK
  <2> HIDE DEF next
  <2>4. UNCHANGED <<members, clan, accounts, overtaken>>
    BY <2>1 DEF FindCaller
  <2>5. id \in DOMAIN members /\ members[id].user = r
    BY <2>1 DEF Live, Rows
  <2>6. CallerMay(r)'
    BY <2>1, <2>2, <2>3, <2>4 DEF CallerMay, MayCall, Live, Rows
  <2>7. q.op = "changeOwner" => q.target # r /\ members[id].role = "OWNER"
    BY <2>1 DEF MayCall
  <2>8. Holds(r) /\ (r \notin overtaken => Current(r))
    BY DEF MemberInv
  <2>9. Holds(r)'
    BY <2>2, <2>3, <2>4, <2>5, <2>7, <2>8 DEF Holds, AfterCaller, Looking, Registered, CallerChecked
  <2>10. ASSUME r \notin overtaken PROVE Current(r)'
    <3>1. q.op = "updateMember" => q.row \in Live(q.target)
      BY <2>8, <2>10 DEF Current
    <3>2. Live(r)' = Live(r) /\ Live(q.target)' = Live(q.target)
      BY <2>4 DEF Live, Rows
    <3> QED
      BY <2>1, <2>2, <2>3, <2>4, <2>6, <2>7, <3>1, <3>2 DEF Current, AfterCaller, Looking, CallerChecked
  <2> QED
    BY <2>3, <2>4, <2>9, <2>10, ReadFrame
<1> QED
  BY <1>1, <1>2

LEMMA FindTargetCurrent ==
  ASSUME MemberInv, TypeInv', NEW r \in Client, NEW q \in Request, q.target \in User,
         q.op \in Looking \ {"inviteMember"},
         q.op # "updateMember" => q.pc = "findTarget" /\ q = req[r],
         FindTarget(r, q)
  PROVE  MemberInv'
<1>1. CASE Finish(r)
  BY <1>1, FinishCurrent DEF FindTarget
<1>2. CASE ~Finish(r)
  <2>1. PICK id \in Live(q.target) :
          /\ MayTarget(q, members[id].role)
          /\ req' = [req EXCEPT ![r] =
                       [q EXCEPT !.pc = AfterTarget(q.op),
                                 !.row = IF q.op = "removeMember" THEN 0 ELSE id]]
          /\ UNCHANGED overtaken
    BY <1>2 DEF FindTarget
  <2> DEFINE row == IF q.op = "removeMember" THEN 0 ELSE id
             next == [q EXCEPT !.pc = AfterTarget(q.op), !.row = row]
  <2>2. /\ next.pc = AfterTarget(q.op) /\ next.op = q.op /\ next.row = row
        /\ next.target = q.target /\ next.own = q.own
    BY DEF Request
  <2>3. req'[r] = next /\ \A p \in Client \ {r} : req'[p] = req[p]
    BY <2>1 DEF MemberInv, TypeInv, TypeOK
  <2> HIDE DEF next
  <2>4. UNCHANGED <<members, clan, accounts, overtaken>>
    BY <2>1 DEF FindTarget
  <2>5. id \in DOMAIN members /\ members[id].user = q.target
    BY <2>1 DEF Live, Rows
  <2>6. q.op = "removeMember" => members[id].role # "OWNER"
    BY <2>1 DEF MayTarget
  <2>7. Holds(r) /\ (r \notin overtaken => Current(r))
    BY DEF MemberInv
  <2>8. Holds(r)'
    BY <2>2, <2>3, <2>4, <2>5, <2>7 DEF Holds, AfterTarget, Looking, Registered, CallerChecked
  <2>9. ASSUME r \notin overtaken PROVE Current(r)'
    <3>1. Live(r)' = Live(r) /\ Live(q.target)' = Live(q.target)
      BY <2>4 DEF Live, Rows
    <3>2. q.op # "updateMember" => CallerMay(r)
      BY <2>7, <2>9 DEF Current, CallerChecked
    <3>3. q.op # "updateMember" => CallerMay(r)'
      BY <2>2, <2>3, <2>4, <3>1, <3>2 DEF CallerMay, MayCall
    <3>4. q.op = "changeOwner" => q.own \in Live(r) /\ members[q.own].role = "OWNER"
      BY <2>7, <2>9 DEF Current, CallerChecked
    <3> QED
      BY <2>1, <2>2, <2>3, <2>4, <2>6, <3>1, <3>3, <3>4 DEF Current, AfterTarget, Looking, CallerChecked
  <2> QED
    BY <2>3, <2>4, <2>8, <2>9, ReadFrame
<1> QED
  BY <1>1, <1>2

LEMMA LookupCurrent ==
  ASSUME MemberInv, TypeInv', NEW r \in Client,
         \/ BeginInviteMember(r) \/ BeginRemoveMember(r) \/ BeginChangeOwner(r)
         \/ BeginUpdateMember(r) \/ LookupCaller(r) \/ LookupTarget(r)
  PROVE  MemberInv'
<1>1. ASSUME NEW op \in Looking, NEW u \in User, NEW role \in Role \cup {NoRole}
      PROVE  LET q == Begun(op, "idle", u, role)
             IN  q \in Request /\ q.target = u /\ q.op = op
  BY <1>1 DEF Begun, Request, Looking, Op, PC
<1>2. req[r] \in Request /\ RequestOK(req[r])
  BY DEF MemberInv, TypeInv, TypeOK
<1>3. CASE BeginInviteMember(r)
  <2>1. PICK u \in User, role \in InviteRoles :
          FindCaller(r, Begun("inviteMember", "idle", u, role))
    BY <1>3 DEF BeginInviteMember
  <2> QED
    BY <1>1, <2>1, FindCallerCurrent DEF Looking, Role
<1>4. CASE BeginRemoveMember(r)
  <2>1. PICK u \in User : FindCaller(r, Begun("removeMember", "idle", u, NoRole))
    BY <1>4 DEF BeginRemoveMember
  <2> QED
    BY <1>1, <2>1, FindCallerCurrent DEF Looking
<1>5. CASE BeginChangeOwner(r)
  <2>1. PICK u \in User : FindCaller(r, Begun("changeOwner", "idle", u, NoRole))
    BY <1>5 DEF BeginChangeOwner
  <2> QED
    BY <1>1, <2>1, FindCallerCurrent DEF Looking
<1>6. CASE BeginUpdateMember(r)
  <2>1. PICK u \in User, role \in EditRoles :
          FindTarget(r, Begun("updateMember", "idle", u, role))
    BY <1>6 DEF BeginUpdateMember
  <2>2. role \in Role \cup {NoRole}
    BY DEF Role
  <2> QED
    BY <1>1, <2>1, <2>2, FindTargetCurrent DEF Looking
<1>7. CASE LookupCaller(r)
  BY <1>2, <1>7, FindCallerCurrent DEF LookupCaller, RequestOK, Looking
<1>8. CASE LookupTarget(r)
  BY <1>2, <1>8, FindTargetCurrent DEF LookupTarget, RequestOK, Looking
<1> QED
  BY <1>3, <1>4, <1>5, <1>6, <1>7, <1>8

\* The promotion leaves the caller the owner he was: his row is not the target's.
LEMMA PromoteCurrent ==
  ASSUME MemberInv, TypeInv', NEW r \in Client, Promote(r)
  PROVE  MemberInv'
<1> DEFINE q == req[r]
<1>0. /\ members \in Seq(Row) /\ q \in Request /\ RequestOK(q) /\ Holds(r)
      /\ r \notin overtaken => Current(r)
  BY DEF MemberInv, TypeInv, TypeOK
<1>1. q.pc = "promote" /\ q.op = "changeOwner" /\ q.target \in User
  BY <1>0 DEF Promote, RequestOK
<1>2. /\ q.row \in DOMAIN members /\ members[q.row].user \in {q.target, Nobody}
      /\ q.target # r /\ q.own \in DOMAIN members /\ members[q.own].user \in {r, Nobody}
  BY <1>0, <1>1 DEF Holds, CallerChecked
<1>3. members' = Saved(q.row, "OWNER")
  BY DEF Promote
<1>4. Touches(q.target) /\ DOMAIN members' = DOMAIN members
  BY <1>0, <1>2, <1>3, SaveTouches
<1>5. /\ req'[r] = [q EXCEPT !.pc = "demote"]
      /\ \A p \in Client \ {r} : req'[p] = req[p]
      /\ overtaken' = overtaken \cup Overtakes(r, q.target)
  BY DEF Promote, WriteAndContinue, MemberInv, TypeInv, TypeOK
<1>6. /\ req'[r].pc = "demote" /\ req'[r].op = "changeOwner" /\ req'[r].target = q.target
      /\ req'[r].row = q.row /\ req'[r].own = q.own
  BY <1>0, <1>1, <1>5 DEF Request
<1>7. Holds(r)'
  <2>1. /\ members'[q.row].user \in {members[q.row].user, Nobody}
        /\ members'[q.own].user \in {members[q.own].user, Nobody}
    BY <1>2, <1>4 DEF Touches
  <2> QED
    BY <1>2, <1>4, <1>6, <2>1 DEF Holds, Registered
<1>8. ASSUME r \notin overtaken' PROVE Current(r)'
  <2>1. /\ q.row \in Live(q.target) /\ q.own \in Live(r) /\ members[q.own].role = "OWNER"
    BY <1>0, <1>1, <1>5, <1>8 DEF Current, CallerChecked
  <2>2. /\ members[q.row] \in Row /\ members[q.row].user = q.target
        /\ members[q.row].state = "live"
    BY <1>0, <1>2, <2>1 DEF Live, Rows
  <2>3. members'[q.row] = [members[q.row] EXCEPT !.role = "OWNER"]
    BY <1>2, <1>3, <2>2 DEF Saved, SavedRow
  <2>4. /\ members'[q.row].user = q.target /\ members'[q.row].state = "live"
        /\ members'[q.row].role = "OWNER"
    BY <2>2, <2>3 DEF Row
  <2>5. members'[q.own] = members[q.own]
    BY <1>2, <1>4, <2>1 DEF Touches, Live, Rows, User
  <2>6. q.own \in Live(r)' /\ members'[q.own].role = "OWNER"
    BY <1>4, <1>2, <2>1, <2>5 DEF Live, Rows
  <2>7. q.row \in Live(q.target)'
    BY <1>2, <1>4, <1>6, <2>4 DEF Live, Rows
  <2>8. CallerMay(r)'
    BY <1>2, <1>6, <2>6 DEF CallerMay, MayCall
  <2> QED
    BY <1>6, <2>4, <2>6, <2>7, <2>8 DEF Current, CallerChecked
<1> QED
  BY <1>1, <1>4, <1>5, <1>7, <1>8, WriteFrame DEF Promote

LEMMA WriteCurrent ==
  ASSUME MemberInv, TypeInv', NEW r \in Client,
         InsertOwner(r) \/ SoftDelete(r) \/ Promote(r) \/ Demote(r) \/ SaveRole(r)
  PROVE  MemberInv'
<1>0. /\ members \in Seq(Row) /\ req[r] \in Request /\ RequestOK(req[r]) /\ Holds(r)
      /\ Client \subseteq accounts
  BY DEF MemberInv, TypeInv, TypeOK
<1>1. CASE InsertOwner(r)
  <2>1. Touches(r)
    BY <1>0, <1>1, InsertTouches DEF InsertOwner, User, Role
  <2> QED
    BY <1>0, <1>1, <2>1, WriteAndFinishCurrent DEF InsertOwner, User
<1>2. CASE SoftDelete(r)
  <2>1. req[r].target \in User
    BY <1>0, <1>2 DEF SoftDelete, RequestOK
  <2>2. Touches(req[r].target) /\ DOMAIN members' = DOMAIN members
    BY <1>0, <1>2, <2>1, SoftDeleteTouches DEF SoftDelete
  <2> QED
    BY <1>2, <2>1, <2>2, WriteAndFinishCurrent DEF SoftDelete
<1>3. CASE Demote(r)
  <2>1. req[r].own \in DOMAIN members /\ members[req[r].own].user \in {r, Nobody}
    BY <1>0, <1>3 DEF Demote, RequestOK, Holds, CallerChecked
  <2>2. Touches(r) /\ DOMAIN members' = DOMAIN members
    BY <1>0, <1>3, <2>1, SaveTouches DEF Demote
  <2> QED
    BY <1>3, <2>2, WriteAndFinishCurrent DEF Demote, User
<1>4. CASE SaveRole(r)
  <2>1. /\ req[r].row \in DOMAIN members /\ req[r].target \in User
        /\ members[req[r].row].user \in {req[r].target, Nobody}
    BY <1>0, <1>4 DEF SaveRole, RequestOK, Holds
  <2>2. Touches(req[r].target) /\ DOMAIN members' = DOMAIN members
    BY <1>0, <1>4, <2>1, SaveTouches DEF SaveRole
  <2> QED
    BY <1>4, <2>1, <2>2, WriteAndFinishCurrent DEF SaveRole
<1> QED
  BY <1>1, <1>2, <1>3, <1>4, PromoteCurrent

\* An invitation that goes on without a write of table member.
LEMMA InviteOnCurrent ==
  ASSUME MemberInv, TypeInv', NEW r \in Client, req[r].pc \in Inviting, NEW pc \in Inviting,
         Continue(r, pc), UNCHANGED <<members, clan>>, accounts \subseteq accounts',
         pc \in Registered => req[r].target \in accounts',
         r \notin overtaken /\ pc \in {"delete", "findClan", "createInvitation", "createMember"}
           => Live(req[r].target) = {},
         r \notin overtaken /\ pc \in {"createInvitation", "createMember"} => clan = "live",
         pc # "isEmailInDeletedMembers"
  PROVE  MemberInv'
<1> DEFINE q == req[r]
<1>0. /\ q \in Request /\ RequestOK(q) /\ (r \notin overtaken => Current(r))
  BY DEF MemberInv, TypeInv, TypeOK
<1>1. /\ req'[r] = [q EXCEPT !.pc = pc] /\ overtaken' = overtaken
      /\ \A p \in Client \ {r} : req'[p] = req[p]
  BY DEF Continue, MemberInv, TypeInv, TypeOK
<1>2. req'[r].pc = pc /\ req'[r].op = "inviteMember" /\ req'[r].target = q.target
  BY <1>0, <1>1 DEF Request, RequestOK
<1>3. q.op = "inviteMember" /\ CallerChecked(q)
  BY <1>0 DEF RequestOK, CallerChecked, Inviting
<1>4. Holds(r)'
  BY <1>2 DEF Holds, Inviting
<1>5. ASSUME r \notin overtaken PROVE Current(r)'
  <2>1. CallerMay(r)
    BY <1>0, <1>3, <1>5 DEF Current
  <2>2. \A v : Live(v)' = Live(v)
    BY DEF Live, Rows
  <2>3. CallerMay(r)'
    BY <1>2, <1>3, <2>1, <2>2 DEF CallerMay, MayCall
  <2> QED
    BY <1>2, <1>5, <2>2, <2>3 DEF Current, Inviting
<1> QED
  BY <1>1, <1>4, <1>5, ReadFrame

\* The rows deleted are not the caller's: a caller who invites himself is a member,
\* and is refused before.
LEMMA DeleteCurrent ==
  ASSUME MemberInv, TypeInv', NEW r \in Client, Delete(r)
  PROVE  MemberInv'
<1> DEFINE q == req[r]
<1>0. /\ members \in Seq(Row) /\ q \in Request /\ RequestOK(q) /\ Holds(r)
      /\ (r \notin overtaken => Current(r))
  BY DEF MemberInv, TypeInv, TypeOK
<1>1. q.pc = "delete" /\ q.op = "inviteMember" /\ q.target \in User /\ q.target \in accounts
  BY <1>0 DEF Delete, RequestOK, Inviting, Holds, Registered
<1>2. members' = [id \in DOMAIN members |-> IF id \in Rows(q.target) THEN Gone ELSE members[id]]
  BY DEF Delete
<1>3. Touches(q.target)
  BY <1>0, <1>1, <1>2, DeleteTouches
<1>4. /\ req'[r] = [q EXCEPT !.pc = "findClan"]
      /\ \A p \in Client \ {r} : req'[p] = req[p]
      /\ overtaken' = overtaken \cup Overtakes(r, q.target)
  BY DEF Delete, WriteAndContinue, MemberInv, TypeInv, TypeOK
<1>5. req'[r].pc = "findClan" /\ req'[r].op = "inviteMember" /\ req'[r].target = q.target
  BY <1>0, <1>1, <1>4 DEF Request
<1>6. Holds(r)'
  BY <1>1, <1>5 DEF Holds, Delete
<1>7. ASSUME r \notin overtaken' PROVE Current(r)'
  <2>1. CallerMay(r) /\ Live(q.target) = {}
    BY <1>0, <1>1, <1>4, <1>7 DEF Current, CallerChecked
  <2>2. r # q.target /\ r # Nobody
    BY <2>1 DEF CallerMay
  <2>3. Live(r)' = Live(r) /\ \A id \in Live(r) : members'[id] = members[id]
    BY <1>3, <2>2, TouchedRows DEF Live
  <2>4. CallerMay(r)'
    BY <1>1, <1>5, <2>1, <2>3 DEF CallerMay, MayCall
  <2>5. Live(q.target)' = {}
    BY <1>1, <1>2, <1>5 DEF Live, Rows, Gone, User
  <2> QED
    BY <1>5, <2>4, <2>5 DEF Current
<1> QED
  BY <1>1, <1>3, <1>4, <1>6, <1>7, WriteFrame DEF Delete

LEMMA IsEmailInClanCurrent ==
  ASSUME MemberInv, TypeInv', NEW r \in Client, IsEmailInClan(r)
  PROVE  MemberInv'
<1> DEFINE q == req[r]
           found == Live(q.target) # {}
<1>0. /\ q \in Request /\ RequestOK(q) /\ Holds(r) /\ (r \notin overtaken => Current(r))
  BY DEF MemberInv, TypeInv, TypeOK
<1>1. found \in BOOLEAN /\ (found <=> Live(q.target) # {})
  OBVIOUS
<1>2. /\ req'[r] = [q EXCEPT !.pc = "isEmailInDeletedMembers", !.inClan = found]
      /\ \A p \in Client \ {r} : req'[p] = req[p]
  BY DEF IsEmailInClan, MemberInv, TypeInv, TypeOK
<1> HIDE DEF found
<1>3. /\ req'[r].pc = "isEmailInDeletedMembers" /\ req'[r].op = q.op
      /\ req'[r].target = q.target /\ req'[r].inClan = found
  BY <1>0, <1>2 DEF Request
<1>4. q.op = "inviteMember" /\ q.pc = "isEmailInClan"
  BY <1>0 DEF IsEmailInClan, RequestOK, Inviting
<1>5. Holds(r)'
  BY <1>0, <1>3, <1>4 DEF Holds, Registered, IsEmailInClan
<1>6. ASSUME r \notin overtaken PROVE Current(r)'
  <2>1. CallerMay(r)
    BY <1>0, <1>4, <1>6 DEF Current, CallerChecked
  <2>2. \A v : Live(v)' = Live(v)
    BY DEF Live, Rows, IsEmailInClan
  <2>3. CallerMay(r)'
    BY <1>3, <1>4, <2>1, <2>2 DEF CallerMay, MayCall, IsEmailInClan
  <2>4. Live(req[r].target)' = Live(q.target)
    BY <1>3, <2>2
  <2>5. req'[r].inClan = (Live(req[r].target)' # {})
    BY <1>1, <1>3, <2>4
  <2> QED
    BY <1>3, <1>4, <2>3, <2>5 DEF Current
<1> QED
  BY <1>2, <1>5, <1>6, ReadFrame DEF IsEmailInClan

LEMMA InviteCurrent ==
  ASSUME MemberInv, TypeInv', NEW r \in Client,
         \/ CheckEmailMemberExists(r) \/ RegisterNotOtp(r) \/ IsEmailInClan(r)
         \/ IsEmailInDeletedMembers(r) \/ Delete(r) \/ FindClan(r) \/ CreateInvitation(r)
         \/ CreateMember(r)
  PROVE  MemberInv'
<1> DEFINE q == req[r]
<1>0. /\ members \in Seq(Row) /\ q \in Request /\ RequestOK(q) /\ Holds(r)
      /\ (r \notin overtaken => Current(r))
      /\ \A u \in User : Rows(u) # {} => u \in accounts
  BY DEF MemberInv, TypeInv, TypeOK
<1>1. CASE CheckEmailMemberExists(r)
  <2>1. PICK pc \in {"isEmailInClan", "register"} :
          Continue(r, pc) /\ (pc = "isEmailInClan" => q.target \in accounts)
    BY <1>1 DEF CheckEmailMemberExists, AfterCheckEmail
  <2> QED
    BY <1>1, <2>1, InviteOnCurrent DEF CheckEmailMemberExists, Inviting, Registered
<1>2. CASE RegisterNotOtp(r)
  <2>1. CASE q.target \in accounts
    BY <1>2, <2>1, FinishCurrent DEF RegisterNotOtp
  <2>2. CASE q.target \notin accounts
    <3>1. q.target \in User
      BY <1>0, <1>2 DEF RegisterNotOtp, RequestOK
    <3>2. Live(q.target) = {}
      BY <1>0, <2>2, <3>1 DEF Live
    <3> QED
      BY <1>2, <2>2, <3>2, InviteOnCurrent DEF RegisterNotOtp, Inviting
  <2> QED
    BY <2>1, <2>2
<1>3. CASE IsEmailInDeletedMembers(r)
  <2>1. CASE q.inClan
    BY <1>3, <2>1, FinishCurrent DEF IsEmailInDeletedMembers
  <2>2. CASE ~q.inClan
    <3>1. PICK pc \in {"delete", "findClan"} : Continue(r, pc)
      BY <1>3, <2>2 DEF IsEmailInDeletedMembers
    <3>2. q.target \in accounts
      BY <1>0, <1>3 DEF Holds, IsEmailInDeletedMembers, Registered
    <3>3. r \notin overtaken => Live(q.target) = {}
      BY <1>0, <1>3, <2>2 DEF Current, IsEmailInDeletedMembers
    <3> QED
      BY <1>3, <3>1, <3>2, <3>3, InviteOnCurrent DEF IsEmailInDeletedMembers, Inviting
  <2> QED
    BY <2>1, <2>2
<1>4. CASE FindClan(r)
  <2>1. CASE clan = "live"
    <3>1. q.target \in accounts /\ (r \notin overtaken => Live(q.target) = {})
      BY <1>0, <1>4 DEF Holds, Current, FindClan, Registered
    <3> QED
      BY <1>4, <2>1, <3>1, InviteOnCurrent DEF FindClan, Inviting
  <2>2. CASE clan # "live"
    BY <1>4, <2>2, FinishCurrent DEF FindClan
  <2> QED
    BY <2>1, <2>2
<1>5. CASE CreateInvitation(r)
  <2>1. /\ q.target \in accounts
        /\ r \notin overtaken => Live(q.target) = {} /\ clan = "live"
    BY <1>0, <1>5 DEF Holds, Current, CreateInvitation, Registered
  <2> QED
    BY <1>5, <2>1, InviteOnCurrent DEF CreateInvitation, Inviting
<1>6. CASE CreateMember(r)
  <2>1. q.target \in User /\ q.role \in Role /\ q.target \in accounts
    BY <1>0, <1>6 DEF CreateMember, RequestOK, Inviting, Holds, Registered
  <2>2. Touches(q.target)
    BY <1>0, <1>6, <2>1, InsertTouches DEF CreateMember
  <2> QED
    BY <1>6, <2>1, <2>2, WriteAndFinishCurrent DEF CreateMember
<1> QED
  BY <1>1, <1>2, <1>3, <1>4, <1>5, <1>6, DeleteCurrent, IsEmailInClanCurrent

LEMMA RemoveClanCurrent ==
  ASSUME MemberInv, TypeInv', RemoveClan
  PROVE  MemberInv'
<1>1. UNCHANGED <<members, accounts, req>> /\ overtaken \subseteq overtaken'
  BY DEF RemoveClan
<1>2. \A v : Rows(v)' = Rows(v) /\ Live(v)' = Live(v)
  BY <1>1 DEF Rows, Live
<1>3. ASSUME NEW r \in Client PROVE Holds(r)'
  BY <1>1 DEF MemberInv, Holds, CallerChecked
<1>4. ASSUME NEW r \in Client, r \notin overtaken' PROVE Current(r)'
  <2>1. Current(r) /\ req[r].pc \notin {"insertOwner", "createInvitation", "createMember"}
    BY <1>1, <1>4 DEF MemberInv, RemoveClan
  <2>2. CallerMay(r) => CallerMay(r)'
    BY <1>1, <1>2 DEF CallerMay, MayCall
  <2> QED
    BY <1>1, <1>2, <2>1, <2>2 DEF Current, CallerChecked
<1> QED
  BY <1>1, <1>2, <1>3, <1>4 DEF MemberInv

LEMMA MemberInvNext ==
  ASSUME MemberInv, [Next]_vars
  PROVE  MemberInv'
<1>0. TypeInv'
  BY TypeInvNext DEF MemberInv
<1>1. ASSUME NEW r \in Client, Step(r) PROVE MemberInv'
  <2>1. CASE Abort(r)
    BY <1>0, <2>1, FinishCurrent DEF Abort
  <2> QED
    BY <1>0, <1>1, <2>1, CreateCurrent, LookupCurrent, WriteCurrent, InviteCurrent DEF Step
<1>2. CASE UNCHANGED vars
  <2>1. \A v : Rows(v)' = Rows(v) /\ Live(v)' = Live(v)
    BY <1>2 DEF vars, Rows, Live
  <2>2. ASSUME NEW r \in Client PROVE Holds(r)'
    BY <1>2 DEF vars, MemberInv, Holds, CallerChecked
  <2>3. ASSUME NEW r \in Client, r \notin overtaken' PROVE Current(r)'
    <3>1. Current(r)
      BY <1>2, <2>3 DEF vars, MemberInv
    <3>2. CallerMay(r) => CallerMay(r)'
      BY <1>2, <2>1 DEF vars, CallerMay, MayCall
    <3> QED
      BY <1>2, <2>1, <3>1, <3>2 DEF vars, Current, CallerChecked
  <2> QED
    BY <1>0, <1>2, <2>1, <2>2, <2>3 DEF vars, MemberInv
<1> QED
  BY <1>0, <1>1, <1>2, RemoveClanCurrent DEF Next

\* For any number of clients and rows, a request that no other overtook still knows at
\* every await what it has read of table member, and rows belong to users with an account.
THEOREM RequestsStayCurrent == Spec => []RequestsAreCurrent
<1>1. MemberInv => RequestsAreCurrent
  BY DEF MemberInv, RequestsAreCurrent, Current
<1> QED
  BY <1>1, MemberInvInit, MemberInvNext, PTL DEF Spec

-----------------------------------------------------------------------------
(* What a step does to the table *)

\* A save brings no row of a user to life or to an end, and takes no row from its user.
LEMMA SavedRowKeeps ==
  ASSUME NEW old \in Row, NEW role \in Role \cup {NoRole}
  PROVE  LET new == SavedRow(old, role)
         IN  /\ new.state # "gone"
             /\ old.state = "gone" => new.user = Nobody
             /\ old.state # "gone" => new.state = old.state /\ new.user = old.user
             /\ old.state # "gone" /\ role # NoRole => new.role = role
<1>1. CASE old.state = "gone"
  BY <1>1 DEF SavedRow, NewRow
<1>2. CASE old.state # "gone" /\ role = NoRole
  BY <1>2 DEF SavedRow
<1>3. CASE old.state # "gone" /\ role # NoRole
  <2>1. SavedRow(old, role) = [old EXCEPT !.role = role]
    BY <1>3 DEF SavedRow
  <2> QED
    BY <1>3, <2>1 DEF Row
<1> QED
  BY <1>1, <1>2, <1>3

Inserts(r) ==
  \/ InsertOwner(r) /\ members' = Append(members, NewRow(r, "OWNER"))
  \/ CreateMember(r) /\ members' = Append(members, NewRow(req[r].target, req[r].role))

Saves(r) == \E id \in DOMAIN members, role \in Role \cup {NoRole} :
  /\ members' = Saved(id, role)
  /\ \/ Promote(r) /\ id = req[r].row /\ role = "OWNER"
     \/ Demote(r) /\ id = req[r].own /\ role = "ADMIN"
     \/ SaveRole(r)

Takes(r) ==
  \/ /\ SoftDelete(r)
     /\ members' = [id \in DOMAIN members |->
                      IF id \in Rows(req[r].target)
                      THEN [members[id] EXCEPT !.state = "soft"] ELSE members[id]]
  \/ /\ Delete(r)
     /\ members' = [id \in DOMAIN members |->
                      IF id \in Rows(req[r].target) THEN Gone ELSE members[id]]

LEMMA MembersChange ==
  ASSUME MemberInv, [Next]_vars
  PROVE  members' = members \/ \E r \in Client : Inserts(r) \/ Saves(r) \/ Takes(r)
<1>1. ASSUME NEW r \in Client, Promote(r) \/ Demote(r) \/ SaveRole(r) PROVE Saves(r)
  <2>0. req[r] \in Request /\ RequestOK(req[r]) /\ Holds(r)
    BY DEF MemberInv, TypeInv, TypeOK
  <2>1. CASE Promote(r)
    <3>1. req[r].row \in DOMAIN members
      BY <2>0, <2>1 DEF Promote, Holds
    <3> QED
      BY <2>1, <3>1 DEF Promote, Saves, Role
  <2>2. CASE Demote(r)
    <3>1. req[r].own \in DOMAIN members
      BY <2>0, <2>2 DEF Demote, Holds, RequestOK, CallerChecked
    <3> QED
      BY <2>2, <3>1 DEF Demote, Saves, Role
  <2>3. CASE SaveRole(r)
    <3>1. req[r].row \in DOMAIN members /\ req[r].role \in Role \cup {NoRole}
      BY <2>0, <2>3 DEF SaveRole, Holds, Request
    <3> QED
      BY <2>3, <3>1 DEF SaveRole, Saves
  <2> QED
    BY <1>1, <2>1, <2>2, <2>3
<1>2. ASSUME NEW r \in Client, InsertOwner(r) \/ CreateMember(r) PROVE Inserts(r)
  BY <1>2 DEF InsertOwner, CreateMember, Inserts
<1>3. ASSUME NEW r \in Client, SoftDelete(r) \/ Delete(r) PROVE Takes(r)
  BY <1>3 DEF SoftDelete, Delete, Takes
<1>4. ASSUME NEW r \in Client,
             \/ Create(r) \/ BeginInviteMember(r) \/ BeginRemoveMember(r)
             \/ BeginChangeOwner(r) \/ BeginUpdateMember(r) \/ LookupCaller(r)
             \/ LookupTarget(r) \/ CheckEmailMemberExists(r) \/ RegisterNotOtp(r)
             \/ IsEmailInClan(r) \/ IsEmailInDeletedMembers(r) \/ FindClan(r)
             \/ CreateInvitation(r) \/ Abort(r)
      PROVE  members' = members
  BY <1>4 DEF Create, BeginInviteMember, BeginRemoveMember, BeginChangeOwner,
    BeginUpdateMember, LookupCaller, LookupTarget, FindCaller, FindTarget,
    CheckEmailMemberExists, RegisterNotOtp, IsEmailInClan, IsEmailInDeletedMembers,
    FindClan, CreateInvitation, Abort
<1>5. ASSUME NEW r \in Client, Step(r)
      PROVE  members' = members \/ Inserts(r) \/ Saves(r) \/ Takes(r)
  BY <1>1, <1>2, <1>3, <1>4, <1>5 DEF Step
<1> QED
  BY <1>5 DEF Next, RemoveClan, vars

-----------------------------------------------------------------------------
(* Live rows are kept *)

LEMMA LiveRowsStep ==
  ASSUME MemberInv, [Next]_vars, NEW id \in DOMAIN members
  PROVE  /\ members[id].state = "live" /\ members'[id].state = "gone"
              => \E r \in overtaken : Delete(r)
         /\ members[id].state # "live" /\ members'[id].state = "live"
              => members'[id].user = Nobody
<1>0. members \in Seq(Row) /\ members[id] \in Row /\ overtaken \subseteq Client
  BY DEF MemberInv, TypeInv, TypeOK
<1>1. CASE members' = members
  BY <1>1
<1>2. ASSUME NEW r \in Client, Inserts(r) PROVE members'[id] = members[id]
  BY <1>0, <1>2 DEF Inserts
<1>3. ASSUME NEW r \in Client, Saves(r)
      PROVE  /\ members[id].state = "live" => members'[id].state # "gone"
             /\ members[id].state # "live" /\ members'[id].state = "live"
                  => members'[id].user = Nobody
  <2>1. PICK i \in DOMAIN members, role \in Role \cup {NoRole} : members' = Saved(i, role)
    BY <1>3 DEF Saves
  <2>2. members'[id] = IF id = i THEN SavedRow(members[id], role) ELSE members[id]
    BY <2>1 DEF Saved
  <2> QED
    BY <1>0, <2>2, SavedRowKeeps DEF Row
<1>4. ASSUME NEW r \in Client, Takes(r)
      PROVE  /\ members[id].state = "live" /\ members'[id].state = "gone"
                  => r \in overtaken /\ Delete(r)
             /\ members[id].state # "live" => members'[id].state # "live"
  <2>1. CASE SoftDelete(r)
    <3>1. [members[id] EXCEPT !.state = "soft"].state = "soft"
      BY <1>0 DEF Row
    <3> QED
      BY <2>1, <3>1 DEF SoftDelete
  <2>2. CASE Delete(r)
    <3>1. members'[id] = IF id \in Rows(req[r].target) THEN Gone ELSE members[id]
      BY <2>2 DEF Delete
    <3>2. r \notin overtaken => Live(req[r].target) = {}
      BY <2>2 DEF MemberInv, Current, Delete
    <3> QED
      BY <2>2, <3>1, <3>2 DEF Live, Gone
  <2> QED
    BY <1>4, <2>1, <2>2 DEF Takes
<1> QED
  BY <1>1, <1>2, <1>3, <1>4, MembersChange

\* For any number of clients and rows, a live row is deleted for good only by an
\* invitation that was overtaken, and a row that ended does not come back to a user.
THEOREM LiveRowsStay == Spec => LiveRowsAreKept
<1>1. ASSUME MemberInv, [Next]_vars
      PROVE  [\A id \in DOMAIN members :
                /\ members[id].state = "live" /\ members'[id].state = "gone"
                     => \E r \in overtaken : Delete(r)
                /\ members[id].state # "live" /\ members'[id].state = "live"
                     => members'[id].user = Nobody]_vars
  BY <1>1, LiveRowsStep
<1> QED
  BY <1>1, MemberInvInit, MemberInvNext, PTL DEF Spec, LiveRowsAreKept

\* For any number of clients and rows, a request that was not overtaken writes a clan that
\* is there, on behalf of a caller who still holds the role for it.
THEOREM WritesAreAllowed == Spec => WritesWhereAllowed
<1>1. ASSUME MemberInv, [Next]_vars
      PROVE  [\A r \in Client \ overtaken :
                /\ CreateMember(r) \/ InsertOwner(r) => clan = "live"
                /\ CreateMember(r) \/ SoftDelete(r) \/ Promote(r) \/ SaveRole(r) \/ Delete(r)
                     => CallerMay(r)]_vars
  BY <1>1 DEF MemberInv, Current, CallerChecked, CreateMember, InsertOwner, SoftDelete,
              Promote, SaveRole, Delete
<1> QED
  BY <1>1, MemberInvInit, MemberInvNext, PTL DEF Spec, WritesWhereAllowed

-----------------------------------------------------------------------------
(* Owners *)

LEMMA LiveIsFinite ==
  ASSUME members \in Seq(Row), NEW u
  PROVE  IsFiniteSet(Live(u)) /\ Cardinality(Live(u)) \in Nat
<1>1. IsFiniteSet(1..Len(members))
  BY FS_Interval
<1>2. Live(u) \subseteq 1..Len(members)
  BY DEF Live, Rows
<1> QED
  BY <1>1, <1>2, FS_Subset, FS_CardinalityType

LEMMA TwoLive ==
  ASSUME members \in Seq(Row), NEW u, NEW i \in Live(u), NEW j \in Live(u), i # j
  PROVE  Cardinality(Live(u)) > 1
<1> DEFINE one == {i}
           two == one \cup {j}
<1>1. IsFiniteSet(one) /\ Cardinality(one) = 1
  BY FS_Singleton
<1>2. j \notin one /\ two \subseteq Live(u)
  OBVIOUS
<1> HIDE DEF one
<1>3. Cardinality(two) = Cardinality(one) + 1
  BY <1>1, <1>2, FS_AddElement, Zenon
<1> HIDE DEF two
<1>4. IsFiniteSet(Live(u)) /\ Cardinality(Live(u)) \in Nat
  BY LiveIsFinite
<1>5. Cardinality(two) <= Cardinality(Live(u))
  BY <1>2, <1>4, FS_Subset
<1> QED
  BY <1>1, <1>3, <1>4, <1>5

LEMMA OwnersStep ==
  ASSUME MemberInv, [Next]_vars, Owners # {}, Owners' = {}
  PROVE  \/ \E r \in Client : SaveRole(r)
         \/ \E r \in overtaken : Demote(r) \/ SoftDelete(r) \/ Delete(r)
         \/ \E r \in Client : SoftDelete(r) /\ Cardinality(Live(req[r].target)) > 1
<1>0. members \in Seq(Row) /\ overtaken \subseteq Client
  BY DEF MemberInv, TypeInv, TypeOK
<1>1. PICK o \in DOMAIN members : /\ members[o].user # Nobody /\ members[o].state = "live"
                                  /\ members[o].role = "OWNER"
  BY DEF Owners
<1>2. members[o] \in Row
  BY <1>0
<1>3. ASSUME o \in DOMAIN members', members'[o] = members[o] PROVE FALSE
  BY <1>1, <1>3 DEF Owners
<1>4. members' # members
  BY <1>3
<1>5. ASSUME NEW r \in Client, Inserts(r) PROVE FALSE
  BY <1>0, <1>3, <1>5 DEF Inserts
<1>6. ASSUME NEW r \in Client, Saves(r)
      PROVE  SaveRole(r) \/ (r \in overtaken /\ Demote(r))
  <2>1. PICK i \in DOMAIN members, role \in Role \cup {NoRole} :
          /\ members' = Saved(i, role)
          /\ \/ Promote(r) /\ i = req[r].row /\ role = "OWNER"
             \/ Demote(r) /\ i = req[r].own /\ role = "ADMIN"
             \/ SaveRole(r)
    BY <1>6 DEF Saves
  <2>2. /\ DOMAIN members' = DOMAIN members
        /\ \A x \in DOMAIN members :
             members'[x] = IF x = i THEN SavedRow(members[i], role) ELSE members[x]
    BY <2>1 DEF Saved
  <2>3. o = i
    BY <1>3, <2>2
  <2>4. ASSUME Promote(r), role = "OWNER" PROVE FALSE
    <3>1. /\ members'[o].user = members[o].user /\ members'[o].state = "live"
          /\ members'[o].role = "OWNER"
      BY <1>1, <1>2, <2>2, <2>3, <2>4, SavedRowKeeps
    <3> QED
      BY <1>1, <2>2, <3>1 DEF Owners
  <2>5. ASSUME Demote(r), i = req[r].own, r \notin overtaken PROVE FALSE
    <3>1. /\ Current(r) /\ Holds(r) /\ RequestOK(req[r]) /\ req[r].pc = "demote"
      BY <2>5 DEF MemberInv, TypeInv, Demote
    <3>2. /\ req[r].row \in Live(req[r].target) /\ members[req[r].row].role = "OWNER"
          /\ req[r].own \in Live(r) /\ req[r].target # r /\ req[r].target \in User
      BY <3>1 DEF Current, Holds, RequestOK, CallerChecked
    <3>3. req[r].row \in DOMAIN members /\ req[r].row # i
      BY <2>5, <3>2 DEF Live, Rows
    <3>4. members'[req[r].row] = members[req[r].row]
      BY <2>2, <3>3
    <3>5. members[req[r].row].user # Nobody /\ members[req[r].row].state = "live"
      BY <3>2 DEF Live, Rows, User
    <3> QED
      BY <2>2, <3>2, <3>3, <3>4, <3>5 DEF Owners
  <2> QED
    BY <2>1, <2>4, <2>5
<1>7. ASSUME NEW r \in Client, Takes(r)
      PROVE  \/ r \in overtaken /\ (SoftDelete(r) \/ Delete(r))
             \/ SoftDelete(r) /\ Cardinality(Live(req[r].target)) > 1
  <2>1. o \in Rows(req[r].target)
    BY <1>3, <1>7 DEF Takes
  <2>2. o \in Live(req[r].target)
    BY <1>1, <2>1 DEF Live
  <2>3. ASSUME SoftDelete(r), r \notin overtaken PROVE Cardinality(Live(req[r].target)) > 1
    <3>1. PICK i \in Live(req[r].target) : members[i].role # "OWNER"
      BY <2>3 DEF MemberInv, Current, SoftDelete
    <3> QED
      BY <1>0, <1>1, <2>2, <3>1, TwoLive
  <2>4. ASSUME Delete(r), r \notin overtaken PROVE FALSE
    BY <2>2, <2>4 DEF MemberInv, Current, Delete
  <2> QED
    BY <1>7, <2>3, <2>4 DEF Takes
<1> QED
  BY <1>0, <1>4, <1>5, <1>6, <1>7, MembersChange

\* For any number of clients and rows, a clan loses its last owner only when he is given
\* another role, by a request that was overtaken, or by the removal of one of his rows
\* that found another.
THEOREM OwnerLossIsExplained == Spec => OwnerLossCauses
<1>1. ASSUME MemberInv, [Next]_vars
      PROVE  [Owners # {} /\ Owners' = {} =>
                \/ \E r \in Client : SaveRole(r)
                \/ \E r \in overtaken : Demote(r) \/ SoftDelete(r) \/ Delete(r)
                \/ \E r \in Client : SoftDelete(r) /\ Cardinality(Live(req[r].target)) > 1]_vars
  BY <1>1, OwnersStep
<1> QED
  BY <1>1, MemberInvInit, MemberInvNext, PTL DEF Spec, OwnerLossCauses

-----------------------------------------------------------------------------
(* Duplicates *)

\* Until the first owner is inserted the clan has no members, and nobody but its maker
\* has a request in flight: every other one is refused at its first lookup.
BeforeOwner ==
  /\ clan = "none" => members = <<>> /\ \A q \in Client : req[q].pc = "idle"
  /\ \A r \in Client : req[r].pc = "insertOwner" =>
       members = <<>> /\ \A q \in Client \ {r} : req[q].pc = "idle"

LEMMA EmptyHasNoLive ==
  ASSUME members = <<>>
  PROVE  \A u : Live(u) = {}
BY DEF Live, Rows

LEMMA BeforeOwnerFinish ==
  ASSUME MemberInv, BeforeOwner, NEW r \in Client, req'[r].pc = "idle",
         \A q \in Client \ {r} : req'[q] = req[q], UNCHANGED clan,
         members' = members \/ req[r].pc # "idle"
  PROVE  BeforeOwner'
BY DEF BeforeOwner

\* A request past its first lookup: the clan is not new any more, and its owner is there.
LEMMA BeforeOwnerLater ==
  ASSUME MemberInv, BeforeOwner, NEW r \in Client,
         clan # "none", \A q \in Client : req[q].pc # "insertOwner",
         req'[r].pc # "insertOwner", \A q \in Client \ {r} : req'[q] = req[q], UNCHANGED clan
  PROVE  BeforeOwner'
BY DEF BeforeOwner

LEMMA BeforeOwnerLookup ==
  ASSUME MemberInv, BeforeOwner, NEW r \in Client, NEW q \in Request, q.op \in Looking,
         req[r].pc # "insertOwner",
         \/ FindCaller(r, q)
         \/ FindTarget(r, q) /\ q.op # "inviteMember"
  PROVE  BeforeOwner'
<1>0. UNCHANGED <<members, clan>> /\ req \in [Client -> Request]
  BY DEF FindCaller, FindTarget, MemberInv, TypeInv, TypeOK
<1>1. CASE Finish(r)
  <2>1. req'[r].pc = "idle" /\ \A p \in Client \ {r} : req'[p] = req[p]
    BY <1>0, <1>1 DEF Finish, Idle, Begun
  <2> QED
    BY <1>0, <2>1, BeforeOwnerFinish
<1>2. CASE ~Finish(r)
  <2>1. members # <<>>
    BY <1>2, EmptyHasNoLive DEF FindCaller, FindTarget
  <2>2. /\ req'[r].pc # "insertOwner"
        /\ \A p \in Client \ {r} : req'[p] = req[p]
    <3>1. CASE FindCaller(r, q)
      <4>1. PICK id \in Live(r) : req' = [req EXCEPT ![r] =
              [q EXCEPT !.pc = AfterCaller(q.op), !.own = IF q.op = "changeOwner" THEN id ELSE 0]]
        BY <1>2, <3>1 DEF FindCaller
      <4> DEFINE own == IF q.op = "changeOwner" THEN id ELSE 0
                 next == [q EXCEPT !.pc = AfterCaller(q.op), !.own = own]
      <4>2. next.pc = AfterCaller(q.op)
        BY DEF Request
      <4>3. req' = [req EXCEPT ![r] = next]
        BY <4>1
      <4> HIDE DEF next
      <4> QED
        BY <1>0, <4>2, <4>3 DEF AfterCaller
    <3>2. CASE FindTarget(r, q) /\ q.op # "inviteMember"
      <4>1. PICK id \in Live(q.target) : req' = [req EXCEPT ![r] =
              [q EXCEPT !.pc = AfterTarget(q.op), !.row = IF q.op = "removeMember" THEN 0 ELSE id]]
        BY <1>2, <3>2 DEF FindTarget
      <4> DEFINE row == IF q.op = "removeMember" THEN 0 ELSE id
                 next == [q EXCEPT !.pc = AfterTarget(q.op), !.row = row]
      <4>2. next.pc = AfterTarget(q.op)
        BY DEF Request
      <4>3. req' = [req EXCEPT ![r] = next]
        BY <4>1
      <4> HIDE DEF next
      <4> QED
        BY <1>0, <3>2, <4>2, <4>3 DEF AfterTarget, Looking
    <3> QED
      BY <3>1, <3>2
  <2> QED
    BY <1>0, <2>1, <2>2, BeforeOwnerLater DEF BeforeOwner
<1> QED
  BY <1>1, <1>2

LEMMA BeforeOwnerNext ==
  ASSUME MemberInv, BeforeOwner, [Next]_vars
  PROVE  BeforeOwner'
<1>0. req \in [Client -> Request]
  BY DEF MemberInv, TypeInv, TypeOK
<1>1. ASSUME NEW r \in Client, Create(r) PROVE BeforeOwner'
  <2>1. /\ clan = "none" /\ clan' = "live" /\ members' = members
        /\ \A q \in Client \ {r} : req'[q] = req[q]
    BY <1>0, <1>1 DEF Create
  <2> QED
    BY <2>1 DEF BeforeOwner
<1>2. ASSUME NEW r \in Client,
             \/ BeginInviteMember(r) \/ BeginRemoveMember(r) \/ BeginChangeOwner(r)
             \/ BeginUpdateMember(r) \/ LookupCaller(r) \/ LookupTarget(r)
      PROVE  BeforeOwner'
  <2>1. ASSUME NEW op \in Looking, NEW u \in User, NEW role \in Role \cup {NoRole}
        PROVE  Begun(op, "idle", u, role) \in Request /\ Begun(op, "idle", u, role).op = op
    BY <2>1 DEF Begun, Request, Looking, Op, PC
  <2>2. InviteRoles \subseteq Role \cup {NoRole} /\ EditRoles \subseteq Role \cup {NoRole}
    BY DEF Role
  <2>3. req[r] \in Request /\ RequestOK(req[r])
    BY DEF MemberInv, TypeInv, TypeOK
  <2>4. req[r].pc # "insertOwner"
    BY <1>2 DEF BeginInviteMember, BeginRemoveMember, BeginChangeOwner, BeginUpdateMember,
      LookupCaller, LookupTarget
  <2>5. PICK q \in Request : /\ q.op \in Looking
                             /\ \/ FindCaller(r, q)
                                \/ FindTarget(r, q) /\ q.op # "inviteMember"
    <3>1. CASE BeginInviteMember(r)
      BY <2>1, <2>2, <3>1 DEF BeginInviteMember, Looking
    <3>2. CASE BeginRemoveMember(r)
      BY <2>1, <3>2 DEF BeginRemoveMember, Looking
    <3>3. CASE BeginChangeOwner(r)
      BY <2>1, <3>3 DEF BeginChangeOwner, Looking
    <3>4. CASE BeginUpdateMember(r)
      BY <2>1, <2>2, <3>4 DEF BeginUpdateMember, Looking
    <3>5. CASE LookupCaller(r)
      BY <2>3, <3>5 DEF LookupCaller, RequestOK, Looking
    <3>6. CASE LookupTarget(r)
      BY <2>3, <3>6 DEF LookupTarget, RequestOK, Looking
    <3> QED
      BY <1>2, <3>1, <3>2, <3>3, <3>4, <3>5, <3>6
  <2> QED
    BY <2>4, <2>5, BeforeOwnerLookup
<1>3. ASSUME NEW r \in Client,
             InsertOwner(r) \/ SoftDelete(r) \/ Demote(r) \/ SaveRole(r) \/ CreateMember(r)
               \/ Abort(r)
      PROVE  BeforeOwner'
  <2>1. req'[r].pc = "idle" /\ \A q \in Client \ {r} : req'[q] = req[q]
    BY <1>0, <1>3 DEF InsertOwner, SoftDelete, Demote, SaveRole, CreateMember, Abort,
      Finish, WriteAndFinish, Idle, Begun
  <2>2. UNCHANGED clan /\ req[r].pc # "idle"
    BY <1>3 DEF InsertOwner, SoftDelete, Demote, SaveRole, CreateMember, Abort
  <2>3. CASE Abort(r)
    BY <2>1, <2>2, <2>3, BeforeOwnerFinish DEF Abort
  <2>4. CASE ~Abort(r)
    BY <1>3, <2>1, <2>2, <2>4, BeforeOwnerFinish
  <2> QED
    BY <2>3, <2>4
<1>4. ASSUME NEW r \in Client,
             \/ Promote(r) \/ CheckEmailMemberExists(r) \/ RegisterNotOtp(r)
             \/ IsEmailInClan(r) \/ IsEmailInDeletedMembers(r) \/ Delete(r) \/ FindClan(r)
             \/ CreateInvitation(r)
      PROVE  BeforeOwner'
  <2>0. req[r] \in Request
    BY <1>0
  <2>1. /\ req'[r].pc # "insertOwner"
        /\ \A q \in Client \ {r} : req'[q] = req[q]
    <3>1. ASSUME NEW pc, Continue(r, pc) \/ WriteAndContinue(r, req[r].target, pc),
                 pc # "insertOwner"
          PROVE  /\ req'[r].pc # "insertOwner"
                 /\ \A q \in Client \ {r} : req'[q] = req[q]
      BY <1>0, <2>0, <3>1 DEF Continue, WriteAndContinue, Request
    <3>2. ASSUME Finish(r)
          PROVE  /\ req'[r].pc # "insertOwner"
                 /\ \A q \in Client \ {r} : req'[q] = req[q]
      BY <1>0, <3>2 DEF Finish, Idle, Begun
    <3>3. CASE IsEmailInClan(r)
      BY <1>0, <2>0, <3>3 DEF IsEmailInClan, Request
    <3>4. CASE ~IsEmailInClan(r)
      <4>1. Finish(r) \/ \E pc \in PC \ {"insertOwner"} :
              Continue(r, pc) \/ WriteAndContinue(r, req[r].target, pc)
        BY <1>4, <3>4 DEF Promote, CheckEmailMemberExists, AfterCheckEmail, RegisterNotOtp,
          IsEmailInDeletedMembers, Delete, FindClan, CreateInvitation, PC
      <4> QED
        BY <3>1, <3>2, <4>1
    <3> QED
      BY <3>3, <3>4
  <2>2. UNCHANGED clan /\ req[r].pc \notin {"idle", "insertOwner"}
    BY <1>4 DEF Promote, CheckEmailMemberExists, RegisterNotOtp, IsEmailInClan,
      IsEmailInDeletedMembers, Delete, FindClan, CreateInvitation
  <2>3. clan # "none" /\ \A q \in Client : req[q].pc # "insertOwner"
    BY <2>2 DEF BeforeOwner
  <2> QED
    BY <1>0, <2>1, <2>2, <2>3, BeforeOwnerLater
<1>5. CASE RemoveClan
  BY <1>5 DEF RemoveClan, BeforeOwner
<1>6. CASE UNCHANGED vars
  BY <1>6 DEF vars, BeforeOwner
<1> QED
  BY <1>1, <1>2, <1>3, <1>4, <1>5, <1>6 DEF Next, Step

LEMMA DuplicatesStep ==
  ASSUME MemberInv, BeforeOwner, [Next]_vars, NEW u \in User,
         Cardinality(Live(u)) <= 1, Cardinality(Live(u)') > 1
  PROVE  \E r \in overtaken : CreateMember(r) /\ req[r].target = u
<1>0. /\ members \in Seq(Row) /\ members' \in Seq(Row) /\ overtaken \subseteq Client
      /\ u # Nobody
  BY TypeInvNext DEF MemberInv, TypeInv, TypeOK, User
<1>1. IsFiniteSet(Live(u)) /\ Cardinality(Live(u)) \in Nat
  BY <1>0, LiveIsFinite
<1>2. ASSUME Live(u)' \subseteq Live(u) PROVE FALSE
  BY <1>1, <1>2, FS_Subset, FS_CardinalityType
<1>3. ASSUME NEW x, Live(u)' \subseteq {x} PROVE FALSE
  <2>1. IsFiniteSet({x}) /\ Cardinality({x}) = 1
    BY FS_Singleton
  <2>2. IsFiniteSet(Live(u)') /\ Cardinality(Live(u)') <= 1
    BY <1>3, <2>1, FS_Subset
  <2>3. Cardinality(Live(u)') \in Nat
    BY <2>2, FS_CardinalityType
  <2> QED
    BY <2>2, <2>3
<1>4. CASE members' = members
  BY <1>2, <1>4 DEF Live, Rows
<1>5. ASSUME NEW r \in Client, Inserts(r)
      PROVE  r \in overtaken /\ CreateMember(r) /\ req[r].target = u
  <2>1. ASSUME NEW v, NEW role, members' = Append(members, NewRow(v, role))
        PROVE  /\ v # u => Live(u)' \subseteq Live(u)
               /\ Live(u)' \subseteq Live(u) \cup {Len(members) + 1}
    BY <1>0, <2>1 DEF Live, Rows, NewRow
  <2>2. CASE InsertOwner(r)
    <3>1. members = <<>>
      BY <2>2 DEF BeforeOwner, InsertOwner
    <3>2. Live(u) = {}
      BY <3>1, EmptyHasNoLive
    <3>3. members' = Append(members, NewRow(r, "OWNER"))
      BY <2>2 DEF InsertOwner
    <3>4. Live(u)' \subseteq {Len(members) + 1}
      BY <2>1, <3>2, <3>3
    <3> QED
      BY <1>3, <3>4
  <2>3. CASE CreateMember(r)
    <3>1. members' = Append(members, NewRow(req[r].target, req[r].role))
      BY <2>3 DEF CreateMember
    <3>2. req[r].target = u
      BY <1>2, <2>1, <3>1
    <3>3. ASSUME r \notin overtaken PROVE FALSE
      <4>1. Live(u) = {}
        BY <2>3, <3>2, <3>3 DEF MemberInv, Current, CreateMember
      <4>2. Live(u)' \subseteq {Len(members) + 1}
        BY <2>1, <3>1, <4>1
      <4> QED
        BY <1>3, <4>2
    <3> QED
      BY <2>3, <3>2, <3>3
  <2> QED
    BY <1>5, <2>2, <2>3 DEF Inserts
<1>6. ASSUME NEW r \in Client, Saves(r) PROVE FALSE
  <2>1. PICK i \in DOMAIN members, role \in Role \cup {NoRole} : members' = Saved(i, role)
    BY <1>6 DEF Saves
  <2>2. DOMAIN members' = DOMAIN members
    BY <2>1 DEF Saved
  <2>3. ASSUME NEW x \in DOMAIN members, members'[x].user = u, members'[x].state = "live"
        PROVE  members[x].user = u /\ members[x].state = "live"
    <3>1. members'[x] = IF x = i THEN SavedRow(members[x], role) ELSE members[x]
      BY <2>1 DEF Saved
    <3>2. members[x] \in Row
      BY <1>0
    <3> QED
      BY <1>0, <2>3, <3>1, <3>2, SavedRowKeeps
  <2> QED
    BY <1>2, <2>2, <2>3 DEF Live, Rows
<1>7. ASSUME NEW r \in Client, Takes(r) PROVE FALSE
  <2>1. DOMAIN members' = DOMAIN members
    BY <1>7 DEF Takes
  <2>2. ASSUME NEW x \in DOMAIN members, members'[x].state = "live"
        PROVE  members'[x] = members[x]
    <3>1. members[x] \in Row
      BY <1>0
    <3>2. [members[x] EXCEPT !.state = "soft"].state = "soft"
      BY <3>1 DEF Row
    <3>3. Gone.state = "gone"
      BY DEF Gone
    <3>4. members'[x] \in {[members[x] EXCEPT !.state = "soft"], Gone, members[x]}
      BY <1>7 DEF Takes
    <3> QED
      BY <2>2, <3>2, <3>3, <3>4
  <2> QED
    BY <1>2, <2>1, <2>2 DEF Live, Rows
<1> QED
  BY <1>4, <1>5, <1>6, <1>7, MembersChange

\* For any number of clients and rows, a user comes to have two live rows only through an
\* invitation that another request overtook.
THEOREM DuplicatesAreExplained == Spec => DuplicateCauses
<1>1. Init => BeforeOwner
  BY DEF Init, BeforeOwner, Idle, Begun
<1>2. MemberInv /\ BeforeOwner /\ [Next]_vars => BeforeOwner'
  BY BeforeOwnerNext
<1>3. ASSUME MemberInv, BeforeOwner, [Next]_vars
      PROVE  [\A u \in User :
                Cardinality(Live(u)) <= 1 /\ Cardinality(Live(u)') > 1 =>
                  \E r \in overtaken : CreateMember(r) /\ req[r].target = u]_vars
  BY <1>3, DuplicatesStep
<1> QED
  BY <1>1, <1>2, <1>3, MemberInvInit, MemberInvNext, PTL DEF Spec, DuplicateCauses
-----------------------------------------------------------------------------
(* What the checks suffice for: a clan in which no invitation, removal or change of
   owner is overtaken keeps its members apart, and an owner *)

MembersUnique == \A u \in User : Cardinality(Live(u)) <= 1

OvertakenInvitation == \E r \in overtaken : CreateMember(r)

LEMMA UniqueNext ==
  ASSUME MemberInv, BeforeOwner, MembersUnique, [Next]_vars, [~OvertakenInvitation]_vars
  PROVE  MembersUnique'
<1> SUFFICES ASSUME NEW u \in User PROVE Cardinality(Live(u)') <= 1
  BY DEF MembersUnique
<1>0. members \in Seq(Row) /\ members' \in Seq(Row)
  BY TypeInvNext DEF MemberInv, TypeInv, TypeOK
<1>1. Cardinality(Live(u)) <= 1 /\ Cardinality(Live(u)) \in Nat
  BY <1>0, LiveIsFinite DEF MembersUnique
<1>2. CASE UNCHANGED vars
  BY <1>1, <1>2 DEF vars, Live, Rows
<1>3. CASE ~OvertakenInvitation
  <2>1. ~(Cardinality(Live(u)') > 1)
    BY <1>1, <1>3, DuplicatesStep DEF OvertakenInvitation
  <2>2. Live(u)' \subseteq 1..Len(members') /\ IsFiniteSet(1..Len(members'))
    BY <1>0, FS_Interval DEF Live, Rows
  <2>3. Cardinality(Live(u)') \in Nat
    BY <2>2, FS_Subset, FS_CardinalityType
  <2> QED
    BY <2>1, <2>3
<1> QED
  BY <1>2, <1>3

\* As long as no invitation that another request overtook adds its member, nobody is a
\* member twice: the checks of inviteMember suffice, without a unique key.
THEOREM MembersStayUnique == Spec /\ [][~OvertakenInvitation]_vars => []MembersUnique
<1>1. Init => MembersUnique
  <2>1. ASSUME Init, NEW u \in User PROVE Live(u) = {}
    BY <2>1, EmptyHasNoLive DEF Init
  <2> QED
    BY <2>1, FS_EmptySet DEF MembersUnique
<1>2. Init => BeforeOwner
  BY DEF Init, BeforeOwner, Idle, Begun
<1>3. MemberInv /\ BeforeOwner /\ [Next]_vars => BeforeOwner'
  BY BeforeOwnerNext
<1>4. MemberInv /\ BeforeOwner /\ MembersUnique /\ [Next]_vars /\ [~OvertakenInvitation]_vars
        => MembersUnique'
  BY UniqueNext
<1> QED
  BY <1>1, <1>2, <1>3, <1>4, MemberInvInit, MemberInvNext, PTL DEF Spec

\* Writes that may take the last owner's role: updateMember's, which checks nothing of
\* the kind, and those of requests that were overtaken.
Disowning ==
  \/ \E r \in Client : SaveRole(r)
  \/ \E r \in overtaken : Demote(r) \/ SoftDelete(r) \/ Delete(r)

\* As long as updateMember is not called and no other request is overtaken, a clan that
\* has an owner keeps one: changeOwner and removeMember never leave it without.
THEOREM OwnersRemain ==
  Spec /\ [][~OvertakenInvitation /\ ~Disowning]_vars => [](Owners # {} => [](Owners # {}))
<1>1. ASSUME MemberInv, MembersUnique, [Next]_vars, [~OvertakenInvitation /\ ~Disowning]_vars,
             Owners # {}, Owners' = {}
      PROVE  FALSE
  <2>1. CASE UNCHANGED vars
    BY <1>1, <2>1 DEF vars, Owners
  <2>2. CASE ~Disowning
    <3>1. PICK r \in Client : SoftDelete(r) /\ Cardinality(Live(req[r].target)) > 1
      BY <1>1, <2>2, OwnersStep DEF Disowning
    <3>2. req[r].target \in User
      BY <1>1, <3>1 DEF MemberInv, TypeInv, RequestOK, SoftDelete
    <3>3. members \in Seq(Row)
      BY <1>1 DEF MemberInv, TypeInv, TypeOK
    <3>4. Cardinality(Live(req[r].target)) <= 1 /\ Cardinality(Live(req[r].target)) \in Nat
      BY <1>1, <3>2, <3>3, LiveIsFinite DEF MembersUnique
    <3> QED
      BY <3>1, <3>4
  <2> QED
    BY <1>1, <2>1, <2>2
<1>2. MemberInv /\ MembersUnique /\ [Next]_vars /\ [~OvertakenInvitation /\ ~Disowning]_vars
        /\ Owners # {} => (Owners # {})'
  BY <1>1
<1>3. [~OvertakenInvitation /\ ~Disowning]_vars => [~OvertakenInvitation]_vars
  OBVIOUS
<1>4. Spec /\ [][~OvertakenInvitation /\ ~Disowning]_vars => []MembersUnique
  BY <1>3, MembersStayUnique, PTL
<1> QED
  BY <1>2, <1>4, MemberInvInit, MemberInvNext, PTL DEF Spec

-----------------------------------------------------------------------------
(* A clan without managers *)

LEMMA UnmanagedFinish ==
  ASSUME TypeInv, Unmanaged, NEW r \in Client, Finish(r), UNCHANGED <<members, clan, accounts>>
  PROVE  Unmanaged' /\ UNCHANGED <<members, accounts>>
<1>1. \A x \in Client : req'[x] = req[x] \/ req'[x] = Idle
  BY DEF Finish, TypeInv, TypeOK
<1>2. Idle.pc = "idle"
  BY DEF Idle, Begun
<1>3. \A u \in User : Live(u)' = Live(u)
  BY DEF Live, Rows
<1> QED
  BY <1>1, <1>2, <1>3 DEF Unmanaged, CallerChecked

\* Whoever asks is refused: his own rows, if he has any, do not admit him.
LEMMA UnmanagedCaller ==
  ASSUME TypeInv, Unmanaged, NEW r \in Client, NEW q, FindCaller(r, q)
  PROVE  Unmanaged' /\ UNCHANGED <<members, accounts>>
<1>1. \A id \in Live(r) : ~MayCall(r, q, members[id].role)
  BY DEF Unmanaged, User, MayCall
<1>2. Finish(r) /\ UNCHANGED <<members, clan, accounts>>
  BY <1>1, Zenon DEF FindCaller
<1> QED
  BY <1>2, UnmanagedFinish

\* updateMember looks up its target first, and its caller next.
LEMMA UnmanagedTarget ==
  ASSUME TypeInv, Unmanaged, NEW r \in Client, NEW q \in Request, q.op = "updateMember",
         FindTarget(r, q)
  PROVE  Unmanaged' /\ UNCHANGED <<members, accounts>>
<1>0. UNCHANGED <<members, clan, accounts>>
  BY Zenon DEF FindTarget
<1>1. CASE Finish(r)
  BY <1>0, <1>1, UnmanagedFinish
<1>2. CASE ~Finish(r)
  <2>1. PICK id \in Live(q.target) :
          /\ req' = [req EXCEPT ![r] =
                       [q EXCEPT !.pc = AfterTarget(q.op),
                                 !.row = IF q.op = "removeMember" THEN 0 ELSE id]]
          /\ UNCHANGED overtaken
    BY <1>2, Zenon DEF FindTarget
  <2> DEFINE next == [q EXCEPT !.pc = AfterTarget(q.op),
                               !.row = IF q.op = "removeMember" THEN 0 ELSE id]
  <2>2. next.pc = "findCaller"
    BY DEF Request, AfterTarget
  <2>3. req' = [req EXCEPT ![r] = next]
    BY <2>1
  <2> HIDE DEF next
  <2>4. \A x \in Client : req'[x] = req[x] \/ req'[x].pc = "findCaller"
    BY <2>2, <2>3 DEF TypeInv, TypeOK
  <2>5. \A v \in User : Live(v)' = Live(v)
    BY <1>0 DEF Live, Rows
  <2> QED
    BY <1>0, <2>4, <2>5 DEF Unmanaged, CallerChecked
<1> QED
  BY <1>1, <1>2

LEMMA UnmanagedStep ==
  ASSUME TypeInv, Unmanaged, [Next]_vars
  PROVE  Unmanaged' /\ UNCHANGED <<members, accounts>>
<1>1. \A r \in Client : req[r].pc \in {"idle", "findCaller"}
  BY DEF Unmanaged, CallerChecked
<1>2. ASSUME NEW r \in Client, Step(r)
      PROVE  Unmanaged' /\ UNCHANGED <<members, accounts>>
  <2>1. CASE BeginInviteMember(r) \/ BeginRemoveMember(r) \/ BeginChangeOwner(r) \/ LookupCaller(r)
    BY <2>1, UnmanagedCaller DEF BeginInviteMember, BeginRemoveMember, BeginChangeOwner, LookupCaller
  <2>2. CASE BeginUpdateMember(r)
    <3>1. PICK u \in User, role \in EditRoles :
            FindTarget(r, Begun("updateMember", "idle", u, role))
      BY <2>2 DEF BeginUpdateMember
    <3> DEFINE q == Begun("updateMember", "idle", u, role)
    <3>2. role \in Role \cup {NoRole}
      BY DEF Role
    <3>3. q \in Request /\ q.op = "updateMember"
      BY <3>2 DEF Begun, Request, Op, PC
    <3> QED
      BY <3>1, <3>3, UnmanagedTarget, Zenon
  <2>3. CASE Abort(r)
    BY <2>3, UnmanagedFinish DEF Abort
  <2>4. ~Create(r)
    BY DEF Create, Unmanaged
  <2>5. /\ ~InsertOwner(r) /\ ~LookupTarget(r) /\ ~SoftDelete(r) /\ ~Promote(r) /\ ~Demote(r)
        /\ ~SaveRole(r) /\ ~CheckEmailMemberExists(r) /\ ~RegisterNotOtp(r) /\ ~IsEmailInClan(r)
        /\ ~IsEmailInDeletedMembers(r) /\ ~Delete(r) /\ ~FindClan(r) /\ ~CreateInvitation(r)
        /\ ~CreateMember(r)
    BY <1>1 DEF InsertOwner, LookupTarget, SoftDelete, Promote, Demote, SaveRole,
                CheckEmailMemberExists, RegisterNotOtp, IsEmailInClan, IsEmailInDeletedMembers,
                Delete, FindClan, CreateInvitation, CreateMember
  <2> QED
    BY <1>2, <2>1, <2>2, <2>3, <2>4, <2>5 DEF Step
<1>3. CASE RemoveClan
  BY <1>3 DEF RemoveClan, Unmanaged, CallerChecked, Live, Rows
<1>4. CASE UNCHANGED vars
  BY <1>4 DEF vars, Unmanaged, CallerChecked, Live, Rows
<1> QED
  BY <1>2, <1>3, <1>4 DEF Next

\* A clan without owner and admin, in particular one whose creation failed half-way, never
\* comes to have one again and its members never change, however many people ask for it.
THEOREM UnmanagedClansStay == Spec => UnmanagedForGood
<1>1. ASSUME TypeInv, [Next]_vars
      PROVE  [Unmanaged => Unmanaged' /\ UNCHANGED <<members, accounts>>]_vars
  BY <1>1, UnmanagedStep
<1> QED
  BY <1>1, TypeInvInit, TypeInvNext, PTL DEF Spec, UnmanagedForGood
=============================================================================
