--------------------------- MODULE ClanMembership ---------------------------
(***************************************************************************)
(* The members of one clan: the membership endpoints of ClanController with *)
(* ClanService.inviteMember and MemberService.  Every query they make names *)
(* the clan, so the rows of other clans play no part.  As in ClanFund a     *)
(* request is a process cut at the awaits of its database calls: nothing    *)
(* runs in a transaction, and table member has no unique key but its id.    *)
(***************************************************************************)
EXTENDS Naturals, Sequences, FiniteSets

CONSTANTS
  Client,      \* accounts calling the API, each with at most one request in flight
  Guest,       \* invited e-mail addresses without an account in the beginning
  Nobody,      \* user_id of a row inserted without one
  NoRole,      \* roleCd left out of an update, and role_cd of a row without one
  InviteRoles, \* bound: roles an invitation may give; the DTO admits OWNER and ADMIN
  EditRoles,   \* bound: roles an updateMember may give; the DTO admits any, or none
  MaxMembers   \* bound: rows ever inserted in member by create and inviteMember

ASSUME UsersAssumption == /\ Nobody \notin Client \cup Guest
                          /\ Client \cap Guest = {}
ASSUME RoleAssumption  == NoRole \notin {"OWNER", "ADMIN", "LABORER"}
ASSUME BoundAssumption ==
  /\ InviteRoles \subseteq {"OWNER", "ADMIN"}
  /\ EditRoles \subseteq {"OWNER", "ADMIN", "LABORER", NoRole}
  /\ MaxMembers \in Nat

VARIABLES
  members,     \* table member of the clan; a row's index is its id
  clan,        \* the clan's row
  accounts,    \* users with a row in table user
  req,         \* the request each client has in flight
  overtaken    \* auxiliary: requests that have looked something up which
               \* another request has since written

vars == <<members, clan, accounts, req, overtaken>>

User == Client \cup Guest

Role == {"OWNER", "ADMIN", "LABORER"}

\* "soft": deleted_at is set; "gone": the row was deleted for good.  A row of
\* nobody is live when a save inserted it under the id of one that was gone.
Row == [user : User, role : Role, state : {"live", "soft"}] \cup
       [user : {Nobody}, role : Role \cup {NoRole}, state : {"live", "gone"}]

Op == {"none", "create", "inviteMember", "removeMember", "changeOwner", "updateMember"}

\* The await a request is suspended at.
PC == {"idle", "insertOwner", "findCaller", "findTarget", "softDelete", "promote",
       "demote", "save", "checkEmail", "register", "isEmailInClan",
       "isEmailInDeletedMembers", "delete", "findClan", "createInvitation",
       "createMember"}

\* own, row: ids of the caller's row and of the target's row once read.
Request ==
  [op : Op, pc : PC, target : User \cup {Nobody}, role : Role \cup {NoRole},
   own : Nat, row : Nat, inClan : BOOLEAN]

Begun(op, pc, u, role) ==
  [op |-> op, pc |-> pc, target |-> u, role |-> role,
   own |-> 0, row |-> 0, inClan |-> FALSE]

Idle == Begun("none", "idle", Nobody, NoRole)

TypeOK ==
  /\ members \in Seq(Row)
  /\ clan \in {"none", "live", "removed"}
  /\ accounts \subseteq User
  /\ req \in [Client -> Request]
  /\ overtaken \subseteq Client

Init ==
  /\ members = <<>>
  /\ clan = "none"
  /\ accounts = Client
  /\ req = [r \in Client |-> Idle]
  /\ overtaken = {}

Rows(u) == {id \in DOMAIN members : members[id].user = u}
Live(u) == {id \in Rows(u) : members[id].state = "live"}

Owners == {id \in DOMAIN members : /\ members[id].user # Nobody
                                   /\ members[id].state = "live"
                                   /\ members[id].role = "OWNER"}

-----------------------------------------------------------------------------
(* Steps *)

CallerChecked(q) == q.pc \notin {"idle", "insertOwner", "findCaller"}

TargetFound(q) ==
  q.pc \notin {"idle", "insertOwner", "findTarget", "checkEmail", "register", "isEmailInClan"}

\* The users whose rows r has looked up for its request q.
LookedUp(r, q) == {u \in {r, q.target} : \/ u = r /\ CallerChecked(q)
                                         \/ u = q.target /\ TargetFound(q)}

\* Whoever has looked up rows of u, and is not r, is overtaken by r's write.
Overtakes(r, u) == {q \in Client \ {r} : u \in LookedUp(q, req[q])}

\* The request is answered (with a value or an error) and its locals are gone.
Finish(r) ==
  /\ req' = [req EXCEPT ![r] = Idle]
  /\ overtaken' = overtaken \ {r}

Continue(r, pc) ==
  /\ req' = [req EXCEPT ![r].pc = pc]
  /\ UNCHANGED overtaken

\* r writes rows of u, and goes on or is answered.
WriteAndContinue(r, u, pc) ==
  /\ req' = [req EXCEPT ![r].pc = pc]
  /\ overtaken' = overtaken \cup Overtakes(r, u)

WriteAndFinish(r, u) ==
  /\ req' = [req EXCEPT ![r] = Idle]
  /\ overtaken' = (overtaken \cup Overtakes(r, u)) \ {r}

\* What is left of a row deleted for good.
Gone == [user |-> Nobody, role |-> NoRole, state |-> "gone"]

NewRow(u, role) == [user |-> u, role |-> role, state |-> "live"]

\* Faulty: a role that is not given is written too; a whole live row is written.
SavedUndefined(row, role) ==
  IF row.state = "gone" THEN NewRow(Nobody, role) ELSE [row EXCEPT !.role = role]
SavedWhole(row, role) == NewRow(row.user, role)

\* repository.save({ id, roleCd }) finds the row by id, deleted_at or not, and
\* writes the given columns only; a row that is gone is inserted afresh with
\* nothing but what is given.
SavedRow(row, role) ==
  IF row.state = "gone" THEN NewRow(Nobody, role)
  ELSE IF role = NoRole THEN row ELSE [row EXCEPT !.role = role]

Saved(id, role) == [members EXCEPT ![id] = SavedRow(@, role)]

-----------------------------------------------------------------------------
(* create, and the lookups the other requests start with: the first one is made
   as soon as the request arrives *)

\* POST clan: the clan's row, then its owner's.
Create(r) ==
  /\ req[r].pc = "idle" /\ clan = "none"
  /\ clan' = "live"
  /\ req' = [req EXCEPT ![r] = Begun("create", "insertOwner", r, "OWNER")]
  /\ UNCHANGED <<members, accounts, overtaken>>

InsertOwner(r) ==
  /\ req[r].pc = "insertOwner" /\ Len(members) < MaxMembers
  /\ members' = Append(members, NewRow(r, "OWNER"))
  /\ WriteAndFinish(r, r)
  /\ UNCHANGED <<clan, accounts>>

\* Faulty: isAdminOrOwner is left out, and any member may call.
MayCallAsMember(r, q, role) ==
  IF q.op = "changeOwner" THEN role = "OWNER" /\ q.target # r ELSE role \in Role

\* isOwner and isAdminOrOwner of the caller's roleCd, and changeOwner's refusal of
\* the caller as the new owner.
MayCall(r, q, role) ==
  IF q.op = "changeOwner" THEN role = "OWNER" /\ q.target # r
                          ELSE role \in {"OWNER", "ADMIN"}

AfterCaller(op) ==
  CASE op = "inviteMember" -> "checkEmail"
    [] op = "updateMember" -> "save"
    [] OTHER -> "findTarget"

\* memberService.findOne of the caller of q: any of its live rows; throws without one.
FindCaller(r, q) ==
  /\ \/ \E id \in Live(r) :
          /\ MayCall(r, q, members[id].role)
          /\ req' = [req EXCEPT ![r] =
                       [q EXCEPT !.pc = AfterCaller(q.op),
                                 !.own = IF q.op = "changeOwner" THEN id ELSE 0]]
          /\ UNCHANGED overtaken
     \/ /\ Live(r) = {} \/ \E id \in Live(r) : ~MayCall(r, q, members[id].role)
        /\ Finish(r)
  /\ UNCHANGED <<members, clan, accounts>>

\* Faulty: updateMember leaves out the check of the caller's role.
AfterTargetUnchecked(op) ==
  CASE op = "removeMember" -> "softDelete"
    [] op = "changeOwner" -> "promote"
    [] op = "updateMember" -> "save"

AfterTarget(op) ==
  CASE op = "removeMember" -> "softDelete"
    [] op = "changeOwner" -> "promote"
    [] op = "updateMember" -> "findCaller"

\* Faulty: owners may be removed too.
MayTargetAnyone(q, role) == TRUE

\* removeMember throws MEMBER_IS_OWNER.
MayTarget(q, role) == ~(q.op = "removeMember" /\ role = "OWNER")

\* memberService.findOne of the target of q.
FindTarget(r, q) ==
  /\ \/ \E id \in Live(q.target) :
          /\ MayTarget(q, members[id].role)
          /\ req' = [req EXCEPT ![r] =
                       [q EXCEPT !.pc = AfterTarget(q.op),
                                 !.row = IF q.op = "removeMember" THEN 0 ELSE id]]
          /\ UNCHANGED overtaken
     \/ /\ \/ Live(q.target) = {}
           \/ \E id \in Live(q.target) : ~MayTarget(q, members[id].role)
        /\ Finish(r)
  /\ UNCHANGED <<members, clan, accounts>>

\* POST clan/:id/members/invite
BeginInviteMember(r) == \E u \in User, role \in InviteRoles :
  req[r].pc = "idle" /\ FindCaller(r, Begun("inviteMember", "idle", u, role))

\* DELETE clan/clan/remove/member
BeginRemoveMember(r) == \E u \in User :
  req[r].pc = "idle" /\ FindCaller(r, Begun("removeMember", "idle", u, NoRole))

\* PATCH clan/:id/owner/change
BeginChangeOwner(r) == \E u \in User :
  req[r].pc = "idle" /\ FindCaller(r, Begun("changeOwner", "idle", u, NoRole))

\* PATCH clan/member/profile
BeginUpdateMember(r) == \E u \in User, role \in EditRoles :
  req[r].pc = "idle" /\ FindTarget(r, Begun("updateMember", "idle", u, role))

\* The second lookup: of the caller by updateMember, of the target by the others.
LookupCaller(r) == req[r].pc = "findCaller" /\ FindCaller(r, req[r])

LookupTarget(r) == req[r].pc = "findTarget" /\ FindTarget(r, req[r])

-----------------------------------------------------------------------------
(* removeMember, changeOwner, updateMember *)

\* softDelete({ clanId, userId }): every row of the user.
SoftDelete(r) ==
  /\ req[r].pc = "softDelete"
  /\ members' = [id \in DOMAIN members |->
                   IF id \in Rows(req[r].target)
                   THEN [members[id] EXCEPT !.state = "soft"] ELSE members[id]]
  /\ WriteAndFinish(r, req[r].target)
  /\ UNCHANGED <<clan, accounts>>

Promote(r) ==
  /\ req[r].pc = "promote"
  /\ members' = Saved(req[r].row, "OWNER")
  /\ WriteAndContinue(r, req[r].target, "demote")
  /\ UNCHANGED <<clan, accounts>>

Demote(r) ==
  /\ req[r].pc = "demote"
  /\ members' = Saved(req[r].own, "ADMIN")
  /\ WriteAndFinish(r, r)
  /\ UNCHANGED <<clan, accounts>>

SaveRole(r) ==
  /\ req[r].pc = "save"
  /\ members' = Saved(req[r].row, req[r].role)
  /\ WriteAndFinish(r, req[r].target)
  /\ UNCHANGED <<clan, accounts>>

-----------------------------------------------------------------------------
(* inviteMember *)

\* Faulty: only new accounts are registered, known ones are not looked for.
AfterCheckEmailUnchecked(known) == IF known THEN "findClan" ELSE "register"

AfterCheckEmail(known) == IF known THEN "isEmailInClan" ELSE "register"

CheckEmailMemberExists(r) ==
  /\ req[r].pc = "checkEmail"
  /\ Continue(r, AfterCheckEmail(req[r].target \in accounts))
  /\ UNCHANGED <<members, clan, accounts>>

\* usersService.registerNotOtp; user.email is unique.
RegisterNotOtp(r) ==
  /\ req[r].pc = "register"
  /\ IF req[r].target \in accounts THEN Finish(r) ELSE Continue(r, "findClan")
  /\ accounts' = accounts \cup {req[r].target}
  /\ UNCHANGED <<members, clan>>

IsEmailInClan(r) ==
  /\ req[r].pc = "isEmailInClan"
  /\ req' = [req EXCEPT ![r].pc = "isEmailInDeletedMembers",
                        ![r].inClan = Live(req[r].target) # {}]
  /\ UNCHANGED <<members, clan, accounts, overtaken>>

\* Both lookups are made before the first one's result is used.  The second finds
\* any row: withDeleted() leaves the live ones in.
IsEmailInDeletedMembers(r) ==
  /\ req[r].pc = "isEmailInDeletedMembers"
  /\ IF req[r].inClan THEN Finish(r)
     ELSE Continue(r, IF Rows(req[r].target) # {} THEN "delete" ELSE "findClan")
  /\ UNCHANGED <<members, clan, accounts>>

\* memberService.delete({ clanId, userId })
Delete(r) ==
  /\ req[r].pc = "delete"
  /\ members' = [id \in DOMAIN members |->
                   IF id \in Rows(req[r].target) THEN Gone ELSE members[id]]
  /\ WriteAndContinue(r, req[r].target, "findClan")
  /\ UNCHANGED <<clan, accounts>>

\* A clan that was removed ends the invitation without an error.
FindClan(r) ==
  /\ req[r].pc = "findClan"
  /\ IF clan = "live" THEN Continue(r, "createInvitation") ELSE Finish(r)
  /\ UNCHANGED <<members, clan, accounts>>

\* inviteMemberService.create and findOne: table invitation_member only.
CreateInvitation(r) ==
  /\ req[r].pc = "createInvitation"
  /\ Continue(r, "createMember")
  /\ UNCHANGED <<members, clan, accounts>>

\* memberService.create.  The mail is sent after it; the invitation is answered then,
\* by an error if the mail fails, and nothing is taken back.
CreateMember(r) ==
  /\ req[r].pc = "createMember" /\ Len(members) < MaxMembers
  /\ members' = Append(members, NewRow(req[r].target, req[r].role))
  /\ WriteAndFinish(r, req[r].target)
  /\ UNCHANGED <<clan, accounts>>

-----------------------------------------------------------------------------

\* DELETE clan/:id, by anyone; the member rows stay.
RemoveClan ==
  /\ clan = "live"
  /\ clan' = "removed"
  /\ overtaken' = overtaken \cup
       {r \in Client : req[r].pc \in {"insertOwner", "createInvitation", "createMember"}}
  /\ UNCHANGED <<members, accounts, req>>

\* A database call or the mail fails, or the process stops: what was saved stays.
Abort(r) ==
  /\ req[r].pc # "idle"
  /\ Finish(r)
  /\ UNCHANGED <<members, clan, accounts>>

Step(r) ==
  \/ Create(r) \/ InsertOwner(r)
  \/ BeginInviteMember(r) \/ BeginRemoveMember(r) \/ BeginChangeOwner(r) \/ BeginUpdateMember(r)
  \/ LookupCaller(r) \/ LookupTarget(r)
  \/ SoftDelete(r) \/ Promote(r) \/ Demote(r) \/ SaveRole(r)
  \/ CheckEmailMemberExists(r) \/ RegisterNotOtp(r)
  \/ IsEmailInClan(r) \/ IsEmailInDeletedMembers(r) \/ Delete(r)
  \/ FindClan(r) \/ CreateInvitation(r) \/ CreateMember(r)
  \/ Abort(r)

Next == (\E r \in Client : Step(r)) \/ RemoveClan

Spec == Init /\ [][Next]_vars
-----------------------------------------------------------------------------
(* Properties *)

\* The caller of r's request holds a role that admits it.
CallerMay(r) == \E id \in Live(r) : MayCall(r, req[r], members[id].role)

\* What a request that nobody overtook has read is still true: its caller still
\* has a role it was admitted with, the rows it is about to write are live and
\* as it found them, an invited user has no live row, and only users with an
\* account have rows.  In between, changeOwner leaves the clan two owners.
RequestsAreCurrent ==
  /\ \A u \in User : Rows(u) # {} => u \in accounts
  /\ \A r \in Client \ overtaken :
       LET q == req[r]
       IN /\ CallerChecked(q) => CallerMay(r)
          /\ q.pc \in {"promote", "demote", "findCaller", "save"} => q.row \in Live(q.target)
          /\ q.op = "changeOwner" /\ CallerChecked(q)
               => q.own \in Live(r) /\ members[q.own].role = "OWNER"
          /\ q.pc = "demote" => members[q.row].role = "OWNER"
          /\ q.pc = "softDelete" => \E id \in Live(q.target) : members[id].role # "OWNER"
          /\ q.pc = "isEmailInDeletedMembers" => q.inClan = (Live(q.target) # {})
          /\ q.pc \in {"delete", "findClan", "createInvitation", "createMember"}
               => Live(q.target) = {}
          /\ q.pc \in {"createInvitation", "createMember"} => clan = "live"

\* A user comes to have two live rows in a clan only through an invitation
\* another request overtook: the check of inviteMember suffices otherwise.
DuplicateCauses ==
  [][\A u \in User :
       Cardinality(Live(u)) <= 1 /\ Cardinality(Live(u)') > 1 =>
         \E r \in overtaken : CreateMember(r) /\ req[r].target = u]_vars

\* A live row is deleted for good only by an invitation that was overtaken, and
\* no row ever comes back to a user it was taken from.
LiveRowsAreKept ==
  [][\A id \in DOMAIN members :
       /\ members[id].state = "live" /\ members'[id].state = "gone"
            => \E r \in overtaken : Delete(r)
       /\ members[id].state # "live" /\ members'[id].state = "live"
            => members'[id].user = Nobody]_vars

\* A clan loses its last owner only when updateMember gives that owner another
\* role, when a write is based on rows another request has since written, or
\* when removeMember found another row of a user with several live rows.
OwnerLossCauses ==
  [][Owners # {} /\ Owners' = {} =>
       \/ \E r \in Client : SaveRole(r)
       \/ \E r \in overtaken : Demote(r) \/ SoftDelete(r) \/ Delete(r)
       \/ \E r \in Client : SoftDelete(r) /\ Cardinality(Live(req[r].target)) > 1]_vars

\* No member may invite, remove or promote anybody, and no request that was admitted
\* before is still at work.
Unmanaged ==
  /\ clan # "none"
  /\ \A u \in User : \A id \in Live(u) : members[id].role \notin {"OWNER", "ADMIN"}
  /\ \A r \in Client : ~CallerChecked(req[r]) /\ req[r].pc # "insertOwner"

\* A clan nobody manages any more, or that nobody came to manage because its creation
\* failed after the clan's row, stays so for good, and its members stay as they are:
\* no endpoint brings an owner back.
UnmanagedForGood ==
  [][Unmanaged => Unmanaged' /\ UNCHANGED <<members, accounts>>]_vars

\* A request nobody overtook adds members to a live clan only, and changes its
\* rows only while its caller holds the role for it.
WritesWhereAllowed ==
  [][\A r \in Client \ overtaken :
       /\ CreateMember(r) \/ InsertOwner(r) => clan = "live"
       /\ CreateMember(r) \/ SoftDelete(r) \/ Promote(r) \/ SaveRole(r) \/ Delete(r)
            => CallerMay(r)]_vars

\* What the check of removeMember is for: it removes no owner.
OwnersAreNotRemoved ==
  [][\A r \in Client : SoftDelete(r) =>
       \A id \in Live(req[r].target) : members[id].role # "OWNER"]_vars
=============================================================================
