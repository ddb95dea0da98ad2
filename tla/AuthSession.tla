----------------------------- MODULE AuthSession -----------------------------
(***************************************************************************)
(* One account: AuthService with the tables user, session and forgot.       *)
(* Every request is a process cut at the awaits of its database calls; its  *)
(* first query is made as soon as it arrives, and a request refused by it   *)
(* changes nothing and is no step.  Passwords and one-time codes are        *)
(* abstract: a password is its plaintext as long as bcrypt.compare accepts  *)
(* one, a code is the secret it was made from.  Codes and tokens expire in  *)
(* AuthExpiry; here a client may present any token it was ever given.       *)
(***************************************************************************)
EXTENDS Naturals, Sequences

CONSTANTS
  Client,      \* callers of the API, each with at most one request in flight
  Password,    \* plaintext passwords
  NoPassword,  \* the column is null
  Broken,      \* a hash no known plaintext compares with
  MaxSecrets,  \* bound: otpSecrets ever generated
  MaxSessions, \* bound: rows ever inserted in session
  MaxForgots   \* bound: rows ever inserted in forgot

ASSUME PasswordAssumption == NoPassword \notin Password /\ Broken \notin Password \cup {NoPassword}
ASSUME BoundAssumption == MaxSecrets \in Nat /\ MaxSessions \in Nat /\ MaxForgots \in Nat

VARIABLES
  user,      \* the account's row: none yet, live or soft-deleted, and its columns
  secrets,   \* number of otpSecrets generated so far; the n-th is n, 0 is null
  sessions,  \* table session of the account; a row's index is its id
  forgots,   \* table forgot of the account; the index stands for the hash
  req,       \* the request each client has in flight
  overtaken  \* auxiliary: <<r, t>> if another request wrote table t since r began

vars == <<user, secrets, sessions, forgots, req, overtaken>>

Table == {"user", "session", "forgot"}

\* The columns a request may hold in an entity while others change them.
Entity == [secret : Nat, password : Password \cup {NoPassword, Broken}]

NoEntity == [secret |-> 0, password |-> NoPassword]

User == [state : {"none", "live", "deleted"}, provider : {"none", "email", "social"},
         entity : Entity]

Op == {"none", "register", "checkEmailExists", "validateLogin", "validateSocialLogin",
       "forgotPassword", "resetPassword", "update", "refreshToken", "delete"}

\* The await a request is suspended at.
PC == {"idle", "createUser", "findUser", "updateSecret", "mail", "updateSocial", "createSession",
       "createForgot", "closeSessions", "saveUser", "closeForgot", "closeOthers",
       "savePassword", "signToken", "logout"}

\* seen: the user row read, of the requests that save it whole.
Request == [op : Op, pc : PC, session : Nat, forgot : Nat, secret : Nat,
            password : Password \cup {NoPassword}, seen : Entity]

Begun(op, pc) == [op |-> op, pc |-> pc, session |-> 0, forgot |-> 0, secret |-> 0,
                  password |-> NoPassword, seen |-> NoEntity]

Idle == Begun("none", "idle")

TypeOK ==
  /\ user \in User
  /\ secrets \in Nat
  /\ sessions \in Seq({"open", "closed"})
  /\ forgots \in Seq({"open", "closed"})
  /\ req \in [Client -> Request]
  /\ overtaken \subseteq Client \X Table

Init ==
  /\ user = [state |-> "none", provider |-> "none", entity |-> NoEntity]
  /\ secrets = 0
  /\ sessions = <<>>
  /\ forgots = <<>>
  /\ req = [r \in Client |-> Idle]
  /\ overtaken = {}

Open == {s \in DOMAIN sessions : sessions[s] = "open"}

-----------------------------------------------------------------------------
(* Steps *)

\* r's request becomes q after a write to the given tables: every other request
\* under way is overtaken.  An answered request is forgotten.
Goes(r, q, written) ==
  /\ req' = [req EXCEPT ![r] = q]
  /\ overtaken' = (overtaken \cup {p \in Client \X written : p[1] # r /\ req[p[1]].pc # "idle"})
                    \ (IF q.pc = "idle" THEN {r} \X Table ELSE {})

At(r, pc) == [req[r] EXCEPT !.pc = pc]

\* Faulty: soft-deleted rows are read too.
FoundWithDeleted == user.state # "none"

\* usersRepository.findOne, and the eager user of a session or forgot.
Found == user.state = "live"

-----------------------------------------------------------------------------
(* register, checkEmailExists, validateLogin *)

\* A new account; user.email is unique, so there is only one.  The code is mailed
\* after the insertion.
Register(r) ==
  /\ req[r].pc = "idle" /\ user.state = "none" /\ secrets < MaxSecrets
  /\ secrets' = secrets + 1
  /\ user' = [state |-> "live", provider |-> "email",
              entity |-> [NoEntity EXCEPT !.secret = secrets']]
  /\ Goes(r, [Begun("register", "mail") EXCEPT !.secret = secrets'], {"user"})
  /\ UNCHANGED <<sessions, forgots>>

\* POST users: a new account with a password and without a code.
CreateProfile(r) ==
  /\ req[r].pc = "idle" /\ user.state = "none"
  /\ \E password \in Password :
       user' = [state |-> "live", provider |-> "email",
                entity |-> [NoEntity EXCEPT !.password = password]]
  /\ Goes(r, Idle, {"user"})
  /\ UNCHANGED <<secrets, sessions, forgots>>

\* usersService.findOne; the secret is generated before it is saved.
CheckEmailExists(r) ==
  /\ req[r].pc = "idle" /\ Found /\ user.provider = "email"
  /\ secrets < MaxSecrets
  /\ secrets' = secrets + 1
  /\ Goes(r, [Begun("checkEmailExists", "updateSecret") EXCEPT !.secret = secrets'], {})
  /\ UNCHANGED <<user, sessions, forgots>>

\* usersService.update of one column.
UpdateSecret(r) ==
  /\ req[r].pc = "updateSecret"
  /\ user' = [user EXCEPT !.entity.secret = req[r].secret]
  /\ Goes(r, At(r, "mail"), {"user"})
  /\ UNCHANGED <<secrets, sessions, forgots>>

\* mailService.passwordOnetime
PasswordOnetime(r) ==
  /\ req[r].pc = "mail"
  /\ Goes(r, Idle, {})
  /\ UNCHANGED <<user, secrets, sessions, forgots>>

\* authenticator.check of a code made from the given secret.
Verified(secret) == secret = user.entity.secret

ValidateLogin(r) ==
  /\ req[r].pc = "idle" /\ Found /\ user.provider = "email"
  /\ \E secret \in 1..secrets :
       /\ Verified(secret)
       /\ Goes(r, [Begun("validateLogin", "createSession") EXCEPT !.secret = secret], {})
  /\ UNCHANGED <<user, secrets, sessions, forgots>>

\* sessionService.create; the tokens are signed for it at once.
CreateSession(r) ==
  /\ req[r].pc = "createSession" /\ Len(sessions) < MaxSessions
  /\ sessions' = Append(sessions, "open")
  /\ Goes(r, Idle, {"session"})
  /\ UNCHANGED <<user, secrets, forgots>>

-----------------------------------------------------------------------------
(* validateSocialLogin *)

\* Found by socialId and provider: the entity read is saved again.
SocialLoginKnown(r) ==
  /\ req[r].pc = "idle" /\ Found /\ user.provider = "social"
  /\ Goes(r, [Begun("validateSocialLogin", "updateSocial") EXCEPT !.seen = user.entity], {})
  /\ UNCHANGED <<user, secrets, sessions, forgots>>

\* Found by its e-mail address alone.
SocialLoginByEmail(r) ==
  /\ req[r].pc = "idle" /\ Found
  /\ Goes(r, Begun("validateSocialLogin", "createSession"), {})
  /\ UNCHANGED <<user, secrets, sessions, forgots>>

\* Not found: a new account.  The row of one that was soft-deleted keeps its address,
\* and its insertion fails.
SocialLoginNew(r) ==
  /\ req[r].pc = "idle" /\ user.state = "none"
  /\ Goes(r, Begun("validateSocialLogin", "createUser"), {})
  /\ UNCHANGED <<user, secrets, sessions, forgots>>

CreateUser(r) ==
  /\ req[r].pc = "createUser"
  /\ IF user.state = "none"
       THEN /\ user' = [state |-> "live", provider |-> "social", entity |-> NoEntity]
            /\ Goes(r, At(r, "findUser"), {"user"})
       ELSE Goes(r, Idle, {}) /\ UNCHANGED user
  /\ UNCHANGED <<secrets, sessions, forgots>>

\* findOne of the account just created.
FindUser(r) ==
  /\ req[r].pc = "findUser"
  /\ Goes(r, IF Found THEN At(r, "createSession") ELSE Idle, {})
  /\ UNCHANGED <<user, secrets, sessions, forgots>>

\* usersService.update(user.id, user) makes a new entity of the columns read, without
\* previousPassword: setPassword takes the stored hash for a new password.
SavedSocial(seen) ==
  [seen EXCEPT !.password = IF @ = NoPassword THEN NoPassword ELSE Broken]

UpdateSocial(r) ==
  /\ req[r].pc = "updateSocial"
  /\ user' = [user EXCEPT !.entity = SavedSocial(req[r].seen)]
  /\ Goes(r, [At(r, "createSession") EXCEPT !.seen = NoEntity], {"user"})
  /\ UNCHANGED <<secrets, sessions, forgots>>

-----------------------------------------------------------------------------
(* forgotPassword, resetPassword *)

ForgotPassword(r) ==
  /\ req[r].pc = "idle" /\ Found
  /\ Goes(r, Begun("forgotPassword", "createForgot"), {})
  /\ UNCHANGED <<user, secrets, sessions, forgots>>

\* forgotService.create; the hash is mailed at once.
CreateForgot(r) ==
  /\ req[r].pc = "createForgot" /\ Len(forgots) < MaxForgots
  /\ forgots' = Append(forgots, "open")
  /\ Goes(r, Idle, {"forgot"})
  /\ UNCHANGED <<user, secrets, sessions>>

\* Faulty: a hash that was used is found again.
AnyForgot == DOMAIN forgots

UsableForgot == {f \in DOMAIN forgots : forgots[f] = "open"}

\* forgotService.findOne with its user, which is null once the account was deleted.
ResetPassword(r) ==
  /\ req[r].pc = "idle" /\ Found
  /\ \E f \in UsableForgot, new \in Password :
       Goes(r, [Begun("resetPassword", "closeSessions")
                  EXCEPT !.forgot = f, !.password = new, !.seen = user.entity], {})
  /\ UNCHANGED <<user, secrets, sessions, forgots>>

\* sessionService.softDelete({ user })
CloseSessions(r) ==
  /\ req[r].pc = "closeSessions"
  /\ sessions' = [s \in DOMAIN sessions |-> "closed"]
  /\ Goes(r, At(r, "saveUser"), {"session"})
  /\ UNCHANGED <<user, secrets, forgots>>

\* Faulty: columns that are not given become null, or are lost.
SavedOthersNull(seen, new) == [secret |-> 0, password |-> new]
SavedOthersLost(seen, new) == [password |-> new]

\* user.save() of the entity read with forgot.
SavedReset(seen, new) == [seen EXCEPT !.password = new]

SaveUser(r) ==
  /\ req[r].pc = "saveUser"
  /\ user' = [user EXCEPT !.entity = SavedReset(req[r].seen, req[r].password)]
  /\ Goes(r, [At(r, "closeForgot") EXCEPT !.seen = NoEntity], {"user"})
  /\ UNCHANGED <<secrets, sessions, forgots>>

CloseForgot(r) ==
  /\ req[r].pc = "closeForgot"
  /\ forgots' = [forgots EXCEPT ![req[r].forgot] = "closed"]
  /\ Goes(r, Idle, {"forgot"})
  /\ UNCHANGED <<user, secrets, sessions>>

-----------------------------------------------------------------------------
(* Requests with a token: update, refreshToken, logout, delete.  jwt and
   jwt-refresh check the token alone; the session it names may be closed. *)

\* PATCH auth/me with a new password and the right old one.
Update(r) ==
  /\ req[r].pc = "idle" /\ Found /\ user.entity.password \in Password
  /\ \E s \in DOMAIN sessions, new \in Password :
       Goes(r, [Begun("update", "closeOthers") EXCEPT !.session = s, !.password = new], {})
  /\ UNCHANGED <<user, secrets, sessions, forgots>>

\* Faulty: excludeId is taken for the id.
ClosedOnly(own) == [s \in DOMAIN sessions |-> IF s = own THEN "closed" ELSE sessions[s]]

\* sessionService.softDelete({ user, excludeId })
ClosedBut(own) == [s \in DOMAIN sessions |-> IF s = own THEN sessions[s] ELSE "closed"]

CloseOthers(r) ==
  /\ req[r].pc = "closeOthers"
  /\ sessions' = ClosedBut(req[r].session)
  /\ Goes(r, At(r, "savePassword"), {"session"})
  /\ UNCHANGED <<user, secrets, forgots>>

SavePassword(r) ==
  /\ req[r].pc = "savePassword"
  /\ user' = [user EXCEPT !.entity.password = req[r].password]
  /\ Goes(r, Idle, {"user"})
  /\ UNCHANGED <<secrets, sessions, forgots>>

\* sessionService.findOne with its user, which is null once the account was deleted.
RefreshToken(r) ==
  /\ req[r].pc = "idle" /\ Found
  /\ \E s \in Open : Goes(r, [Begun("refreshToken", "signToken") EXCEPT !.session = s], {})
  /\ UNCHANGED <<user, secrets, sessions, forgots>>

SignToken(r) ==
  /\ req[r].pc = "signToken"
  /\ Goes(r, Idle, {})
  /\ UNCHANGED <<user, secrets, sessions, forgots>>

Logout(r) ==
  /\ req[r].pc = "idle"
  /\ \E s \in Open : sessions' = [sessions EXCEPT ![s] = "closed"]
  /\ Goes(r, Idle, {"session"})
  /\ UNCHANGED <<user, secrets, forgots>>

Deleted == [user EXCEPT !.state = IF @ = "live" THEN "deleted" ELSE @]

\* DELETE auth/me: usersService.softDelete, then the session of the token is closed.
Delete(r) ==
  /\ req[r].pc = "idle"
  /\ user' = Deleted
  /\ \E s \in DOMAIN sessions :
       Goes(r, [Begun("delete", "logout") EXCEPT !.session = s], {"user"})
  /\ UNCHANGED <<secrets, sessions, forgots>>

LogoutDeleted(r) ==
  /\ req[r].pc = "logout"
  /\ sessions' = [sessions EXCEPT ![req[r].session] = "closed"]
  /\ Goes(r, Idle, {"session"})
  /\ UNCHANGED <<user, secrets, forgots>>

-----------------------------------------------------------------------------

\* A database call or a mail fails, or the process stops: what was saved stays.
Abort(r) ==
  /\ req[r].pc # "idle"
  /\ Goes(r, Idle, {})
  /\ UNCHANGED <<user, secrets, sessions, forgots>>

Step(r) ==
  \/ Register(r) \/ CreateProfile(r) \/ CheckEmailExists(r) \/ UpdateSecret(r) \/ PasswordOnetime(r)
  \/ ValidateLogin(r) \/ CreateSession(r)
  \/ SocialLoginKnown(r) \/ SocialLoginByEmail(r) \/ SocialLoginNew(r)
  \/ CreateUser(r) \/ FindUser(r) \/ UpdateSocial(r)
  \/ ForgotPassword(r) \/ CreateForgot(r)
  \/ ResetPassword(r) \/ CloseSessions(r) \/ SaveUser(r) \/ CloseForgot(r)
  \/ Update(r) \/ CloseOthers(r) \/ SavePassword(r)
  \/ RefreshToken(r) \/ SignToken(r) \/ Logout(r)
  \/ Delete(r) \/ LogoutDeleted(r)
  \/ Abort(r)

Next == \E r \in Client : Step(r)

Spec == Init /\ [][Next]_vars
-----------------------------------------------------------------------------
(* Properties *)

\* Nobody else has written table t since r's request began.
Fresh(r, t) == <<r, t>> \notin overtaken

\* What a request relies on at each await, unless the table it was read from has
\* been written by another: the code being mailed is the one that will be accepted,
\* a session is made for a code that is still right and an account that still
\* exists, an entity saved whole is up to date, a password is saved only when the
\* sessions it closes are closed, and a hash is given up after that.
RequestsAreCurrent ==
  \A r \in Client :
    LET q == req[r]
    IN /\ Fresh(r, "user") =>
            /\ q.pc \in {"mail"} => user.entity.secret = q.secret
            /\ q.pc \in {"createSession", "signToken", "updateSocial", "closeSessions",
                        "saveUser", "closeForgot", "closeOthers", "savePassword"}
                 => user.state = "live"
            /\ q.pc = "createSession" /\ q.op = "validateLogin" => Verified(q.secret)
            /\ q.pc \in {"updateSocial", "closeSessions", "saveUser"} => q.seen = user.entity
            /\ q.pc = "closeForgot" => user.entity.password = q.password
       /\ Fresh(r, "session") =>
            /\ q.pc \in {"saveUser", "closeForgot"} => Open = {}
            /\ q.pc = "savePassword" => Open \subseteq {q.session}
            /\ q.pc = "signToken" => q.session \in Open
       /\ Fresh(r, "forgot") /\ q.pc \in {"closeSessions", "saveUser", "closeForgot"}
            => forgots[q.forgot] = "open"

\* The secret a code is checked with changes to a newer one, by the request that made
\* it; it goes back, and codes sent before work again, only when a request for a code or
\* the reset of a password writes after another has overtaken it.  The social login,
\* which saves what it read as well, leaves it alone.
SecretsAdvance ==
  [][user'.entity.secret # user.entity.secret =>
       \/ /\ user'.entity.secret > user.entity.secret
          /\ \E r \in Client : Register(r) \/ UpdateSecret(r)
       \/ \E r \in Client : ~Fresh(r, "user") /\ (UpdateSecret(r) \/ SaveUser(r))]_vars

\* A deleted account gets a new session only from a login under way when it was
\* deleted, and is never live again.
DeletedStaysOut ==
  [][user.state = "deleted" =>
       /\ user'.state = "deleted"
       /\ Len(sessions') > Len(sessions) => \E r \in Client : CreateSession(r) /\ ~Fresh(r, "user")]_vars

\* A password that works is replaced by one that a client asked for, after the
\* sessions of others were closed, or lost in a social login.
PasswordCauses ==
  [][user.entity.password \in Password /\ user'.entity.password # user.entity.password =>
       \/ \E r \in Client : UpdateSocial(r)
       \/ \E r \in Client :
            /\ (SaveUser(r) \/ SavePassword(r))
            /\ user'.entity.password = req[r].password
            /\ Fresh(r, "session") => Open \subseteq {req[r].session}]_vars
=============================================================================
