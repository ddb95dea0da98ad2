------------------------- MODULE AuthSession_proofs --------------------------
(***************************************************************************)
(* The properties of AuthSession, for any clients, passwords and bounds.    *)
(***************************************************************************)
EXTENDS AuthSession, TLAPS

AnyPassword == Password \cup {NoPassword}

\* What a request carries at each await, whoever else writes meanwhile: ids of the
\* given rows, and secrets that are none of the future.
RequestOK(q, hashes, logins, newest) ==
  /\ q.pc \in {"closeSessions", "saveUser", "closeForgot"} => q.forgot \in hashes
  /\ q.pc = "logout" => q.session \in logins
  /\ q.pc \in {"createUser", "findUser", "updateSocial"} => q.op = "validateSocialLogin"
  /\ q.pc \in {"closeSessions", "saveUser", "closeOthers", "savePassword"} => q.password \in Password
  /\ q.secret <= newest
  /\ q.seen.secret <= newest

UserOK(u, newest) ==
  /\ u.entity.secret <= newest
  /\ u.state = "none" => u.entity = NoEntity

SecretsKnown ==
  /\ UserOK(user, secrets)
  /\ \A r \in Client : RequestOK(req[r], DOMAIN forgots, DOMAIN sessions, secrets)

\* A secret about to be saved is newer than the one saved, unless overtaken.
NewSecrets ==
  \A r \in Client :
    Fresh(r, "user") /\ req[r].pc = "updateSecret" => user.entity.secret < req[r].secret

\* While there is no account it has no sessions, and only requests that make one run.
AccountFirst ==
  user.state = "none" => /\ DOMAIN sessions = {}
                         /\ \A r \in Client : req[r].pc \in {"idle", "createUser"}

SessionInv == TypeOK /\ SecretsKnown /\ AccountFirst

-----------------------------------------------------------------------------
(* Sequences of open and closed rows *)

\* Closing some rows of a table keeps it a table of as many rows.
LEMMA RowsRemain ==
  ASSUME NEW s \in Seq({"open", "closed"}), NEW t,
         t = [i \in DOMAIN s |-> t[i]], \A i \in DOMAIN s : t[i] \in {"open", "closed"}
  PROVE  t \in Seq({"open", "closed"}) /\ Len(t) = Len(s) /\ DOMAIN t = DOMAIN s
<1>1. DOMAIN s = 1..Len(s) /\ Len(s) \in Nat
  OBVIOUS
<1>2. t \in [1..Len(s) -> {"open", "closed"}]
  BY <1>1
<1> QED BY <1>1, <1>2

\* Closing one row of a table.
LEMMA OneCloses ==
  ASSUME NEW s \in Seq({"open", "closed"}), NEW i \in DOMAIN s, NEW t,
         t = [s EXCEPT ![i] = "closed"]
  PROVE  t \in Seq({"open", "closed"}) /\ Len(t) = Len(s) /\ DOMAIN t = DOMAIN s
  OBVIOUS

\* A row is added at the end.
LEMMA OneMore ==
  ASSUME NEW s \in Seq({"open", "closed"}), NEW t, t = Append(s, "open")
  PROVE  t \in Seq({"open", "closed"}) /\ Len(t) = Len(s) + 1 /\ DOMAIN s \subseteq DOMAIN t
  OBVIOUS

-----------------------------------------------------------------------------
(* Steps *)

\* A step keeps the requests of others as they are, and its own entry of overtaken
\* while it goes on.
LEMMA GoesFrame ==
  ASSUME TypeOK, NEW r \in Client, NEW q \in Request, NEW w \in SUBSET Table, Goes(r, q, w)
  PROVE  /\ req' \in [Client -> Request]
         /\ overtaken' \subseteq Client \X Table
         /\ req'[r] = q
         /\ \A p \in Client \ {r} : req'[p] = req[p]
         /\ q.pc # "idle" => \A t \in Table : Fresh(r, t)' => Fresh(r, t)
         /\ \A p \in Client \ {r} : \A t \in Table :
              Fresh(p, t)' /\ req[p].pc # "idle" => Fresh(p, t) /\ t \notin w
<1>1. req' = [req EXCEPT ![r] = q] /\ req \in [Client -> Request]
  BY DEF Goes, TypeOK
<1>2. overtaken' = (overtaken \cup {p \in Client \X w : p[1] # r /\ req[p[1]].pc # "idle"})
                      \ (IF q.pc = "idle" THEN {r} \X Table ELSE {})
  BY DEF Goes
<1>3. overtaken \subseteq Client \X Table
  BY DEF TypeOK
<1>4. overtaken' \subseteq Client \X Table
  BY <1>2, <1>3
<1>5. ASSUME NEW p \in Client \ {r}, NEW t \in Table, Fresh(p, t)', req[p].pc # "idle"
      PROVE  Fresh(p, t) /\ t \notin w
  BY <1>2, <1>5 DEF Fresh
<1>6. ASSUME q.pc # "idle", NEW t \in Table, Fresh(r, t)' PROVE Fresh(r, t)
  BY <1>2, <1>6 DEF Fresh
<1> QED BY <1>1, <1>4, <1>5, <1>6

\* What has to be shown of a step for the invariant: the tables and the request of r.
LEMMA StepInv ==
  ASSUME SessionInv, NEW r \in Client, NEW q \in Request, NEW w \in SUBSET Table, Goes(r, q, w),
         user' \in User, secrets' \in Nat, secrets <= secrets',
         sessions' \in Seq({"open", "closed"}), DOMAIN sessions \subseteq DOMAIN sessions',
         forgots' \in Seq({"open", "closed"}), DOMAIN forgots \subseteq DOMAIN forgots',
         UserOK(user', secrets'),
         user'.state = "none" => user.state = "none" /\ DOMAIN sessions' = DOMAIN sessions,
         q.pc \in {"idle", "createUser"} \/ user'.state # "none",
         RequestOK(q, DOMAIN forgots', DOMAIN sessions', secrets')
  PROVE  SessionInv'
<1>1. TypeOK
  BY DEF SessionInv
<1>2. /\ req' \in [Client -> Request] /\ overtaken' \subseteq Client \X Table
      /\ req'[r] = q /\ \A p \in Client \ {r} : req'[p] = req[p]
  BY <1>1, GoesFrame
<1>3. TypeOK'
  BY <1>2 DEF TypeOK
<1>4. ASSUME NEW p \in Client
      PROVE  RequestOK(req'[p], DOMAIN forgots', DOMAIN sessions', secrets')
  <2>1. CASE p = r
    BY <2>1, <1>2
  <2>2. CASE p # r
    <3>1. req'[p] = req[p] /\ RequestOK(req[p], DOMAIN forgots, DOMAIN sessions, secrets)
      BY <1>2, <2>2 DEF SessionInv, SecretsKnown
    <3>2. req[p] \in Request /\ secrets \in Nat
      BY <1>1 DEF TypeOK
    <3>3. req[p].secret \in Nat /\ req[p].seen.secret \in Nat
      BY <3>2 DEF Request, Entity
    <3> QED BY <3>1, <3>2, <3>3 DEF RequestOK
  <2> QED BY <2>1, <2>2
<1>5. AccountFirst'
  BY <1>2 DEF SessionInv, AccountFirst
<1> QED BY <1>3, <1>4, <1>5 DEF SessionInv, SecretsKnown

\* The request a new one is, and an answered one.
LEMMA Begins ==
  ASSUME NEW op \in Op, NEW pc \in PC
  PROVE  /\ Begun(op, pc) \in Request
         /\ Begun(op, pc).op = op /\ Begun(op, pc).pc = pc
         /\ Begun(op, pc).secret = 0 /\ Begun(op, pc).seen = NoEntity
  BY DEF Begun, Request, NoEntity, Entity

LEMMA IdleOK ==
  ASSUME NEW hashes, NEW logins, NEW newest \in Nat
  PROVE  Idle \in Request /\ RequestOK(Idle, hashes, logins, newest)
  BY DEF Idle, Begun, Request, RequestOK, NoEntity, Entity, Op, PC

\* What is known of the tables and of a request under the invariant.
LEMMA Known ==
  ASSUME SessionInv, NEW r \in Client
  PROVE  /\ TypeOK /\ user \in User /\ secrets \in Nat /\ req[r] \in Request
         /\ sessions \in Seq({"open", "closed"}) /\ forgots \in Seq({"open", "closed"})
         /\ UserOK(user, secrets)
         /\ RequestOK(req[r], DOMAIN forgots, DOMAIN sessions, secrets)
         /\ req[r].seen \in Entity /\ req[r].secret \in Nat
         /\ req[r].password \in AnyPassword
         /\ user.state = "none" => DOMAIN sessions = {} /\ req[r].pc \in {"idle", "createUser"}
  BY DEF SessionInv, SecretsKnown, AccountFirst, TypeOK, Request, AnyPassword

\* A request goes on to another await, or ends, and writes only the user.
LEMMA GoesOn ==
  ASSUME SessionInv, NEW r \in Client, NEW pc \in PC, NEW w \in SUBSET Table,
         Goes(r, At(r, pc), w),
         pc \in {"createUser", "findUser", "updateSocial"} => req[r].op = "validateSocialLogin",
         pc \in {"closeSessions", "saveUser", "closeForgot"} => req[r].forgot \in DOMAIN forgots,
         pc # "logout",
         pc \in {"closeSessions", "saveUser", "closeOthers", "savePassword"}
           => req[r].password \in Password,
         user' \in User, UserOK(user', secrets), user'.state # "none",
         UNCHANGED secrets, UNCHANGED forgots,
         sessions' \in Seq({"open", "closed"}), DOMAIN sessions \subseteq DOMAIN sessions'
  PROVE  SessionInv'
<1> DEFINE q == At(r, pc)
<1>1. /\ q \in Request /\ q.op = req[r].op /\ q.pc = pc /\ q.forgot = req[r].forgot
      /\ q.password = req[r].password /\ q.secret = req[r].secret /\ q.seen = req[r].seen
  BY Known DEF At, Request
<1>2. RequestOK(q, DOMAIN forgots, DOMAIN sessions', secrets)
  BY <1>1, Known DEF RequestOK
<1> HIDE DEF q
<1> QED BY <1>1, <1>2, Known, StepInv DEF q

\* A request ends.
LEMMA Ends ==
  ASSUME SessionInv, NEW r \in Client, NEW w \in SUBSET Table, Goes(r, Idle, w),
         user' \in User, UserOK(user', secrets), UNCHANGED secrets,
         user'.state = "none" => user.state = "none" /\ DOMAIN sessions' = DOMAIN sessions,
         sessions' \in Seq({"open", "closed"}), DOMAIN sessions \subseteq DOMAIN sessions',
         forgots' \in Seq({"open", "closed"}), DOMAIN forgots \subseteq DOMAIN forgots'
  PROVE  SessionInv'
<1>0. Idle.pc = "idle"
  BY DEF Idle, Begun
<1>1. Idle \in Request /\ RequestOK(Idle, DOMAIN forgots', DOMAIN sessions', secrets)
  BY Known, IdleOK
<1> QED BY <1>0, <1>1, Known, StepInv

\* A request begins, after a look at the tables only.
LEMMA BeginsInv ==
  ASSUME SessionInv, NEW r \in Client, NEW q \in Request, Goes(r, q, {}),
         RequestOK(q, DOMAIN forgots, DOMAIN sessions, secrets),
         q.pc = "createUser" \/ user.state # "none",
         UNCHANGED <<user, secrets, sessions, forgots>>
  PROVE  SessionInv'
  BY Known, StepInv

-----------------------------------------------------------------------------
(* The invariant is inductive: one lemma for each endpoint *)

LEMMA InitInv == Init => SessionInv
  BY IdleOK DEF Init, SessionInv, TypeOK, SecretsKnown, UserOK, User, Entity, NoEntity, RequestOK,
                AccountFirst, Idle, Begun

LEMMA RegisterInv ==
  ASSUME SessionInv, NEW r \in Client, Register(r) \/ CreateProfile(r)
  PROVE  SessionInv'
<1>1. CASE Register(r)
  <2> DEFINE n == secrets + 1
             q == [Begun("register", "mail") EXCEPT !.secret = n]
             e == [NoEntity EXCEPT !.secret = n]
             u == [state |-> "live", provider |-> "email", entity |-> e]
  <2>1. /\ secrets' = n /\ user' = u /\ Goes(r, q, {"user"}) /\ UNCHANGED <<sessions, forgots>>
    BY <1>1 DEF Register
  <2>2. n \in Nat /\ secrets <= n
    BY Known
  <2>3. u \in User /\ UserOK(u, n) /\ u.state # "none"
    BY <2>2 DEF User, UserOK, Entity, NoEntity
  <2>4. q \in Request /\ RequestOK(q, DOMAIN forgots, DOMAIN sessions, n)
    BY <2>2 DEF Begun, Request, RequestOK, NoEntity, Entity, Op, PC
  <2>5. {"user"} \in SUBSET Table
    BY DEF Table
  <2> HIDE DEF n, q, u
  <2> QED BY <2>1, <2>2, <2>3, <2>4, <2>5, Known, StepInv
<1>2. CASE CreateProfile(r)
  <2>1. PICK password \in Password :
          user' = [state |-> "live", provider |-> "email",
                   entity |-> [NoEntity EXCEPT !.password = password]]
    BY <1>2 DEF CreateProfile
  <2>2. user' \in User /\ UserOK(user', secrets) /\ user'.state # "none"
    BY <2>1, Known DEF User, UserOK, Entity, NoEntity
  <2>3. Goes(r, Idle, {"user"}) /\ UNCHANGED <<secrets, sessions, forgots>> /\ {"user"} \in SUBSET Table
    BY <1>2 DEF CreateProfile, Table
  <2> QED BY <2>2, <2>3, Known, Ends
<1> QED BY <1>1, <1>2

LEMMA LoginInv ==
  ASSUME SessionInv, NEW r \in Client,
         CheckEmailExists(r) \/ UpdateSecret(r) \/ PasswordOnetime(r) \/ ValidateLogin(r) \/ CreateSession(r)
  PROVE  SessionInv'
<1>0. {} \in SUBSET Table /\ {"user"} \in SUBSET Table /\ {"session"} \in SUBSET Table
  BY DEF Table
<1>1. CASE CheckEmailExists(r)
  <2> DEFINE n == secrets + 1
             q == [Begun("checkEmailExists", "updateSecret") EXCEPT !.secret = n]
  <2>1. secrets' = n /\ Goes(r, q, {}) /\ UNCHANGED <<user, sessions, forgots>>
    BY <1>1 DEF CheckEmailExists
  <2>2. n \in Nat /\ secrets <= n
    BY Known
  <2>3. q \in Request /\ RequestOK(q, DOMAIN forgots, DOMAIN sessions, n)
    BY <2>2 DEF Begun, Request, RequestOK, NoEntity, Entity, Op, PC
  <2>4. UserOK(user, n) /\ user.state # "none"
    BY <1>1, <2>2, Known DEF UserOK, User, Entity, CheckEmailExists, Found
  <2> HIDE DEF n, q
  <2> QED BY <1>0, <2>1, <2>2, <2>3, <2>4, Known, StepInv
<1>2. CASE UpdateSecret(r)
  <2>1. /\ user' = [user EXCEPT !.entity.secret = req[r].secret] /\ Goes(r, At(r, "mail"), {"user"})
        /\ UNCHANGED <<secrets, sessions, forgots>> /\ req[r].pc = "updateSecret"
    BY <1>2 DEF UpdateSecret
  <2>2. /\ user' \in User /\ user'.state = user.state /\ user'.entity.secret = req[r].secret
        /\ user'.entity.password = user.entity.password
    BY <2>1, Known DEF User, Entity
  <2>3. UserOK(user', secrets) /\ user'.state # "none"
    BY <2>1, <2>2, Known DEF UserOK, RequestOK
  <2> QED BY <1>0, <2>1, <2>2, <2>3, Known, GoesOn DEF PC
<1>3. CASE PasswordOnetime(r)
  BY <1>0, <1>3, Known, Ends DEF PasswordOnetime
<1>4. CASE ValidateLogin(r)
  <2>1. PICK secret \in 1..secrets :
          Goes(r, [Begun("validateLogin", "createSession") EXCEPT !.secret = secret], {})
    BY <1>4 DEF ValidateLogin
  <2> DEFINE q == [Begun("validateLogin", "createSession") EXCEPT !.secret = secret]
  <2>2. q \in Request /\ RequestOK(q, DOMAIN forgots, DOMAIN sessions, secrets)
    BY Known DEF Begun, Request, RequestOK, NoEntity, Entity, Op, PC
  <2>3. UNCHANGED <<user, secrets, sessions, forgots>> /\ user.state # "none"
    BY <1>4 DEF ValidateLogin, Found
  <2> HIDE DEF q
  <2> QED BY <2>1, <2>2, <2>3, BeginsInv DEF q
<1>5. CASE CreateSession(r)
  <2>1. /\ sessions' = Append(sessions, "open") /\ Goes(r, Idle, {"session"})
        /\ UNCHANGED <<user, secrets, forgots>> /\ user.state # "none"
    BY <1>5, Known DEF CreateSession
  <2>2. sessions' \in Seq({"open", "closed"}) /\ DOMAIN sessions \subseteq DOMAIN sessions'
    BY <2>1, Known, OneMore
  <2> QED BY <1>0, <2>1, <2>2, Known, Ends
<1> QED BY <1>1, <1>2, <1>3, <1>4, <1>5

LEMMA SocialLoginInv ==
  ASSUME SessionInv, NEW r \in Client,
         \/ SocialLoginKnown(r) \/ SocialLoginByEmail(r) \/ SocialLoginNew(r)
         \/ CreateUser(r) \/ FindUser(r) \/ UpdateSocial(r)
  PROVE  SessionInv'
<1>0. {} \in SUBSET Table /\ {"user"} \in SUBSET Table
  BY DEF Table
<1>1. CASE SocialLoginKnown(r)
  <2> DEFINE q == [Begun("validateSocialLogin", "updateSocial") EXCEPT !.seen = user.entity]
  <2>1. q \in Request /\ RequestOK(q, DOMAIN forgots, DOMAIN sessions, secrets)
    BY Known DEF Begun, Request, RequestOK, UserOK, User, Op, PC
  <2>2. Goes(r, q, {}) /\ UNCHANGED <<user, secrets, sessions, forgots>> /\ user.state # "none"
    BY <1>1 DEF SocialLoginKnown, Found
  <2> HIDE DEF q
  <2> QED BY <2>1, <2>2, BeginsInv
<1>2. CASE SocialLoginByEmail(r)
  <2> DEFINE q == Begun("validateSocialLogin", "createSession")
  <2>1. q \in Request /\ RequestOK(q, DOMAIN forgots, DOMAIN sessions, secrets)
    BY Known DEF Begun, Request, RequestOK, NoEntity, Entity, Op, PC
  <2>2. Goes(r, q, {}) /\ UNCHANGED <<user, secrets, sessions, forgots>> /\ user.state # "none"
    BY <1>2 DEF SocialLoginByEmail, Found
  <2> HIDE DEF q
  <2> QED BY <2>1, <2>2, BeginsInv
<1>3. CASE SocialLoginNew(r)
  <2> DEFINE q == Begun("validateSocialLogin", "createUser")
  <2>1. q \in Request /\ RequestOK(q, DOMAIN forgots, DOMAIN sessions, secrets) /\ q.pc = "createUser"
    BY Known DEF Begun, Request, RequestOK, NoEntity, Entity, Op, PC
  <2>2. Goes(r, q, {}) /\ UNCHANGED <<user, secrets, sessions, forgots>>
    BY <1>3 DEF SocialLoginNew
  <2> HIDE DEF q
  <2> QED BY <2>1, <2>2, BeginsInv
<1>4. CASE CreateUser(r)
  <2>1. req[r].pc = "createUser" /\ UNCHANGED <<secrets, sessions, forgots>>
    BY <1>4 DEF CreateUser
  <2>2. CASE user.state = "none"
    <3>1. /\ user' = [state |-> "live", provider |-> "social", entity |-> NoEntity]
          /\ Goes(r, At(r, "findUser"), {"user"})
      BY <1>4, <2>2 DEF CreateUser
    <3>2. user' \in User /\ UserOK(user', secrets) /\ user'.state # "none"
      BY <3>1, Known DEF User, UserOK, Entity, NoEntity
    <3> QED BY <1>0, <2>1, <3>1, <3>2, Known, GoesOn DEF RequestOK, PC
  <2>3. CASE user.state # "none"
    <3>1. Goes(r, Idle, {}) /\ UNCHANGED user
      BY <1>4, <2>3 DEF CreateUser
    <3> QED BY <1>0, <2>1, <3>1, Known, Ends
  <2> QED BY <2>2, <2>3
<1>5. CASE FindUser(r)
  <2>1. req[r].pc = "findUser" /\ UNCHANGED <<user, secrets, sessions, forgots>>
    BY <1>5 DEF FindUser
  <2>2. CASE Found
    <3>1. Goes(r, At(r, "createSession"), {})
      BY <1>5, <2>2 DEF FindUser
    <3> QED BY <1>0, <2>1, <2>2, <3>1, Known, GoesOn DEF PC, Found
  <2>3. CASE ~Found
    <3>1. Goes(r, Idle, {})
      BY <1>5, <2>3 DEF FindUser
    <3> QED BY <1>0, <2>1, <3>1, Known, Ends
  <2> QED BY <2>2, <2>3
<1>6. CASE UpdateSocial(r)
  <2> DEFINE q == [At(r, "createSession") EXCEPT !.seen = NoEntity]
  <2>1. /\ req[r].pc = "updateSocial" /\ user' = [user EXCEPT !.entity = SavedSocial(req[r].seen)]
        /\ Goes(r, q, {"user"}) /\ UNCHANGED <<secrets, sessions, forgots>>
    BY <1>6 DEF UpdateSocial
  <2>2. SavedSocial(req[r].seen) \in Entity /\ SavedSocial(req[r].seen).secret = req[r].seen.secret
    BY Known DEF SavedSocial, Entity
  <2>3. user.state # "none"
    BY <2>1, Known
  <2>4. user' \in User /\ UserOK(user', secrets) /\ user'.state # "none"
    BY <2>1, <2>2, <2>3, Known DEF User, UserOK, RequestOK
  <2>5. NoEntity \in Entity /\ NoEntity.secret = 0
    BY DEF NoEntity, Entity
  <2>6. q \in Request /\ q.pc = "createSession" /\ q.secret = req[r].secret /\ q.seen = NoEntity
    BY <2>5, Known DEF At, Request, PC
  <2> HIDE DEF q
  <2>7. RequestOK(q, DOMAIN forgots, DOMAIN sessions, secrets)
    BY <2>5, <2>6, Known DEF RequestOK
  <2> QED BY <1>0, <2>1, <2>3, <2>4, <2>6, <2>7, Known, StepInv
<1> QED BY <1>1, <1>2, <1>3, <1>4, <1>5, <1>6

LEMMA ResetInv ==
  ASSUME SessionInv, NEW r \in Client,
         \/ ForgotPassword(r) \/ CreateForgot(r)
         \/ ResetPassword(r) \/ CloseSessions(r) \/ SaveUser(r) \/ CloseForgot(r)
  PROVE  SessionInv'
<1>0. {} \in SUBSET Table /\ \A t \in Table : {t} \in SUBSET Table
  BY DEF Table
<1>1. CASE ForgotPassword(r)
  <2> DEFINE q == Begun("forgotPassword", "createForgot")
  <2>1. q \in Request /\ RequestOK(q, DOMAIN forgots, DOMAIN sessions, secrets)
    BY Known DEF Begun, Request, RequestOK, NoEntity, Entity, Op, PC
  <2>2. Goes(r, q, {}) /\ UNCHANGED <<user, secrets, sessions, forgots>> /\ user.state # "none"
    BY <1>1 DEF ForgotPassword, Found
  <2> HIDE DEF q
  <2> QED BY <2>1, <2>2, BeginsInv
<1>2. CASE CreateForgot(r)
  <2>1. forgots' = Append(forgots, "open") /\ Goes(r, Idle, {"forgot"}) /\ UNCHANGED <<user, secrets, sessions>>
    BY <1>2 DEF CreateForgot
  <2>2. forgots' \in Seq({"open", "closed"}) /\ DOMAIN forgots \subseteq DOMAIN forgots'
    BY <2>1, Known, OneMore
  <2> QED BY <1>0, <2>1, <2>2, Known, Ends DEF Table
<1>3. CASE ResetPassword(r)
  <2>1. PICK f \in UsableForgot, new \in Password :
          Goes(r, [Begun("resetPassword", "closeSessions")
                     EXCEPT !.forgot = f, !.password = new, !.seen = user.entity], {})
    BY <1>3 DEF ResetPassword
  <2> DEFINE q == [Begun("resetPassword", "closeSessions")
                     EXCEPT !.forgot = f, !.password = new, !.seen = user.entity]
  <2>2. f \in Nat /\ f \in DOMAIN forgots
    BY Known DEF UsableForgot
  <2>3. user.entity \in Entity /\ user.entity.secret <= secrets
    BY Known DEF User, UserOK
  <2>4. /\ q \in Request /\ q.pc = "closeSessions" /\ q.forgot = f /\ q.password = new
        /\ q.secret = 0 /\ q.seen = user.entity
    BY <2>2, <2>3 DEF Begun, Request, NoEntity, Op, PC
  <2>5. UNCHANGED <<user, secrets, sessions, forgots>> /\ user.state # "none"
    BY <1>3 DEF ResetPassword, Found
  <2>6. Goes(r, q, {})
    BY <2>1
  <2> HIDE DEF q
  <2>7. RequestOK(q, DOMAIN forgots, DOMAIN sessions, secrets)
    BY <2>2, <2>3, <2>4, Known DEF RequestOK
  <2> QED BY <2>4, <2>5, <2>6, <2>7, BeginsInv
<1>4. CASE CloseSessions(r)
  <2>1. /\ req[r].pc = "closeSessions" /\ sessions' = [s \in DOMAIN sessions |-> "closed"]
        /\ Goes(r, At(r, "saveUser"), {"session"}) /\ UNCHANGED <<user, secrets, forgots>>
    BY <1>4 DEF CloseSessions
  <2>2. sessions' \in Seq({"open", "closed"}) /\ DOMAIN sessions' = DOMAIN sessions
    BY <2>1, Known, RowsRemain
  <2>3. user.state # "none" /\ req[r].forgot \in DOMAIN forgots /\ req[r].password \in Password
    BY <2>1, Known DEF RequestOK
  <2> QED BY <1>0, <2>1, <2>2, <2>3, Known, GoesOn DEF PC, Table
<1>5. CASE SaveUser(r)
  <2> DEFINE q == [At(r, "closeForgot") EXCEPT !.seen = NoEntity]
             e == SavedReset(req[r].seen, req[r].password)
  <2>1. /\ req[r].pc = "saveUser" /\ user' = [user EXCEPT !.entity = e]
        /\ Goes(r, q, {"user"}) /\ UNCHANGED <<secrets, sessions, forgots>>
    BY <1>5 DEF SaveUser
  <2>2. user.state # "none" /\ req[r].forgot \in DOMAIN forgots /\ req[r].password \in Password
    BY <2>1, Known DEF RequestOK
  <2>3. e \in Entity /\ e.secret = req[r].seen.secret
    BY <2>2, Known DEF SavedReset, Entity
  <2>a. NoEntity \in Entity /\ NoEntity.secret = 0
    BY DEF NoEntity, Entity
  <2>b. /\ q \in Request /\ q.pc = "closeForgot" /\ q.secret = req[r].secret
        /\ q.seen = NoEntity /\ q.forgot = req[r].forgot
    BY <2>a, Known DEF At, Request, PC
  <2> HIDE DEF q, e
  <2>4. RequestOK(q, DOMAIN forgots, DOMAIN sessions, secrets)
    BY <2>a, <2>b, <2>2, Known DEF RequestOK
  <2>5. user' \in User /\ UserOK(user', secrets) /\ user'.state # "none"
    BY <2>1, <2>2, <2>3, Known DEF User, UserOK, RequestOK
  <2> QED BY <1>0, <2>1, <2>2, <2>b, <2>4, <2>5, Known, StepInv DEF Table
<1>6. CASE CloseForgot(r)
  <2>1. /\ req[r].pc = "closeForgot" /\ forgots' = [forgots EXCEPT ![req[r].forgot] = "closed"]
        /\ Goes(r, Idle, {"forgot"}) /\ UNCHANGED <<user, secrets, sessions>>
    BY <1>6 DEF CloseForgot
  <2>2. req[r].forgot \in DOMAIN forgots
    BY <2>1, Known DEF RequestOK
  <2>3. forgots' \in Seq({"open", "closed"}) /\ DOMAIN forgots' = DOMAIN forgots
    BY <2>1, <2>2, Known, OneCloses
  <2> QED BY <1>0, <2>1, <2>3, Known, Ends DEF Table
<1> QED BY <1>1, <1>2, <1>3, <1>4, <1>5, <1>6

LEMMA TokenInv ==
  ASSUME SessionInv, NEW r \in Client,
         \/ Update(r) \/ CloseOthers(r) \/ SavePassword(r)
         \/ RefreshToken(r) \/ SignToken(r) \/ Logout(r)
         \/ Delete(r) \/ LogoutDeleted(r) \/ Abort(r)
  PROVE  SessionInv'
<1>0. {} \in SUBSET Table /\ {"user"} \in SUBSET Table /\ {"session"} \in SUBSET Table
  BY DEF Table
<1>a. DOMAIN sessions \subseteq Nat /\ NoEntity \in Entity /\ NoEntity.secret = 0
  BY Known DEF NoEntity, Entity
<1>1. CASE Update(r)
  <2>1. PICK s \in DOMAIN sessions, new \in Password :
          Goes(r, [Begun("update", "closeOthers") EXCEPT !.session = s, !.password = new], {})
    BY <1>1 DEF Update
  <2> DEFINE q == [Begun("update", "closeOthers") EXCEPT !.session = s, !.password = new]
  <2>2. q \in Request /\ q.pc = "closeOthers" /\ q.password = new /\ q.secret = 0 /\ q.seen = NoEntity
    BY <1>a DEF Begun, Request, Op, PC
  <2>3. UNCHANGED <<user, secrets, sessions, forgots>> /\ user.state # "none"
    BY <1>1 DEF Update, Found
  <2>4. Goes(r, q, {})
    BY <2>1
  <2> HIDE DEF q
  <2>5. RequestOK(q, DOMAIN forgots, DOMAIN sessions, secrets)
    BY <1>a, <2>2, Known DEF RequestOK
  <2> QED BY <2>2, <2>3, <2>4, <2>5, BeginsInv
<1>2. CASE CloseOthers(r)
  <2>1. /\ req[r].pc = "closeOthers" /\ sessions' = ClosedBut(req[r].session)
        /\ Goes(r, At(r, "savePassword"), {"session"}) /\ UNCHANGED <<user, secrets, forgots>>
    BY <1>2 DEF CloseOthers
  <2>2. sessions' = [s \in DOMAIN sessions |-> IF s = req[r].session THEN sessions[s] ELSE "closed"]
    BY <2>1 DEF ClosedBut
  <2>3. sessions' = [s \in DOMAIN sessions |-> sessions'[s]]
    BY <2>2
  <2>4. \A s \in DOMAIN sessions : sessions'[s] \in {"open", "closed"}
    BY <2>2, Known
  <2>5. sessions' \in Seq({"open", "closed"}) /\ DOMAIN sessions' = DOMAIN sessions
    BY <2>3, <2>4, Known, RowsRemain
  <2>6. user.state # "none" /\ req[r].password \in Password
    BY <2>1, Known DEF RequestOK
  <2> QED BY <1>0, <2>1, <2>5, <2>6, Known, GoesOn DEF PC
<1>3. CASE SavePassword(r)
  <2>1. /\ req[r].pc = "savePassword" /\ user' = [user EXCEPT !.entity.password = req[r].password]
        /\ Goes(r, Idle, {"user"}) /\ UNCHANGED <<secrets, sessions, forgots>>
    BY <1>3 DEF SavePassword
  <2>2. user.state # "none" /\ req[r].password \in Password
    BY <2>1, Known DEF RequestOK
  <2>3. user' \in User /\ user'.state = user.state /\ user'.entity.secret = user.entity.secret
    BY <2>1, <2>2, Known DEF User, Entity
  <2>4. UserOK(user', secrets)
    BY <2>2, <2>3, Known DEF UserOK
  <2> QED BY <1>0, <2>1, <2>2, <2>3, <2>4, Known, Ends
<1>4. CASE RefreshToken(r)
  <2>1. PICK s \in Open :
          Goes(r, [Begun("refreshToken", "signToken") EXCEPT !.session = s], {})
    BY <1>4 DEF RefreshToken
  <2> DEFINE q == [Begun("refreshToken", "signToken") EXCEPT !.session = s]
  <2>2. q \in Request /\ q.pc = "signToken" /\ q.secret = 0 /\ q.seen = NoEntity
    BY <1>a DEF Begun, Request, Op, PC, Open
  <2>3. UNCHANGED <<user, secrets, sessions, forgots>> /\ user.state # "none"
    BY <1>4 DEF RefreshToken, Found
  <2>4. Goes(r, q, {})
    BY <2>1
  <2> HIDE DEF q
  <2>5. RequestOK(q, DOMAIN forgots, DOMAIN sessions, secrets)
    BY <1>a, <2>2, Known DEF RequestOK
  <2> QED BY <2>2, <2>3, <2>4, <2>5, BeginsInv
<1>5. CASE SignToken(r) \/ Abort(r)
  BY <1>0, <1>5, Known, Ends DEF SignToken, Abort
<1>6. CASE Logout(r)
  <2>1. PICK s \in Open : sessions' = [sessions EXCEPT ![s] = "closed"]
    BY <1>6 DEF Logout
  <2>2. sessions' \in Seq({"open", "closed"}) /\ DOMAIN sessions' = DOMAIN sessions
    BY <2>1, Known, OneCloses DEF Open
  <2> QED BY <1>0, <1>6, <2>2, Known, Ends DEF Logout
<1>7. CASE Delete(r)
  <2>1. PICK s \in DOMAIN sessions :
          Goes(r, [Begun("delete", "logout") EXCEPT !.session = s], {"user"})
    BY <1>7 DEF Delete
  <2> DEFINE q == [Begun("delete", "logout") EXCEPT !.session = s]
  <2>2. q \in Request /\ q.pc = "logout" /\ q.session = s /\ q.secret = 0 /\ q.seen = NoEntity
    BY <1>a DEF Begun, Request, Op, PC
  <2>3. user' = Deleted /\ UNCHANGED <<secrets, sessions, forgots>>
    BY <1>7 DEF Delete
  <2>4. Goes(r, q, {"user"})
    BY <2>1
  <2> HIDE DEF q
  <2>5. RequestOK(q, DOMAIN forgots, DOMAIN sessions, secrets)
    BY <1>a, <2>2, Known DEF RequestOK
  <2>6. /\ user' \in User /\ user'.entity = user.entity
        /\ user'.state = "none" <=> user.state = "none"
    BY <2>3, Known DEF Deleted, User
  <2>7. user.state # "none"
    BY Known
  <2> QED BY <1>0, <2>2, <2>3, <2>4, <2>5, <2>6, <2>7, Known, StepInv DEF UserOK
<1>8. CASE LogoutDeleted(r)
  <2>1. /\ req[r].pc = "logout" /\ sessions' = [sessions EXCEPT ![req[r].session] = "closed"]
        /\ Goes(r, Idle, {"session"}) /\ UNCHANGED <<user, secrets, forgots>>
    BY <1>8 DEF LogoutDeleted
  <2>2. req[r].session \in DOMAIN sessions
    BY <2>1, Known DEF RequestOK
  <2>3. sessions' \in Seq({"open", "closed"}) /\ DOMAIN sessions' = DOMAIN sessions
    BY <2>1, <2>2, Known, OneCloses
  <2> QED BY <1>0, <2>1, <2>3, Known, Ends
<1> QED BY <1>1, <1>2, <1>3, <1>4, <1>5, <1>6, <1>7, <1>8

LEMMA StepKeeps ==
  ASSUME SessionInv, NEW r \in Client, Step(r)
  PROVE  SessionInv'
  BY RegisterInv, LoginInv, SocialLoginInv, ResetInv, TokenInv DEF Step

LEMMA NextInv ==
  ASSUME SessionInv, [Next]_vars
  PROVE  SessionInv'
<1>1. CASE UNCHANGED vars
  <2>1. TypeOK'
    BY <1>1 DEF vars, SessionInv, TypeOK
  <2> QED BY <1>1, <2>1 DEF vars, SessionInv, SecretsKnown, AccountFirst
<1> QED BY <1>1, StepKeeps DEF Next

LEMMA InvHolds == Spec => []SessionInv
  BY InitInv, NextInv, PTL DEF Spec

\* Every variable keeps its type, for any clients, passwords and bounds.
THEOREM TypeCorrect == Spec => []TypeOK
  BY InvHolds, PTL DEF SessionInv

-----------------------------------------------------------------------------
(* RequestsAreCurrent, which is inductive on top of the invariant *)

\* What a request in state q relies on of each table.
UserCurrent(q, u) ==
  /\ q.pc \in {"mail"} => u.entity.secret = q.secret
  /\ q.pc \in {"createSession", "signToken", "updateSocial", "closeSessions",
              "saveUser", "closeForgot", "closeOthers", "savePassword"}
       => u.state = "live"
  /\ q.pc = "createSession" /\ q.op = "validateLogin" => q.secret = u.entity.secret
  /\ q.pc \in {"updateSocial", "closeSessions", "saveUser"} => q.seen = u.entity
  /\ q.pc = "closeForgot" => u.entity.password = q.password

SessionCurrent(q, open) ==
  /\ q.pc \in {"saveUser", "closeForgot"} => open = {}
  /\ q.pc = "savePassword" => open \subseteq {q.session}
  /\ q.pc = "signToken" => q.session \in open

ForgotCurrent(q, table) ==
  q.pc \in {"closeSessions", "saveUser", "closeForgot"} => table[q.forgot] = "open"

Current(r) ==
  /\ Fresh(r, "user") => UserCurrent(req[r], user)
  /\ Fresh(r, "session") => SessionCurrent(req[r], Open)
  /\ Fresh(r, "forgot") => ForgotCurrent(req[r], forgots)

\* The three parts together are what RequestsAreCurrent says.
LEMMA CurrentParts == RequestsAreCurrent <=> \A r \in Client : Current(r)
  BY DEF RequestsAreCurrent, Current, UserCurrent, SessionCurrent, ForgotCurrent, Verified

\* An idle request relies on nothing.
LEMMA IdleCurrent ==
  ASSUME NEW q, q.pc = "idle", NEW u, NEW open, NEW table
  PROVE  UserCurrent(q, u) /\ SessionCurrent(q, open) /\ ForgotCurrent(q, table)
  BY DEF UserCurrent, SessionCurrent, ForgotCurrent

\* What has to be shown of a step of r: which tables it leaves alone, and what r goes
\* on with.  Every other request that relies on a table written is overtaken.
LEMMA StepCurrent ==
  ASSUME TypeOK, RequestsAreCurrent,
         NEW r \in Client, NEW q \in Request, NEW w \in SUBSET Table, Goes(r, q, w),
         "user" \in w \/ UNCHANGED user,
         "session" \in w \/ UNCHANGED sessions,
         "forgot" \in w \/ UNCHANGED forgots,
         q.pc = "idle" \/ /\ Fresh(r, "user") => UserCurrent(q, user')
                          /\ Fresh(r, "session") => SessionCurrent(q, Open')
                          /\ Fresh(r, "forgot") => ForgotCurrent(q, forgots')
  PROVE  RequestsAreCurrent'
<1>1. /\ req'[r] = q /\ \A p \in Client \ {r} : req'[p] = req[p]
      /\ q.pc # "idle" => \A t \in Table : Fresh(r, t)' => Fresh(r, t)
      /\ \A p \in Client \ {r} : \A t \in Table :
           Fresh(p, t)' /\ req[p].pc # "idle" => Fresh(p, t) /\ t \notin w
  BY GoesFrame
<1>2. {"user", "session", "forgot"} \subseteq Table
  BY DEF Table
<1>3. UNCHANGED sessions => Open' = Open
  BY DEF Open
<1>4. ASSUME NEW p \in Client
      PROVE  /\ Fresh(p, "user")' => UserCurrent(req'[p], user')
             /\ Fresh(p, "session")' => SessionCurrent(req'[p], Open')
             /\ Fresh(p, "forgot")' => ForgotCurrent(req'[p], forgots')
  <2>1. CASE req'[p].pc = "idle"
    BY <2>1, IdleCurrent
  <2>2. CASE p = r /\ q.pc # "idle"
    BY <1>1, <1>2, <2>2
  <2>3. CASE p # r /\ req[p].pc # "idle"
    <3>1. req'[p] = req[p] /\ Current(p)
      BY <1>1, <2>3, CurrentParts
    <3>2. \A t \in Table : Fresh(p, t)' => Fresh(p, t) /\ t \notin w
      BY <1>1, <2>3
    <3> QED BY <1>2, <1>3, <3>1, <3>2 DEF Current
  <2> QED BY <1>1, <2>1, <2>2, <2>3
<1> QED BY <1>4 DEF RequestsAreCurrent, UserCurrent, SessionCurrent, ForgotCurrent, Verified

\* The same for a request that ends, and for one that goes on with what it has.
LEMMA EndsCurrent ==
  ASSUME TypeOK, RequestsAreCurrent,
         NEW r \in Client, NEW w \in SUBSET Table, Goes(r, Idle, w),
         "user" \in w \/ UNCHANGED user,
         "session" \in w \/ UNCHANGED sessions,
         "forgot" \in w \/ UNCHANGED forgots
  PROVE  RequestsAreCurrent'
<1>1. Idle \in Request /\ Idle.pc = "idle"
  BY DEF Idle, Begun, Request, Op, PC, NoEntity, Entity
<1> QED BY <1>1, StepCurrent

\* The fields of a request that goes on to pc.
LEMMA AtFields ==
  ASSUME TypeOK, NEW r \in Client, NEW pc \in PC
  PROVE  /\ At(r, pc) \in Request /\ At(r, pc).pc = pc /\ At(r, pc).op = req[r].op
         /\ At(r, pc).secret = req[r].secret /\ At(r, pc).seen = req[r].seen
         /\ At(r, pc).forgot = req[r].forgot /\ At(r, pc).session = req[r].session
         /\ At(r, pc).password = req[r].password
  BY DEF At, TypeOK, Request

LEMMA LoginCurrent ==
  ASSUME SessionInv, RequestsAreCurrent, NEW r \in Client,
         \/ Register(r) \/ CreateProfile(r) \/ CheckEmailExists(r) \/ UpdateSecret(r)
         \/ PasswordOnetime(r) \/ ValidateLogin(r) \/ CreateSession(r)
  PROVE  RequestsAreCurrent'
<1>0. TypeOK /\ {} \in SUBSET Table /\ {"user"} \in SUBSET Table /\ {"session"} \in SUBSET Table
  BY Known DEF Table
<1>1. CASE Register(r)
  <2> DEFINE n == secrets'
             q == [Begun("register", "mail") EXCEPT !.secret = secrets']
  <2>1. /\ secrets' = secrets + 1
        /\ user' = [state |-> "live", provider |-> "email", entity |-> [NoEntity EXCEPT !.secret = secrets']]
        /\ Goes(r, q, {"user"}) /\ UNCHANGED <<sessions, forgots>>
    BY <1>1 DEF Register
  <2>2. q \in Request /\ q.pc = "mail" /\ q.secret = secrets'
    BY <2>1, Known DEF Begun, Request, NoEntity, Entity, Op, PC
  <2>3. user'.entity.secret = secrets'
    BY <2>1 DEF NoEntity
  <2>5. UNCHANGED sessions /\ UNCHANGED forgots
    BY <2>1
  <2> HIDE DEF q
  <2>4. UserCurrent(q, user') /\ SessionCurrent(q, Open') /\ ForgotCurrent(q, forgots')
    BY <2>2, <2>3 DEF UserCurrent, SessionCurrent, ForgotCurrent
  <2> QED BY <1>0, <2>1, <2>2, <2>4, <2>5, StepCurrent
<1>2. CASE CreateProfile(r) \/ PasswordOnetime(r)
  BY <1>0, <1>2, EndsCurrent DEF CreateProfile, PasswordOnetime
<1>3. CASE CheckEmailExists(r)
  <2> DEFINE q == [Begun("checkEmailExists", "updateSecret") EXCEPT !.secret = secrets']
  <2>1. secrets' = secrets + 1 /\ Goes(r, q, {}) /\ UNCHANGED <<user, sessions, forgots>>
    BY <1>3 DEF CheckEmailExists
  <2>2. q \in Request /\ q.pc = "updateSecret"
    BY <2>1, Known DEF Begun, Request, NoEntity, Entity, Op, PC
  <2> HIDE DEF q
  <2>3. UserCurrent(q, user') /\ SessionCurrent(q, Open') /\ ForgotCurrent(q, forgots')
    BY <2>2 DEF UserCurrent, SessionCurrent, ForgotCurrent
  <2> QED BY <1>0, <2>1, <2>2, <2>3, StepCurrent
<1>4. CASE UpdateSecret(r)
  <2> DEFINE q == At(r, "mail")
  <2>1. /\ user' = [user EXCEPT !.entity.secret = req[r].secret] /\ Goes(r, q, {"user"})
        /\ UNCHANGED <<sessions, forgots>>
    BY <1>4 DEF UpdateSecret
  <2>2. q \in Request /\ q.pc = "mail" /\ q.secret = req[r].secret
    BY <1>0, AtFields DEF PC
  <2>3. user'.entity.secret = req[r].secret
    BY <2>1, Known DEF User, Entity
  <2> HIDE DEF q
  <2>4. UserCurrent(q, user') /\ SessionCurrent(q, Open') /\ ForgotCurrent(q, forgots')
    BY <2>2, <2>3 DEF UserCurrent, SessionCurrent, ForgotCurrent
  <2> QED BY <1>0, <2>1, <2>2, <2>4, StepCurrent
<1>5. CASE ValidateLogin(r)
  <2>1. PICK secret \in 1..secrets :
          /\ Verified(secret)
          /\ Goes(r, [Begun("validateLogin", "createSession") EXCEPT !.secret = secret], {})
    BY <1>5 DEF ValidateLogin
  <2> DEFINE q == [Begun("validateLogin", "createSession") EXCEPT !.secret = secret]
  <2>2. Goes(r, q, {}) /\ UNCHANGED <<user, sessions, forgots>> /\ user.state = "live"
    BY <1>5, <2>1 DEF ValidateLogin, Found
  <2>3. q \in Request /\ q.pc = "createSession" /\ q.secret = secret
    BY Known DEF Begun, Request, NoEntity, Entity, Op, PC
  <2> HIDE DEF q
  <2>4. UserCurrent(q, user') /\ SessionCurrent(q, Open') /\ ForgotCurrent(q, forgots')
    BY <2>1, <2>2, <2>3 DEF UserCurrent, SessionCurrent, ForgotCurrent, Verified
  <2> QED BY <1>0, <2>2, <2>3, <2>4, StepCurrent
<1>6. CASE CreateSession(r)
  BY <1>0, <1>6, EndsCurrent DEF CreateSession
<1> QED BY <1>1, <1>2, <1>3, <1>4, <1>5, <1>6

LEMMA SocialLoginCurrent ==
  ASSUME SessionInv, RequestsAreCurrent, NEW r \in Client,
         \/ SocialLoginKnown(r) \/ SocialLoginByEmail(r) \/ SocialLoginNew(r)
         \/ CreateUser(r) \/ FindUser(r) \/ UpdateSocial(r)
  PROVE  RequestsAreCurrent'
<1>0. /\ TypeOK /\ {} \in SUBSET Table /\ {"user"} \in SUBSET Table
      /\ NoEntity \in Entity /\ Current(r)
  BY Known, CurrentParts DEF Table, NoEntity, Entity
<1>1. CASE SocialLoginKnown(r)
  <2> DEFINE q == [Begun("validateSocialLogin", "updateSocial") EXCEPT !.seen = user.entity]
  <2>1. Goes(r, q, {}) /\ UNCHANGED <<user, sessions, forgots>> /\ user.state = "live"
    BY <1>1 DEF SocialLoginKnown, Found
  <2>2. q \in Request /\ q.pc = "updateSocial" /\ q.seen = user.entity
    BY Known DEF Begun, Request, Op, PC, User
  <2> HIDE DEF q
  <2>3. UserCurrent(q, user') /\ SessionCurrent(q, Open') /\ ForgotCurrent(q, forgots')
    BY <2>1, <2>2 DEF UserCurrent, SessionCurrent, ForgotCurrent
  <2> QED BY <1>0, <2>1, <2>2, <2>3, StepCurrent
<1>2. CASE SocialLoginByEmail(r)
  <2> DEFINE q == Begun("validateSocialLogin", "createSession")
  <2>1. Goes(r, q, {}) /\ UNCHANGED <<user, sessions, forgots>> /\ user.state = "live"
    BY <1>2 DEF SocialLoginByEmail, Found
  <2>2. q \in Request /\ q.pc = "createSession" /\ q.op = "validateSocialLogin"
    BY Begins DEF Op, PC
  <2> HIDE DEF q
  <2>3. UserCurrent(q, user') /\ SessionCurrent(q, Open') /\ ForgotCurrent(q, forgots')
    BY <2>1, <2>2 DEF UserCurrent, SessionCurrent, ForgotCurrent
  <2> QED BY <1>0, <2>1, <2>2, <2>3, StepCurrent
<1>3. CASE SocialLoginNew(r)
  <2> DEFINE q == Begun("validateSocialLogin", "createUser")
  <2>1. Goes(r, q, {}) /\ UNCHANGED <<user, sessions, forgots>>
    BY <1>3 DEF SocialLoginNew
  <2>2. q \in Request /\ q.pc = "createUser"
    BY Begins DEF Op, PC
  <2> HIDE DEF q
  <2>3. UserCurrent(q, user') /\ SessionCurrent(q, Open') /\ ForgotCurrent(q, forgots')
    BY <2>2 DEF UserCurrent, SessionCurrent, ForgotCurrent
  <2> QED BY <1>0, <2>1, <2>2, <2>3, StepCurrent
<1>4. CASE CreateUser(r)
  <2>1. CASE user.state = "none"
    <3> DEFINE q == At(r, "findUser")
    <3>1. Goes(r, q, {"user"}) /\ UNCHANGED <<sessions, forgots>>
      BY <1>4, <2>1 DEF CreateUser
    <3>2. q \in Request /\ q.pc = "findUser"
      BY <1>0, AtFields DEF PC
    <3> HIDE DEF q
    <3>3. UserCurrent(q, user') /\ SessionCurrent(q, Open') /\ ForgotCurrent(q, forgots')
      BY <3>2 DEF UserCurrent, SessionCurrent, ForgotCurrent
    <3> QED BY <1>0, <3>1, <3>2, <3>3, StepCurrent
  <2>2. CASE user.state # "none"
    BY <1>0, <1>4, <2>2, EndsCurrent DEF CreateUser
  <2> QED BY <2>1, <2>2
<1>5. CASE FindUser(r)
  <2>1. CASE Found
    <3> DEFINE q == At(r, "createSession")
    <3>1. Goes(r, q, {}) /\ UNCHANGED <<user, sessions, forgots>> /\ user.state = "live"
      BY <1>5, <2>1 DEF FindUser, Found
    <3>2. q \in Request /\ q.pc = "createSession" /\ q.op = "validateSocialLogin"
      BY <1>0, <1>5, Known, AtFields DEF PC, FindUser, RequestOK
    <3> HIDE DEF q
    <3>3. UserCurrent(q, user') /\ SessionCurrent(q, Open') /\ ForgotCurrent(q, forgots')
      BY <3>1, <3>2 DEF UserCurrent, SessionCurrent, ForgotCurrent
    <3> QED BY <1>0, <3>1, <3>2, <3>3, StepCurrent
  <2>2. CASE ~Found
    BY <1>0, <1>5, <2>2, EndsCurrent DEF FindUser
  <2> QED BY <2>1, <2>2
<1>6. CASE UpdateSocial(r)
  <2> DEFINE q == [At(r, "createSession") EXCEPT !.seen = NoEntity]
  <2>1. /\ user' = [user EXCEPT !.entity = SavedSocial(req[r].seen)] /\ Goes(r, q, {"user"})
        /\ UNCHANGED <<sessions, forgots>> /\ req[r].pc = "updateSocial"
    BY <1>6 DEF UpdateSocial
  <2>2. q \in Request /\ q.pc = "createSession" /\ q.op = req[r].op
    BY <1>0, AtFields DEF Request, PC
  <2>3. req[r].op = "validateSocialLogin" /\ user'.state = user.state
    BY <2>1, Known DEF RequestOK, User
  <2> HIDE DEF q
  <2>4. /\ Fresh(r, "user") => UserCurrent(q, user')
        /\ SessionCurrent(q, Open') /\ ForgotCurrent(q, forgots')
    BY <1>0, <2>1, <2>2, <2>3 DEF Current, UserCurrent, SessionCurrent, ForgotCurrent
  <2> QED BY <1>0, <2>1, <2>2, <2>4, StepCurrent
<1> QED BY <1>1, <1>2, <1>3, <1>4, <1>5, <1>6

LEMMA ResetCurrent ==
  ASSUME SessionInv, RequestsAreCurrent, NEW r \in Client,
         \/ ForgotPassword(r) \/ CreateForgot(r)
         \/ ResetPassword(r) \/ CloseSessions(r) \/ SaveUser(r) \/ CloseForgot(r)
  PROVE  RequestsAreCurrent'
<1>0. /\ TypeOK /\ {} \in SUBSET Table /\ \A t \in {"user", "session", "forgot"} : {t} \in SUBSET Table
      /\ NoEntity \in Entity /\ Current(r)
  BY Known, CurrentParts DEF Table, NoEntity, Entity
<1>1. CASE ForgotPassword(r)
  <2> DEFINE q == Begun("forgotPassword", "createForgot")
  <2>1. Goes(r, q, {}) /\ UNCHANGED <<user, sessions, forgots>>
    BY <1>1 DEF ForgotPassword
  <2>2. q \in Request /\ q.pc = "createForgot"
    BY Begins DEF Op, PC
  <2> HIDE DEF q
  <2>3. UserCurrent(q, user') /\ SessionCurrent(q, Open') /\ ForgotCurrent(q, forgots')
    BY <2>2 DEF UserCurrent, SessionCurrent, ForgotCurrent
  <2> QED BY <1>0, <2>1, <2>2, <2>3, StepCurrent
<1>2. CASE CreateForgot(r) \/ CloseForgot(r)
  BY <1>0, <1>2, EndsCurrent DEF CreateForgot, CloseForgot
<1>3. CASE ResetPassword(r)
  <2>1. PICK f \in UsableForgot, new \in Password :
          Goes(r, [Begun("resetPassword", "closeSessions")
                     EXCEPT !.forgot = f, !.password = new, !.seen = user.entity], {})
    BY <1>3 DEF ResetPassword
  <2> DEFINE q == [Begun("resetPassword", "closeSessions")
                     EXCEPT !.forgot = f, !.password = new, !.seen = user.entity]
  <2>2. f \in Nat /\ forgots[f] = "open" /\ user.entity \in Entity
    BY Known DEF UsableForgot, User
  <2>3. q \in Request /\ q.pc = "closeSessions" /\ q.forgot = f /\ q.seen = user.entity
    BY <2>2 DEF Begun, Request, NoEntity, Op, PC
  <2>4. Goes(r, q, {}) /\ UNCHANGED <<user, sessions, forgots>> /\ user.state = "live"
    BY <1>3, <2>1 DEF ResetPassword, Found
  <2> HIDE DEF q
  <2>5. UserCurrent(q, user') /\ SessionCurrent(q, Open') /\ ForgotCurrent(q, forgots')
    BY <2>2, <2>3, <2>4 DEF UserCurrent, SessionCurrent, ForgotCurrent
  <2> QED BY <1>0, <2>3, <2>4, <2>5, StepCurrent
<1>4. CASE CloseSessions(r)
  <2> DEFINE q == At(r, "saveUser")
  <2>1. /\ sessions' = [s \in DOMAIN sessions |-> "closed"] /\ Goes(r, q, {"session"})
        /\ UNCHANGED <<user, forgots>> /\ req[r].pc = "closeSessions"
    BY <1>4 DEF CloseSessions
  <2>2. q \in Request /\ q.pc = "saveUser" /\ q.seen = req[r].seen /\ q.forgot = req[r].forgot
    BY <1>0, AtFields DEF PC
  <2>3. Open' = {}
    BY <2>1 DEF Open
  <2> HIDE DEF q
  <2>4. /\ Fresh(r, "user") => UserCurrent(q, user')
        /\ SessionCurrent(q, Open')
        /\ Fresh(r, "forgot") => ForgotCurrent(q, forgots')
    BY <1>0, <2>1, <2>2, <2>3 DEF Current, UserCurrent, SessionCurrent, ForgotCurrent
  <2> QED BY <1>0, <2>1, <2>2, <2>4, StepCurrent
<1>5. CASE SaveUser(r)
  <2> DEFINE q == [At(r, "closeForgot") EXCEPT !.seen = NoEntity]
             e == SavedReset(req[r].seen, req[r].password)
  <2>1. /\ user' = [user EXCEPT !.entity = e] /\ Goes(r, q, {"user"})
        /\ UNCHANGED <<sessions, forgots>> /\ req[r].pc = "saveUser"
    BY <1>5 DEF SaveUser
  <2>2. q \in Request /\ q.pc = "closeForgot" /\ q.forgot = req[r].forgot /\ q.password = req[r].password
    BY <1>0, AtFields DEF Request, PC
  <2>3. e.password = req[r].password
    BY Known DEF SavedReset, Entity
  <2> HIDE DEF q, e
  <2>4. user'.state = user.state /\ user'.entity = e /\ Open' = Open
    BY <2>1, Known DEF User, Open
  <2>5. /\ Fresh(r, "user") => UserCurrent(q, user')
        /\ Fresh(r, "session") => SessionCurrent(q, Open')
        /\ Fresh(r, "forgot") => ForgotCurrent(q, forgots')
    BY <1>0, <2>1, <2>2, <2>3, <2>4 DEF Current, UserCurrent, SessionCurrent, ForgotCurrent
  <2> QED BY <1>0, <2>1, <2>2, <2>5, StepCurrent
<1> QED BY <1>1, <1>2, <1>3, <1>4, <1>5

LEMMA TokenCurrent ==
  ASSUME SessionInv, RequestsAreCurrent, NEW r \in Client,
         \/ Update(r) \/ CloseOthers(r) \/ SavePassword(r)
         \/ RefreshToken(r) \/ SignToken(r) \/ Logout(r)
         \/ Delete(r) \/ LogoutDeleted(r) \/ Abort(r)
  PROVE  RequestsAreCurrent'
<1>0. /\ TypeOK /\ {} \in SUBSET Table /\ {"user"} \in SUBSET Table /\ {"session"} \in SUBSET Table
      /\ NoEntity \in Entity /\ Current(r) /\ DOMAIN sessions \subseteq Nat
  BY Known, CurrentParts DEF Table, NoEntity, Entity
<1>1. CASE Update(r)
  <2>1. PICK s \in DOMAIN sessions, new \in Password :
          Goes(r, [Begun("update", "closeOthers") EXCEPT !.session = s, !.password = new], {})
    BY <1>1 DEF Update
  <2> DEFINE q == [Begun("update", "closeOthers") EXCEPT !.session = s, !.password = new]
  <2>2. q \in Request /\ q.pc = "closeOthers"
    BY <1>0 DEF Begun, Request, Op, PC
  <2>3. Goes(r, q, {}) /\ UNCHANGED <<user, sessions, forgots>> /\ user.state = "live"
    BY <1>1, <2>1 DEF Update, Found
  <2> HIDE DEF q
  <2>4. UserCurrent(q, user') /\ SessionCurrent(q, Open') /\ ForgotCurrent(q, forgots')
    BY <2>2, <2>3 DEF UserCurrent, SessionCurrent, ForgotCurrent
  <2> QED BY <1>0, <2>2, <2>3, <2>4, StepCurrent
<1>2. CASE CloseOthers(r)
  <2> DEFINE q == At(r, "savePassword")
  <2>1. /\ sessions' = ClosedBut(req[r].session) /\ Goes(r, q, {"session"})
        /\ UNCHANGED <<user, forgots>> /\ req[r].pc = "closeOthers"
    BY <1>2 DEF CloseOthers
  <2>2. q \in Request /\ q.pc = "savePassword" /\ q.session = req[r].session
    BY <1>0, AtFields DEF PC
  <2>3. Open' \subseteq {req[r].session}
    BY <2>1 DEF Open, ClosedBut
  <2> HIDE DEF q
  <2>4. /\ Fresh(r, "user") => UserCurrent(q, user')
        /\ SessionCurrent(q, Open') /\ ForgotCurrent(q, forgots')
    BY <1>0, <2>1, <2>2, <2>3 DEF Current, UserCurrent, SessionCurrent, ForgotCurrent
  <2> QED BY <1>0, <2>1, <2>2, <2>4, StepCurrent
<1>3. CASE RefreshToken(r)
  <2>1. PICK s \in Open :
          Goes(r, [Begun("refreshToken", "signToken") EXCEPT !.session = s], {})
    BY <1>3 DEF RefreshToken
  <2> DEFINE q == [Begun("refreshToken", "signToken") EXCEPT !.session = s]
  <2>2. q \in Request /\ q.pc = "signToken" /\ q.session = s
    BY <1>0 DEF Begun, Request, Op, PC, Open
  <2>3. Goes(r, q, {}) /\ UNCHANGED <<user, sessions, forgots>> /\ user.state = "live"
    BY <1>3, <2>1 DEF RefreshToken, Found
  <2>4. Open' = Open
    BY <2>3 DEF Open
  <2> HIDE DEF q
  <2>5. UserCurrent(q, user') /\ SessionCurrent(q, Open') /\ ForgotCurrent(q, forgots')
    BY <2>2, <2>3, <2>4 DEF UserCurrent, SessionCurrent, ForgotCurrent
  <2> QED BY <1>0, <2>2, <2>3, <2>5, StepCurrent
<1>4. CASE Delete(r)
  <2>1. PICK s \in DOMAIN sessions :
          Goes(r, [Begun("delete", "logout") EXCEPT !.session = s], {"user"})
    BY <1>4 DEF Delete
  <2> DEFINE q == [Begun("delete", "logout") EXCEPT !.session = s]
  <2>2. q \in Request /\ q.pc = "logout"
    BY <1>0 DEF Begun, Request, Op, PC
  <2>3. Goes(r, q, {"user"}) /\ UNCHANGED <<sessions, forgots>>
    BY <1>4, <2>1 DEF Delete
  <2> HIDE DEF q
  <2>4. UserCurrent(q, user') /\ SessionCurrent(q, Open') /\ ForgotCurrent(q, forgots')
    BY <2>2 DEF UserCurrent, SessionCurrent, ForgotCurrent
  <2> QED BY <1>0, <2>2, <2>3, <2>4, StepCurrent
<1>5. CASE SavePassword(r) \/ SignToken(r) \/ Logout(r) \/ LogoutDeleted(r) \/ Abort(r)
  BY <1>0, <1>5, EndsCurrent DEF SavePassword, SignToken, Logout, LogoutDeleted, Abort
<1> QED BY <1>1, <1>2, <1>3, <1>4, <1>5

LEMMA NextCurrent ==
  ASSUME SessionInv, RequestsAreCurrent, [Next]_vars
  PROVE  RequestsAreCurrent'
<1>1. CASE UNCHANGED vars
  BY <1>1 DEF vars, RequestsAreCurrent, Fresh, Verified, Open
<1>2. CASE Next
  BY <1>2, LoginCurrent, SocialLoginCurrent, ResetCurrent, TokenCurrent DEF Next, Step
<1> QED BY <1>1, <1>2

\* A request that was not overtaken still knows what it read, at every await.
THEOREM RequestsStayCurrent == Spec => []RequestsAreCurrent
<1>1. ASSUME Init PROVE RequestsAreCurrent
  <2>1. \A r \in Client : req[r].pc = "idle"
    BY <1>1 DEF Init, Idle, Begun
  <2> QED BY <2>1, IdleCurrent, CurrentParts DEF Current
<1> QED BY <1>1, InvHolds, NextCurrent, PTL DEF Spec

-----------------------------------------------------------------------------
(* What a step may do *)

\* What a step of r may do to the account: its first row, or one of its columns.
LEMMA UserWrites ==
  ASSUME SessionInv, NEW r \in Client, Step(r), user' # user
  PROVE  \/ /\ user.state = "none" /\ user.entity = NoEntity
            /\ user'.entity = NoEntity \/ Register(r) \/ CreateProfile(r)
         \/ /\ Delete(r) /\ user'.entity = user.entity
            /\ user'.state = IF user.state = "live" THEN "deleted" ELSE user.state
         \/ /\ UpdateSecret(r) \/ UpdateSocial(r) \/ SaveUser(r) \/ SavePassword(r)
            /\ user'.state = user.state /\ user.state # "none"
<1>1. CASE Register(r) \/ CreateProfile(r)
  BY <1>1, Known DEF Register, CreateProfile, UserOK
<1>2. CASE CreateUser(r)
  BY <1>2, Known DEF CreateUser, UserOK
<1>3. CASE Delete(r)
  BY <1>3, Known DEF Delete, Deleted, User
<1>4. CASE UpdateSecret(r) \/ UpdateSocial(r) \/ SaveUser(r) \/ SavePassword(r)
  <2>1. user.state # "none"
    BY <1>4, Known DEF UpdateSecret, UpdateSocial, SaveUser, SavePassword
  <2>2. user'.state = user.state
    BY <1>4, Known DEF UpdateSecret, UpdateSocial, SaveUser, SavePassword, User
  <2> QED BY <1>4, <2>1, <2>2
<1> QED BY <1>1, <1>2, <1>3, <1>4 DEF Step, CheckEmailExists, PasswordOnetime, ValidateLogin,
             CreateSession, SocialLoginKnown, SocialLoginByEmail, SocialLoginNew, FindUser,
             ForgotPassword, CreateForgot, ResetPassword, CloseSessions, CloseForgot, Update,
             CloseOthers, RefreshToken, SignToken, Logout, LogoutDeleted, Abort

\* Only CreateSession adds a session.
LEMMA SessionWrites ==
  ASSUME SessionInv, NEW r \in Client, Step(r), ~CreateSession(r)
  PROVE  Len(sessions') = Len(sessions)
<1>0. sessions \in Seq({"open", "closed"})
  BY Known
<1>1. CASE CloseSessions(r)
  BY <1>0, <1>1, RowsRemain DEF CloseSessions
<1>2. CASE CloseOthers(r)
  <2> DEFINE t == ClosedBut(req[r].session)
  <2>1. sessions' = t /\ t = [s \in DOMAIN sessions |-> t[s]]
    BY <1>2 DEF CloseOthers, ClosedBut
  <2>2. \A s \in DOMAIN sessions : t[s] \in {"open", "closed"}
    BY <1>0 DEF ClosedBut
  <2> HIDE DEF t
  <2> QED BY <1>0, <2>1, <2>2, RowsRemain
<1>3. CASE Logout(r)
  BY <1>0, <1>3, OneCloses DEF Logout, Open
<1>4. CASE LogoutDeleted(r)
  BY <1>0, <1>4, Known, OneCloses DEF LogoutDeleted, RequestOK
<1> QED BY <1>1, <1>2, <1>3, <1>4 DEF Step, Register, CreateProfile, CheckEmailExists, UpdateSecret,
             PasswordOnetime, ValidateLogin, CreateSession, SocialLoginKnown, SocialLoginByEmail,
             SocialLoginNew, CreateUser, FindUser, UpdateSocial, ForgotPassword, CreateForgot,
             ResetPassword, SaveUser, CloseForgot, Update, SavePassword, RefreshToken, SignToken,
             Delete, Abort

\* A deleted account stays deleted, and new sessions of it were under way.
LEMMA DeletedStep ==
  ASSUME SessionInv, RequestsAreCurrent, [Next]_vars, user.state = "deleted"
  PROVE  /\ user'.state = "deleted"
         /\ Len(sessions') > Len(sessions) => \E r \in Client : CreateSession(r) /\ ~Fresh(r, "user")
<1>0. Len(sessions) \in Nat
  BY DEF SessionInv, TypeOK
<1>1. CASE UNCHANGED vars
  BY <1>0, <1>1 DEF vars
<1>2. ASSUME NEW r \in Client, Step(r)
      PROVE  /\ user'.state = "deleted"
             /\ Len(sessions') > Len(sessions) => \E c \in Client : CreateSession(c) /\ ~Fresh(c, "user")
  <2>1. user'.state = "deleted"
    BY <1>2, UserWrites
  <2>2. CASE CreateSession(r)
    <3>1. ~Fresh(r, "user")
      BY <2>2, CurrentParts DEF Current, UserCurrent, CreateSession
    <3> QED BY <2>1, <2>2, <3>1
  <2>3. CASE ~CreateSession(r)
    BY <1>0, <1>2, <2>1, <2>3, SessionWrites
  <2> QED BY <2>2, <2>3
<1> QED BY <1>1, <1>2 DEF Next

\* A deleted account is never revived, and no request that began later gets a session.
THEOREM DeletedAccountsStayOut == Spec => DeletedStaysOut
<1>1. ASSUME SessionInv, RequestsAreCurrent, [Next]_vars
      PROVE  [user.state = "deleted" =>
                /\ user'.state = "deleted"
                /\ Len(sessions') > Len(sessions)
                     => \E r \in Client : CreateSession(r) /\ ~Fresh(r, "user")]_vars
  BY <1>1, DeletedStep
<1> QED BY <1>1, InvHolds, RequestsStayCurrent, PTL DEF Spec, DeletedStaysOut

\* A step that replaces a working password.
LEMMA PasswordStep ==
  ASSUME SessionInv, RequestsAreCurrent, [Next]_vars,
         user.entity.password \in Password, user'.entity.password # user.entity.password
  PROVE  \/ \E r \in Client : UpdateSocial(r)
         \/ \E r \in Client :
              /\ SaveUser(r) \/ SavePassword(r)
              /\ user'.entity.password = req[r].password
              /\ Fresh(r, "session") => Open \subseteq {req[r].session}
<1>0. user' # user
  OBVIOUS
<1>1. ~UNCHANGED vars
  BY <1>0 DEF vars
<1>2. PICK r \in Client : Step(r)
  BY <1>1 DEF Next
<1>3. user.state # "none"
  BY <1>2, Known, PasswordAssumption DEF UserOK, NoEntity
<1>4. UpdateSecret(r) \/ UpdateSocial(r) \/ SaveUser(r) \/ SavePassword(r)
  BY <1>0, <1>2, <1>3, UserWrites
<1>5. ~UpdateSecret(r)
  BY <1>2, Known DEF UpdateSecret, User, Entity
<1>6. CASE SaveUser(r)
  <2>1. user'.entity.password = req[r].password
    BY <1>2, <1>6, Known DEF SaveUser, SavedReset, User, Entity
  <2>2. Fresh(r, "session") => Open = {}
    BY <1>6, CurrentParts DEF Current, SessionCurrent, SaveUser
  <2> QED BY <1>6, <2>1, <2>2
<1>7. CASE SavePassword(r)
  <2>1. user'.entity.password = req[r].password
    BY <1>2, <1>7, Known DEF SavePassword, User, Entity
  <2>2. Fresh(r, "session") => Open \subseteq {req[r].session}
    BY <1>7, CurrentParts DEF Current, SessionCurrent, SavePassword
  <2> QED BY <1>7, <2>1, <2>2
<1> QED BY <1>4, <1>5, <1>6, <1>7

\* A working password is replaced by one asked for, behind closed sessions, or lost in a
\* social login.
THEOREM PasswordsAreAskedFor == Spec => PasswordCauses
<1>1. ASSUME SessionInv, RequestsAreCurrent, [Next]_vars
      PROVE  [user.entity.password \in Password /\ user'.entity.password # user.entity.password =>
                \/ \E r \in Client : UpdateSocial(r)
                \/ \E r \in Client :
                     /\ (SaveUser(r) \/ SavePassword(r))
                     /\ user'.entity.password = req[r].password
                     /\ Fresh(r, "session") => Open \subseteq {req[r].session}]_vars
  BY <1>1, PasswordStep
<1> QED BY <1>1, InvHolds, RequestsStayCurrent, PTL DEF Spec, PasswordCauses

-----------------------------------------------------------------------------
(* Secrets advance *)

\* The steps that bring a request to the awaits before it saves a secret.
BeforeSecrets(r, pc) ==
  /\ pc = "updateSecret" => CheckEmailExists(r)
  /\ pc = "updateSocial" => SocialLoginKnown(r)
  /\ pc = "closeSessions" => ResetPassword(r)
  /\ pc = "saveUser" => CloseSessions(r)

\* What a step of r is for the others: it has written the user, or left it alone; and
\* only the steps above bring it to where it saves a secret.
LEMMA StepShape ==
  ASSUME SessionInv, NEW r \in Client, Step(r)
  PROVE  \E q, w : /\ Goes(r, q, w)
                   /\ "user" \in w \/ UNCHANGED user
                   /\ BeforeSecrets(r, q.pc)
<1> USE DEF BeforeSecrets
<1>0. TypeOK /\ Idle.pc = "idle"
  BY Known DEF Idle, Begun
<1>1. CASE Register(r)
  BY <1>1 DEF Register, Begun
<1>2. CASE CreateProfile(r) \/ SavePassword(r)
  BY <1>0, <1>2 DEF CreateProfile, SavePassword
<1>3. CASE PasswordOnetime(r) \/ CreateSession(r) \/ CreateForgot(r) \/ CloseForgot(r) \/ SignToken(r)
             \/ Logout(r) \/ LogoutDeleted(r) \/ Abort(r)
  BY <1>0, <1>3 DEF PasswordOnetime, CreateSession, CreateForgot, CloseForgot, SignToken, Logout,
                    LogoutDeleted, Abort
<1>4. CASE CheckEmailExists(r)
  BY <1>4 DEF CheckEmailExists, Begun
<1>5. CASE ValidateLogin(r)
  BY <1>5 DEF ValidateLogin, Begun
<1>6. CASE SocialLoginKnown(r) \/ SocialLoginByEmail(r) \/ SocialLoginNew(r) \/ ForgotPassword(r)
  BY <1>6 DEF SocialLoginKnown, SocialLoginByEmail, SocialLoginNew, ForgotPassword, Begun
<1>7. CASE ResetPassword(r)
  <2>1. PICK f \in UsableForgot, new \in Password :
          Goes(r, [Begun("resetPassword", "closeSessions")
                     EXCEPT !.forgot = f, !.password = new, !.seen = user.entity], {})
    BY <1>7 DEF ResetPassword
  <2> DEFINE q == [Begun("resetPassword", "closeSessions")
                     EXCEPT !.forgot = f, !.password = new, !.seen = user.entity]
  <2>2. Goes(r, q, {}) /\ UNCHANGED user
    BY <1>7, <2>1 DEF ResetPassword
  <2>3. BeforeSecrets(r, q.pc)
    BY <1>7 DEF Begun
  <2> HIDE DEF q
  <2> QED BY <2>2, <2>3
<1>8. CASE Update(r)
  <2>1. PICK s \in DOMAIN sessions, new \in Password :
          Goes(r, [Begun("update", "closeOthers") EXCEPT !.session = s, !.password = new], {})
    BY <1>8 DEF Update
  <2> DEFINE q == [Begun("update", "closeOthers") EXCEPT !.session = s, !.password = new]
  <2>2. Goes(r, q, {}) /\ UNCHANGED user
    BY <1>8, <2>1 DEF Update
  <2>3. q.pc = "closeOthers"
    BY DEF Begun
  <2> HIDE DEF q
  <2> QED BY <2>2, <2>3
<1>17. CASE RefreshToken(r)
  BY <1>17 DEF RefreshToken, Begun
<1>9. CASE Delete(r)
  BY <1>9 DEF Delete, Begun
<1>10. CASE CreateUser(r)
  <2>1. At(r, "findUser").pc = "findUser"
    BY <1>0, AtFields DEF PC
  <2> QED BY <1>0, <1>10, <2>1 DEF CreateUser
<1>11. CASE FindUser(r)
  <2>1. At(r, "createSession").pc = "createSession"
    BY <1>0, AtFields DEF PC
  <2> QED BY <1>0, <1>11, <2>1 DEF FindUser
<1>12. CASE UpdateSecret(r)
  <2>1. At(r, "mail").pc = "mail"
    BY <1>0, AtFields DEF PC
  <2> QED BY <1>12, <2>1 DEF UpdateSecret
<1>13. CASE UpdateSocial(r)
  <2>1. [At(r, "createSession") EXCEPT !.seen = NoEntity].pc = "createSession"
    BY <1>0, AtFields DEF PC, Request
  <2> QED BY <1>13, <2>1 DEF UpdateSocial
<1>14. CASE CloseSessions(r)
  <2>1. At(r, "saveUser").pc = "saveUser"
    BY <1>0, AtFields DEF PC
  <2> QED BY <1>14, <2>1 DEF CloseSessions
<1>15. CASE SaveUser(r)
  <2>1. [At(r, "closeForgot") EXCEPT !.seen = NoEntity].pc = "closeForgot"
    BY <1>0, AtFields DEF PC, Request
  <2> QED BY <1>15, <2>1 DEF SaveUser
<1>16. CASE CloseOthers(r)
  <2>1. At(r, "savePassword").pc = "savePassword"
    BY <1>0, AtFields DEF PC
  <2> QED BY <1>16, <2>1 DEF CloseOthers
<1> QED BY <1>1, <1>2, <1>3, <1>4, <1>5, <1>6, <1>7, <1>8, <1>9, <1>10, <1>11, <1>12, <1>13, <1>14,
           <1>15, <1>16, <1>17 DEF Step

\* A secret to be saved is generated after the one it replaces was saved.
LEMMA NewSecretsNext ==
  ASSUME SessionInv, NewSecrets, [Next]_vars
  PROVE  NewSecrets'
<1>1. CASE UNCHANGED vars
  BY <1>1 DEF vars, NewSecrets, Fresh
<1>2. ASSUME NEW r \in Client, Step(r)
      PROVE  NewSecrets'
  <2>1. PICK q, w : /\ Goes(r, q, w)
                    /\ "user" \in w \/ UNCHANGED user
                    /\ q.pc = "updateSecret" => CheckEmailExists(r)
    BY <1>2, StepShape DEF BeforeSecrets
  <2>2. /\ req' = [req EXCEPT ![r] = q]
        /\ overtaken' = (overtaken \cup {p \in Client \X w : p[1] # r /\ req[p[1]].pc # "idle"})
                           \ (IF q.pc = "idle" THEN {r} \X Table ELSE {})
    BY <2>1 DEF Goes
  <2>3. req \in [Client -> Request]
    BY DEF SessionInv, TypeOK
  <2> SUFFICES ASSUME NEW p \in Client, Fresh(p, "user")', req'[p].pc = "updateSecret"
               PROVE  user'.entity.secret < req'[p].secret
    BY DEF NewSecrets
  <2>4. CASE p = r
    <3>1. CheckEmailExists(r)
      BY <2>1, <2>2, <2>3, <2>4
    <3>2. req'[p].secret = secrets + 1 /\ UNCHANGED user
      BY <2>3, <2>4, <3>1 DEF CheckEmailExists, Goes, Begun
    <3> QED BY <3>2, <2>4, Known DEF UserOK, User, Entity
  <2>5. CASE p # r
    <3>1. req'[p] = req[p]
      BY <2>2, <2>3, <2>5
    <3>2. <<p, "user">> \notin overtaken /\ "user" \notin w
      BY <2>2, <2>5, <3>1 DEF Fresh
    <3> QED BY <2>1, <3>1, <3>2 DEF NewSecrets, Fresh
  <2> QED BY <2>4, <2>5
<1> QED BY <1>1, <1>2 DEF Next

LEMMA NewSecretsHold == Spec => []NewSecrets
<1>1. ASSUME Init PROVE NewSecrets
  BY <1>1 DEF Init, NewSecrets, Idle, Begun
<1> QED BY <1>1, InvHolds, NewSecretsNext, PTL DEF Spec

\* An account of a social login has no secret, and no request brings it one.
SocialUser(u) == u.provider = "social" => u.entity.secret = 0

SocialRequest(u, q) ==
  /\ q.pc = "updateSecret" => u.provider = "email"
  /\ q.pc = "updateSocial" => u.provider = "social"
  /\ q.pc \in {"updateSocial", "closeSessions", "saveUser"} /\ u.provider = "social"
       => q.seen.secret = 0

NoSocialSecrets == SocialUser(user) /\ \A r \in Client : SocialRequest(user, req[r])

\* Every step but the creation of the account keeps its provider; and no step gives an
\* account of a social login a secret.
LEMMA SocialUserNext ==
  ASSUME SessionInv, NoSocialSecrets, NEW r \in Client, Step(r)
  PROVE  /\ SocialUser(user')
         /\ user.state # "none" => user'.provider = user.provider
<1> USE DEF SocialUser
<1>0. /\ SocialUser(user) /\ SocialRequest(user, req[r]) /\ user \in User
      /\ req[r].seen \in Entity
  BY Known DEF NoSocialSecrets
<1>1. CASE UNCHANGED user
  BY <1>0, <1>1
<1>2. CASE Register(r) \/ CreateProfile(r)
  BY <1>2 DEF Register, CreateProfile
<1>3. CASE CreateUser(r)
  BY <1>0, <1>3 DEF CreateUser, NoEntity
<1>4. CASE Delete(r)
  BY <1>0, <1>4 DEF Delete, Deleted, User
<1>5. CASE UpdateSecret(r)
  BY <1>0, <1>5 DEF UpdateSecret, SocialRequest, User
<1>6. CASE SavePassword(r)
  BY <1>0, <1>6 DEF SavePassword, User, Entity
<1>7. CASE UpdateSocial(r) \/ SaveUser(r)
  <2>1. user'.provider = user.provider
    BY <1>0, <1>7 DEF UpdateSocial, SaveUser, User
  <2>2. user'.entity.secret = req[r].seen.secret
    BY <1>0, <1>7 DEF UpdateSocial, SaveUser, SavedReset, SavedSocial, User, Entity
  <2>3. req[r].pc \in {"updateSocial", "saveUser"}
    BY <1>7 DEF UpdateSocial, SaveUser
  <2> QED BY <1>0, <2>1, <2>2, <2>3 DEF SocialRequest
<1>8. UNCHANGED user \/ Register(r) \/ CreateProfile(r) \/ CreateUser(r) \/ UpdateSecret(r)
       \/ UpdateSocial(r) \/ SaveUser(r) \/ SavePassword(r) \/ Delete(r)
  BY DEF Step, CheckEmailExists, PasswordOnetime, ValidateLogin, CreateSession, SocialLoginKnown,
         SocialLoginByEmail, SocialLoginNew, FindUser, ForgotPassword, CreateForgot, ResetPassword,
         CloseSessions, CloseForgot, Update, CloseOthers, RefreshToken, SignToken, Logout,
         LogoutDeleted, Abort
<1> QED BY <1>1, <1>2, <1>3, <1>4, <1>5, <1>6, <1>7, <1>8

\* What a request brings to the awaits before it saves a secret.
LEMMA SocialRequestNext ==
  ASSUME SessionInv, NoSocialSecrets, NEW r \in Client, Step(r), BeforeSecrets(r, req'[r].pc),
         req'[r].pc \in {"updateSecret", "updateSocial", "closeSessions", "saveUser"}
  PROVE  SocialRequest(user', req'[r]) /\ UNCHANGED user
<1>0. /\ SocialUser(user) /\ SocialRequest(user, req[r]) /\ req \in [Client -> Request]
  BY Known DEF NoSocialSecrets, TypeOK
<1>1. CASE req'[r].pc = "updateSecret"
  BY <1>1 DEF BeforeSecrets, CheckEmailExists, SocialRequest
<1>2. CASE req'[r].pc = "updateSocial"
  BY <1>0, <1>2 DEF BeforeSecrets, SocialLoginKnown, Goes, Begun, SocialRequest, SocialUser
<1>3. CASE req'[r].pc = "closeSessions"
  <2>1. UNCHANGED user /\ req'[r].seen = user.entity
    BY <1>0, <1>3 DEF BeforeSecrets, ResetPassword, Goes, Begun
  <2> QED BY <1>0, <1>3, <2>1 DEF SocialRequest, SocialUser
<1>4. CASE req'[r].pc = "saveUser"
  <2>1. UNCHANGED user /\ req'[r].seen = req[r].seen /\ req[r].pc = "closeSessions"
    BY <1>0, <1>4 DEF BeforeSecrets, CloseSessions, Goes, At, Request
  <2> QED BY <1>0, <1>4, <2>1 DEF SocialRequest
<1> QED BY <1>1, <1>2, <1>3, <1>4

LEMMA NoSocialSecretsNext ==
  ASSUME SessionInv, NoSocialSecrets, [Next]_vars
  PROVE  NoSocialSecrets'
<1>1. CASE UNCHANGED vars
  BY <1>1 DEF vars, NoSocialSecrets
<1>2. ASSUME NEW r \in Client, Step(r)
      PROVE  NoSocialSecrets'
  <2>1. SocialUser(user')
    BY <1>2, SocialUserNext
  <2>2. PICK q, w : Goes(r, q, w) /\ BeforeSecrets(r, q.pc)
    BY <1>2, StepShape
  <2>3. req' = [req EXCEPT ![r] = q] /\ req \in [Client -> Request]
    BY <2>2 DEF Goes, SessionInv, TypeOK
  <2>4. ASSUME NEW p \in Client PROVE SocialRequest(user', req'[p])
    <3>1. CASE p = r /\ q.pc \in {"updateSecret", "updateSocial", "closeSessions", "saveUser"}
      BY <1>2, <2>2, <2>3, <3>1, SocialRequestNext
    <3>2. CASE p = r /\ q.pc \notin {"updateSecret", "updateSocial", "closeSessions", "saveUser"}
      BY <2>3, <3>2 DEF SocialRequest
    <3>3. CASE p # r /\ user.state = "none"
      <4>1. req'[p] = req[p] /\ req[p].pc \in {"idle", "createUser"}
        BY <2>3, <3>3, Known
      <4> QED BY <4>1 DEF SocialRequest
    <3>4. CASE p # r /\ user.state # "none"
      <4>1. req'[p] = req[p] /\ user'.provider = user.provider /\ SocialRequest(user, req[p])
        BY <1>2, <2>3, <3>4, SocialUserNext DEF NoSocialSecrets
      <4> QED BY <4>1 DEF SocialRequest
    <3> QED BY <3>1, <3>2, <3>3, <3>4
  <2> QED BY <2>1, <2>4 DEF NoSocialSecrets
<1> QED BY <1>1, <1>2 DEF Next

LEMMA NoSocialSecretsHold == Spec => []NoSocialSecrets
<1>1. ASSUME Init PROVE NoSocialSecrets
  BY <1>1 DEF Init, NoSocialSecrets, SocialUser, SocialRequest, Idle, Begun
<1> QED BY <1>1, InvHolds, NoSocialSecretsNext, PTL DEF Spec

\* A step that changes the secret.
LEMMA SecretStep ==
  ASSUME SessionInv, RequestsAreCurrent, NewSecrets, NoSocialSecrets, [Next]_vars,
         user'.entity.secret # user.entity.secret
  PROVE  \/ /\ user'.entity.secret > user.entity.secret
            /\ \E r \in Client : Register(r) \/ UpdateSecret(r)
         \/ \E r \in Client : ~Fresh(r, "user") /\ (UpdateSecret(r) \/ SaveUser(r))
<1>0. user' # user
  OBVIOUS
<1>1. ~UNCHANGED vars
  BY <1>0 DEF vars
<1>2. PICK r \in Client : Step(r)
  BY <1>1 DEF Next
<1>3. CASE Register(r)
  <2>1. user'.entity.secret = secrets + 1 /\ user.state = "none"
    BY <1>3 DEF Register, NoEntity
  <2>2. user.entity.secret = 0 /\ secrets \in Nat
    BY <2>1, Known DEF UserOK, NoEntity
  <2> QED BY <1>3, <2>1, <2>2
<1>4. CASE UpdateSecret(r)
  <2>1. user'.entity.secret = req[r].secret
    BY <1>4, Known DEF UpdateSecret, User, Entity
  <2>2. Fresh(r, "user") => user.entity.secret < req[r].secret
    BY <1>4 DEF UpdateSecret, NewSecrets
  <2> QED BY <1>4, <2>1, <2>2, Known DEF User, Entity
<1>5. CASE SaveUser(r)
  <2>1. user'.entity.secret = req[r].seen.secret
    BY <1>5, Known DEF SaveUser, SavedReset, User, Entity
  <2>2. Fresh(r, "user") => req[r].seen = user.entity
    BY <1>5, CurrentParts DEF Current, UserCurrent, SaveUser
  <2> QED BY <1>5, <2>1, <2>2
<1>8. ~UpdateSocial(r)
  <2>1. SUFFICES ASSUME UpdateSocial(r) PROVE FALSE
    OBVIOUS
  <2>2. user.entity.secret = 0 /\ req[r].seen.secret = 0
    BY <2>1 DEF UpdateSocial, NoSocialSecrets, SocialUser, SocialRequest
  <2>3. user'.entity.secret = req[r].seen.secret
    BY <2>1, Known DEF UpdateSocial, SavedSocial, User, Entity
  <2> QED BY <2>2, <2>3
<1>6. CASE CreateProfile(r)
  BY <1>6, Known DEF CreateProfile, UserOK, NoEntity
<1>7. CASE SavePassword(r)
  BY <1>7, Known DEF SavePassword, User, Entity
<1> QED BY <1>0, <1>2, <1>3, <1>4, <1>5, <1>6, <1>7, <1>8, UserWrites

\* The secret codes are checked with only goes back when a request was overtaken.
THEOREM SecretsDoAdvance == Spec => SecretsAdvance
<1>1. ASSUME SessionInv, RequestsAreCurrent, NewSecrets, NoSocialSecrets, [Next]_vars
      PROVE  [user'.entity.secret # user.entity.secret =>
                \/ /\ user'.entity.secret > user.entity.secret
                   /\ \E r \in Client : Register(r) \/ UpdateSecret(r)
                \/ \E r \in Client : ~Fresh(r, "user") /\ (UpdateSecret(r) \/ SaveUser(r))]_vars
  BY <1>1, SecretStep
<1> QED BY <1>1, InvHolds, RequestsStayCurrent, NewSecretsHold, NoSocialSecretsHold, PTL DEF Spec, SecretsAdvance

-----------------------------------------------------------------------------
(* What the order of the requests suffices for: codes that were replaced stay dead *)

\* A request for a code or the reset of a password writes the user's row after another
\* request has.
OvertakenWrite == \E r \in Client : ~Fresh(r, "user") /\ (UpdateSecret(r) \/ SaveUser(r))

\* As long as neither writes on top of another's write, a secret that has been
\* replaced never comes back, and a code made with it is never accepted again.
THEOREM ReplacedSecretsStayDead ==
  ASSUME NEW n \in Nat
  PROVE  Spec /\ [][~OvertakenWrite]_vars
           => [](user.entity.secret > n => [](user.entity.secret > n))
<1> DEFINE Past == user.entity.secret > n
           Advance == user'.entity.secret # user.entity.secret =>
             \/ /\ user'.entity.secret > user.entity.secret
                /\ \E r \in Client : Register(r) \/ UpdateSecret(r)
             \/ \E r \in Client : ~Fresh(r, "user") /\ (UpdateSecret(r) \/ SaveUser(r))
<1>1. ASSUME TypeOK, TypeOK', Past, [Advance]_vars, [~OvertakenWrite]_vars PROVE Past'
  <2>1. user.entity.secret \in Nat /\ user'.entity.secret \in Nat
    BY <1>1 DEF TypeOK, User, Entity
  <2>2. CASE UNCHANGED vars
    BY <1>1, <2>2 DEF vars
  <2>3. CASE Advance /\ ~OvertakenWrite
    BY <1>1, <2>1, <2>3 DEF OvertakenWrite
  <2> QED BY <1>1, <2>2, <2>3
<1>2. Spec => [][Advance]_vars
  BY SecretsDoAdvance DEF SecretsAdvance
<1> HIDE DEF Past, Advance
<1>3. Spec /\ [][~OvertakenWrite]_vars => [](Past => []Past)
  BY <1>1, <1>2, TypeCorrect, PTL
<1> QED BY <1>3 DEF Past
=============================================================================
