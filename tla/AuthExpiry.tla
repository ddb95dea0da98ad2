----------------------------- MODULE AuthExpiry ------------------------------
(***************************************************************************)
(* Time in the login of one account: how long a one-time code is accepted   *)
(* and how long the tokens of a session are.  Requests are atomic here;     *)
(* AuthSession has their interleavings.  The step of otplib's authenticator *)
(* is an option of the process: generateOTP sets it, check uses whatever it *)
(* is, and a restart resets it.                                             *)
(***************************************************************************)
EXTENDS Naturals

CONSTANTS
  DefaultStep, \* otplib's step before the first code is generated: 30 s
  Ttl,         \* app.ttl: parseInt(SECRET_TIME_TO_LIVE, 30), 180 s for the 60 of env-example
  Promised,    \* what the mail says of its code: 10 minutes
  TokenLife,   \* auth.expires
  Start,       \* the first moment
  MaxTime,     \* bound: the last moment
  MaxCodes     \* bound: codes ever sent

\* The two steps are the same, or no moment's code by one is any moment's by the other.
ASSUME TimeAssumption == /\ {DefaultStep, Ttl, Promised, TokenLife, MaxTime, MaxCodes} \subseteq Nat
                         /\ 0 < DefaultStep /\ 0 < Ttl
                         /\ Start \in 0..MaxTime
                         /\ \/ DefaultStep = Ttl
                            \/ MaxTime \div Ttl < Start \div DefaultStep
                            \/ MaxTime \div DefaultStep < Start \div Ttl

VARIABLES
  now,      \* the time
  step,     \* authenticator.options.step of the running process
  secret,   \* otpSecret of the account; each new one is the next number, 0 is null
  mails,    \* codes mailed: what they were made from, and when
  session   \* the account's session, and when its token and its refresh token expire

expiryVars == <<now, step, secret, mails, session>>

Mail == [secret : Nat, counter : Nat, sent : Nat]

NoSession == [state |-> "none", token |-> 0, refresh |-> 0]

ExpiryTypeOK ==
  /\ now \in Start..MaxTime
  /\ step \in {DefaultStep, Ttl}
  /\ secret \in Nat
  /\ mails \subseteq Mail
  /\ session \in [state : {"none", "open", "closed"}, token : Nat, refresh : Nat]

ExpiryInit ==
  /\ now = Start
  /\ step = DefaultStep
  /\ secret = 0
  /\ mails = {}
  /\ session = NoSession

-----------------------------------------------------------------------------

\* What the code shows of the time it is made or checked at.
Counter(s) == now \div s

\* checkEmailExists: a new secret, and its code in a mail; generateOTP sets the step.
SendCode ==
  /\ secret < MaxCodes
  /\ secret' = secret + 1
  /\ step' = Ttl
  /\ mails' = mails \cup {[secret |-> secret', counter |-> Counter(step'), sent |-> now]}
  /\ UNCHANGED <<now, session>>

\* The code of another account, registered or asked for.
GenerateOTP ==
  /\ step' = Ttl
  /\ UNCHANGED <<now, secret, mails, session>>

\* Faulty: codes made from any secret; the code of the step before is accepted too.
AcceptedOfAny(m) == m.counter = Counter(step)
AcceptedBefore(m) == m.secret = secret /\ m.counter \in {Counter(step), Counter(step) - 1}

\* authenticator.check
Accepted(m) == m.secret = secret /\ m.counter = Counter(step)

\* Neither token is signed with auth.refreshExpires: nobody sets isRememberMe.
LogIn ==
  /\ session.state = "none"
  /\ \E m \in mails : Accepted(m)
  /\ session' = [state |-> "open", token |-> now + TokenLife, refresh |-> now + TokenLife]
  /\ UNCHANGED <<now, step, secret, mails>>

\* Faulty: the rest of the session is lost.
RenewedTokenOnly == [token |-> now + TokenLife]

\* refreshToken, and getTokensData with isRefresh: no new refresh token.
Renewed == [session EXCEPT !.token = now + TokenLife]

Refresh ==
  /\ session.state = "open" /\ now < session.refresh
  /\ session' = Renewed
  /\ UNCHANGED <<now, step, secret, mails>>

\* logout needs a token that has not expired.
LogOut ==
  /\ session.state = "open" /\ now < session.token
  /\ session' = [session EXCEPT !.state = "closed"]
  /\ UNCHANGED <<now, step, secret, mails>>

Restart ==
  /\ step' = DefaultStep
  /\ UNCHANGED <<now, secret, mails, session>>

Tick ==
  /\ now < MaxTime
  /\ now' = now + 1
  /\ UNCHANGED <<step, secret, mails, session>>

ExpiryNext == SendCode \/ GenerateOTP \/ LogIn \/ Refresh \/ LogOut \/ Restart \/ Tick

ExpirySpec == ExpiryInit /\ [][ExpiryNext]_expiryVars
-----------------------------------------------------------------------------
(* Properties *)

\* A code is accepted for app.ttl after it was sent at most, whatever happened to the
\* process since.
CodesExpire == \A m \in mails : Accepted(m) => now < m.sent + Ttl

\* A code that is refused is accepted later on only if a restart was the reason, and
\* then as soon as anyone is sent a code.
RefusedCodes ==
  [][\A m \in mails : ~Accepted(m) /\ Accepted(m)' => step = DefaultStep /\ GenerateOTP]_expiryVars

\* The mail's promise, while the process runs: the latest code is accepted for 10
\* minutes.
CodesLastAsPromised ==
  \A m \in mails : m.secret = secret /\ step = Ttl /\ now < m.sent + Promised => Accepted(m)

\* docs/auth.md and the e2e test of auth/refresh: the answer has a new token and a new
\* refresh token, both signed now.
RefreshRenewsBoth ==
  [][Refresh => session'.token = now + TokenLife /\ session'.refresh = now + TokenLife]_expiryVars

\* docs/auth.md: once the token has expired, the refresh token gets a new one.
RefreshOutlivesToken ==
  session.state = "open" /\ now >= session.token => now < session.refresh
=============================================================================
