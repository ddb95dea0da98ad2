-------------------------- MODULE AuthExpiry_proofs ---------------------------
(***************************************************************************)
(* Codes expire, for any lengths of the steps and the tokens.               *)
(***************************************************************************)
EXTENDS AuthExpiry, TLAPS

-----------------------------------------------------------------------------
(* Windows of time *)

\* The window of a moment begins at or before it and is the last that does.
LEMMA WindowBounds ==
  ASSUME NEW t \in Nat, NEW s \in Nat, 0 < s
  PROVE  /\ t \div s \in Nat
         /\ s * (t \div s) <= t
         /\ t < s * (t \div s) + s
  BY SMTT(30)

\* Later moments are in the same window or a later one.
LEMMA WindowsAdvance ==
  ASSUME NEW t \in Nat, NEW u \in Nat, NEW s \in Nat, 0 < s, t <= u
  PROVE  t \div s <= u \div s
  BY SMTT(30)

\* Moments of one window are less than a step apart.
LEMMA WindowLength ==
  ASSUME NEW t \in Nat, NEW u \in Nat, NEW s \in Nat, 0 < s, t \div s = u \div s
  PROVE  u < t + s
  BY WindowBounds

\* A code shows the window of app.ttl it was sent in, which is never the window of
\* otplib's own step in which it is checked, unless the two steps are the same.
LEMMA StaleAtDefaultStep ==
  ASSUME NEW t \in Start..MaxTime, NEW u \in Start..MaxTime, DefaultStep # Ttl
  PROVE  t \div Ttl # u \div DefaultStep
<1>1. Start \in Nat /\ MaxTime \in Nat /\ t \in Nat /\ u \in Nat
      /\ Start <= t /\ t <= MaxTime /\ Start <= u /\ u <= MaxTime
  BY TimeAssumption
<1>2. Ttl \in Nat /\ DefaultStep \in Nat /\ 0 < Ttl /\ 0 < DefaultStep
  BY TimeAssumption
<1>3. /\ t \div Ttl \in Nat /\ MaxTime \div Ttl \in Nat /\ Start \div Ttl \in Nat
      /\ u \div DefaultStep \in Nat /\ MaxTime \div DefaultStep \in Nat
      /\ Start \div DefaultStep \in Nat
  BY <1>1, <1>2, WindowBounds
<1>4. CASE MaxTime \div Ttl < Start \div DefaultStep
  <2>1. t \div Ttl <= MaxTime \div Ttl
    BY <1>1, <1>2, WindowsAdvance
  <2>2. Start \div DefaultStep <= u \div DefaultStep
    BY <1>1, <1>2, WindowsAdvance
  <2> QED BY <1>3, <1>4, <2>1, <2>2
<1>5. CASE MaxTime \div DefaultStep < Start \div Ttl
  <2>1. Start \div Ttl <= t \div Ttl
    BY <1>1, <1>2, WindowsAdvance
  <2>2. u \div DefaultStep <= MaxTime \div DefaultStep
    BY <1>1, <1>2, WindowsAdvance
  <2> QED BY <1>3, <1>5, <2>1, <2>2
<1> QED BY <1>4, <1>5, TimeAssumption

-----------------------------------------------------------------------------
(* The inductive invariant *)

\* Codes were made from a secret generated before, in the window of app.ttl they
\* were sent in.
MailsKnown ==
  \A m \in mails : /\ m.secret <= secret
                  /\ m.sent \in Start..now
                  /\ m.counter = m.sent \div Ttl

ExpiryInv == ExpiryTypeOK /\ MailsKnown

\* The constants as the provers use them.
LEMMA Constants ==
  /\ DefaultStep \in Nat /\ Ttl \in Nat /\ TokenLife \in Nat /\ MaxTime \in Nat
  /\ MaxCodes \in Nat /\ Start \in Nat /\ Promised \in Nat
  /\ 0 < DefaultStep /\ 0 < Ttl
  BY TimeAssumption

\* Nothing was sent and nobody logged in; the first moment is one of the run.
LEMMA InitInv ==
  ExpiryInit => ExpiryInv
  BY Constants, TimeAssumption DEF ExpiryInit, ExpiryInv, ExpiryTypeOK, MailsKnown, NoSession, Mail

\* Every request keeps the invariant, and so do time and restarts.
LEMMA NextInv ==
  ASSUME ExpiryInv, [ExpiryNext]_expiryVars
  PROVE  ExpiryInv'
<1> USE Constants DEF ExpiryInv
<1>1. CASE SendCode
  <2> DEFINE new == [secret |-> secret', counter |-> Counter(step'), sent |-> now]
  <2>1. secret' = secret + 1 /\ step' = Ttl /\ mails' = mails \cup {new} /\ UNCHANGED <<now, session>>
    BY <1>1 DEF SendCode
  <2>2. now \in Nat /\ secret \in Nat
    BY DEF ExpiryTypeOK
  <2>3. now \div Ttl \in Nat
    BY <2>2, WindowBounds
  <2>4. new \in Mail /\ new.secret = secret' /\ new.sent = now /\ new.counter = new.sent \div Ttl
    BY <2>1, <2>2, <2>3 DEF Mail, Counter
  <2>5. ExpiryTypeOK'
    BY <2>1, <2>2, <2>4 DEF ExpiryTypeOK
  <2>6. MailsKnown'
    <3> SUFFICES ASSUME NEW m \in mails'
                 PROVE  /\ m.secret <= secret'
                        /\ m.sent \in Start..now'
                        /\ m.counter = m.sent \div Ttl
      BY DEF MailsKnown
    <3>1. CASE m = new
      BY <3>1, <2>1, <2>2, <2>4 DEF ExpiryTypeOK
    <3>2. CASE m \in mails
      <4>1. m.secret \in Nat /\ m.secret <= secret
        BY <3>2 DEF ExpiryTypeOK, MailsKnown, Mail
      <4> QED BY <3>2, <4>1, <2>1, <2>2 DEF MailsKnown
    <3> QED BY <3>1, <3>2, <2>1
  <2> QED BY <2>5, <2>6
<1>2. CASE GenerateOTP \/ Restart
  BY <1>2 DEF GenerateOTP, Restart, ExpiryTypeOK, MailsKnown
<1>3. CASE LogIn
  BY <1>3 DEF LogIn, ExpiryTypeOK, MailsKnown
<1>4. CASE Refresh
  BY <1>4 DEF Refresh, Renewed, ExpiryTypeOK, MailsKnown
<1>5. CASE LogOut
  BY <1>5 DEF LogOut, ExpiryTypeOK, MailsKnown
<1>6. CASE Tick
  BY <1>6 DEF Tick, ExpiryTypeOK, MailsKnown
<1>7. CASE UNCHANGED expiryVars
  BY <1>7 DEF expiryVars, ExpiryTypeOK, MailsKnown
<1> QED BY <1>1, <1>2, <1>3, <1>4, <1>5, <1>6, <1>7 DEF ExpiryNext

\* The invariant holds in every behaviour.
LEMMA InvHolds == ExpirySpec => []ExpiryInv
  BY InitInv, NextInv, PTL DEF ExpirySpec

\* Under the invariant a code that is accepted is one of the present window of app.ttl.
LEMMA AcceptedWindow ==
  ASSUME ExpiryInv, NEW m \in mails
  PROVE  Accepted(m) <=> /\ m.secret = secret
                         /\ step = Ttl
                         /\ m.sent \div Ttl = now \div Ttl
<1>1. m.sent \in Start..MaxTime /\ now \in Start..MaxTime /\ m.counter = m.sent \div Ttl
  BY Constants DEF ExpiryInv, ExpiryTypeOK, MailsKnown
<1>2. DefaultStep # Ttl => m.sent \div Ttl # now \div DefaultStep
  BY <1>1, StaleAtDefaultStep
<1>3. step \in {DefaultStep, Ttl}
  BY DEF ExpiryInv, ExpiryTypeOK
<1> QED BY <1>1, <1>2, <1>3 DEF Accepted, Counter

-----------------------------------------------------------------------------

\* The variables keep their types, whatever the lengths of the steps and the tokens.
THEOREM TypeCorrect == ExpirySpec => []ExpiryTypeOK
  BY InvHolds, PTL DEF ExpiryInv

\* A code that is accepted was sent less than app.ttl ago, in the same window.
THEOREM CodesDoExpire == ExpirySpec => []CodesExpire
<1>1. ASSUME ExpiryInv PROVE CodesExpire
  <2> SUFFICES ASSUME NEW m \in mails, Accepted(m) PROVE now < m.sent + Ttl
    BY DEF CodesExpire
  <2>1. m.sent \div Ttl = now \div Ttl
    BY AcceptedWindow, <1>1
  <2>2. m.sent \in Nat /\ now \in Nat
    BY <1>1, Constants DEF ExpiryInv, ExpiryTypeOK, MailsKnown
  <2> QED BY <2>1, <2>2, Constants, WindowLength
<1> QED BY <1>1, InvHolds, PTL

\* A step that makes a refused code acceptable is the first code sent to another
\* account after a restart: a new secret voids the code, and time never goes back to
\* its window.
LEMMA RefusedStep ==
  ASSUME ExpiryInv, ExpiryInv', [ExpiryNext]_expiryVars, NEW m \in mails, ~Accepted(m), Accepted(m)'
  PROVE  step = DefaultStep /\ GenerateOTP
<1>1. /\ m.secret \in Nat /\ m.secret <= secret /\ m.sent \in Nat /\ m.sent <= now
      /\ secret \in Nat /\ now \in Nat /\ step \in {DefaultStep, Ttl}
  BY Constants DEF ExpiryInv, ExpiryTypeOK, MailsKnown, Mail
<1>2. m \in mails' /\ Start \in Nat
  BY Constants DEF ExpiryNext, expiryVars, SendCode, GenerateOTP, LogIn, Refresh, LogOut, Restart, Tick
<1>3. m.secret = secret' /\ m.counter = now' \div step'
  BY DEF Accepted, Counter
<1>4. m.counter = m.sent \div Ttl /\ m.sent \in Start..MaxTime /\ now' \in Start..MaxTime
  BY <1>1, Constants DEF ExpiryInv, ExpiryTypeOK, MailsKnown
<1> DEFINE later == now'
<1>a. later \in Nat /\ later = now'
  BY <1>4, Constants
<1> HIDE DEF later
<1>5. step' = Ttl
  <2>1. DefaultStep # Ttl => m.sent \div Ttl # now' \div DefaultStep
    BY <1>4, StaleAtDefaultStep
  <2>2. step' \in {DefaultStep, Ttl}
    BY DEF ExpiryInv, ExpiryTypeOK
  <2> QED BY <2>1, <2>2, <1>3, <1>4
<1>6. ~SendCode
  BY <1>1, <1>3 DEF SendCode
<1>7. CASE secret' = secret /\ step' = step /\ now <= now'
  <2>1. m.sent \div Ttl <= now \div Ttl
    BY <1>1, Constants, WindowsAdvance
  <2>2. now <= later
    BY <1>7, <1>a
  <2>3. now \div Ttl <= later \div Ttl
    BY <2>2, <1>1, <1>a, Constants, WindowsAdvance
  <2>4. m.sent \div Ttl \in Nat /\ now \div Ttl \in Nat /\ later \div Ttl \in Nat
    BY <1>1, <1>a, Constants, WindowBounds
  <2>5. m.sent \div Ttl = now \div Ttl
    BY <2>1, <2>3, <2>4, <1>3, <1>4, <1>5, <1>a
  <2>6. Accepted(m)
    BY <2>5, <1>3, <1>5, <1>7, AcceptedWindow
  <2> QED BY <2>6
<1>8. CASE GenerateOTP
  <2>1. secret' = secret /\ now' = now
    BY <1>8 DEF GenerateOTP
  <2>2. CASE step = Ttl
    BY <2>1, <2>2, <1>1, <1>5, <1>7
  <2> QED BY <2>2, <1>1, <1>8
<1>9. CASE Restart
  <2>1. step' = DefaultStep /\ secret' = secret /\ now' = now
    BY <1>9 DEF Restart
  <2> QED BY <2>1, <1>1, <1>5, <1>7
<1>10. CASE LogIn \/ Refresh \/ LogOut \/ Tick \/ UNCHANGED expiryVars
  BY <1>1, <1>7, <1>10 DEF LogIn, Refresh, LogOut, Tick, expiryVars
<1> QED BY <1>6, <1>8, <1>9, <1>10 DEF ExpiryNext

\* A code that is refused is accepted later only because the process restarted.
THEOREM RefusedCodesStay == ExpirySpec => RefusedCodes
<1>1. ASSUME ExpiryInv, ExpiryInv', [ExpiryNext]_expiryVars
      PROVE  [\A m \in mails : ~Accepted(m) /\ Accepted(m)' => step = DefaultStep /\ GenerateOTP]_expiryVars
  BY <1>1, RefusedStep
<1> QED BY <1>1, InvHolds, PTL DEF ExpirySpec, RefusedCodes
=============================================================================
