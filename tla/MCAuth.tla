------------------------------- MODULE MCAuth --------------------------------
(***************************************************************************)
(* Constants of the run of AuthSession and of AuthExpiry.  The two share no *)
(* state: a behaviour is one of overlapping requests or one of time.        *)
(***************************************************************************)
EXTENDS AuthSession, AuthExpiry, TLC

VARIABLE part     \* what the behaviour is one of

CONSTANTS c1, c2, p1, p2

\* The clients play the same part, and so do the passwords.
Symmetry == Permutations({c1, c2}) \cup Permutations({p1, p2})

AuthInit == Init /\ ExpiryInit /\ part \in {"requests", "time"}

AuthNext ==
  \/ part = "requests" /\ Next /\ UNCHANGED <<expiryVars, part>>
  \/ part = "time" /\ ExpiryNext /\ UNCHANGED <<vars, part>>

AuthSpec == AuthInit /\ [][AuthNext]_<<vars, expiryVars, part>>
=============================================================================
