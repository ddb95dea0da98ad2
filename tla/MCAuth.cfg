\* Two overlapping requests about one account.
CONSTANTS
  c1 = c1
  c2 = c2
  p1 = p1
  p2 = p2
  Client = {c1, c2}
  Password = {p1, p2}
  NoPassword = NoPassword
  Broken = Broken
  MaxSecrets = 3
  MaxSessions = 3
  MaxForgots = 2
\* Steps, codes and tokens in small proportions: steps of 1 and 3, tokens of 4 units.
  DefaultStep = 1
  Ttl = 3
  Promised = 10
  TokenLife = 4
  Start = 20
  MaxTime = 38
  MaxCodes = 3

SPECIFICATION AuthSpec
SYMMETRY Symmetry

INVARIANT TypeOK
INVARIANT RequestsAreCurrent
PROPERTY SecretsAdvance
PROPERTY DeletedStaysOut
PROPERTY PasswordCauses
INVARIANT ExpiryTypeOK
INVARIANT CodesExpire
PROPERTY RefusedCodes
