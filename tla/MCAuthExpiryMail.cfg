\* The values of env-example: codes of 180 s, the mail promises 10 minutes.
CONSTANTS
  DefaultStep = 1
  Ttl = 6
  Promised = 20
  TokenLife = 30
  Start = 60
  MaxTime = 120
  MaxCodes = 1

SPECIFICATION ExpirySpec

INVARIANT CodesLastAsPromised
