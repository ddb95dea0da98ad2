\* The values of env-example: tokens of 15 minutes.
CONSTANTS
  DefaultStep = 1
  Ttl = 6
  Promised = 20
  TokenLife = 30
  Start = 60
  MaxTime = 120
  MaxCodes = 1

SPECIFICATION ExpirySpec

INVARIANT RefreshOutlivesToken
