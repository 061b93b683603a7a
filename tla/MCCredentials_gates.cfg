\* Two requests at the platform's gate through a key rotation; a key directory
\* of two files under edits, one key, at a host's.
SPECIFICATION CredentialsSpec
CONSTANTS
  NoOne = NoOne
  Missing = Missing
  Request = {r1, r2}
  ClientId = "me"
  RequireAuth = TRUE
  Jwks <- MCJwks
  IssuerAt <- MCIssuer
  OriginOf <- MCOriginOf
  Bearer <- MCBearer
  KeyFile = {f1, f2}
  ApiKey = {k1}
  RefreshS = 2
  MaxEdits = 2
  HostKey = {h1, h2}
  Kid = {"kid"}
  HostJwt <- MCJwt
  Audiences = {"me"}
  AllowOpen = FALSE
  Inline = {}
  Unsigned = Unsigned
  Leaf = FALSE
INVARIANTS
  StrangersRefused
  RevokedKeysRefused
  
PROPERTIES
  Answered
  
CHECK_DEADLOCK FALSE
