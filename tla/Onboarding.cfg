SPECIFICATION FairSpec
CONSTANTS
  home = home
  wrong = wrong
  None = None
  Blank = Blank
  Creds = {home, wrong}
  AuthTypes <- MCAuthTypes
  Accepts <- MCAccepts
  Fallbacks = {FALSE, TRUE}
  MaxRetries = 2
  MaxFaults = 2
INVARIANTS TypeOK CredentialsAgree
PROPERTIES CredentialsTried Rejoins
