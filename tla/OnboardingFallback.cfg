SPECIFICATION FairSpec
CONSTANTS
  home = home
  wrong = wrong
  None = None
  Blank = Blank
  Creds = {home, wrong}
  AuthTypes <- MCAuthTypes
  Accepts <- MCAccepts
  Fallbacks = {TRUE}
  MaxRetries = 2
  MaxFaults = 2
INVARIANT StateTruthful
PROPERTY ComesBack
