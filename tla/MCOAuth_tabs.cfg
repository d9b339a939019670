CONSTANTS
  t1 = t1
  t2 = t2
  t3 = t3
  b1 = b1
  b2 = b2
  Browser = {b1, b2}
  Tab = {t1, t2, t3}
  Home <- TwoAndOne
  CookieTTL = 1
  MaxStart = 2
  MaxTime = 1
  MaxSecret = 1
  None = None
SPECIFICATION Spec
SYMMETRY Symmetry
INVARIANTS
  TypeOK
  OwnSignInOnly
  VerifierFits
  LastStartedPasses
  StateCleared

\* Users may stop, and sign-ins end once MaxStart and MaxTime are used up.
CHECK_DEADLOCK FALSE
