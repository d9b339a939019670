CONSTANTS
  MaxSession = 2
  MaxToken = 3
  None = None
SPECIFICATION Spec
INVARIANTS
  TypeOK
  DeadCookieOpensNothing
  LogoutIsOut
PROPERTY
  EveryNavigationLands
