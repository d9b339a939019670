CONSTANTS
  MaxSession = 1
  MaxToken = 1
  None = None
SPECIFICATION Spec
INVARIANT
  EveryFormHasToken
