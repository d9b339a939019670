CONSTANTS
  User = {u1, u2}
  Browser = {b1}
  Session = {s1, s2}
  Req = {r1, r2}
  None = None
  Pending = Pending
  RefreshTTL = 2
  AccessTTL = 1
  MaxTime = 2
  MaxToken = 3
SPECIFICATION Spec
SYMMETRY Symmetry
INVARIANTS
  SpentNeverOpens
  NoGrantAfterRevocation
  CookieWasCredential
  PendingOpensForNobody
  AnswerMeansRevoked
  IdleSessionsExpire
  IInv
PROPERTIES
  RevokedOnRequest
  RevocationIsFinal
  ImplementsContract
\* Clients may stop calling, and calls end once MaxToken and MaxTime are used up.
CHECK_DEADLOCK FALSE
