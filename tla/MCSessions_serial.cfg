CONSTANTS
  User = {u1}
  Browser = {b1, b2}
  Session = {s1, s2}
  Req = {r1, r2}
  None = None
  Pending = Pending
  RefreshTTL = 1
  AccessTTL = 0
  MaxTime = 1
  MaxToken = 4
SPECIFICATION SerialSpec
SYMMETRY Symmetry
INVARIANT
  CookieIsCurrent
\* Clients may stop calling, and calls end once MaxToken and MaxTime are used up.
CHECK_DEADLOCK FALSE
