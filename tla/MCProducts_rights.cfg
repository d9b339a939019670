CONSTANTS
  t1 = t1
  USD = USD
  EUR = EUR
  User = {u1, u2}
  Role = {"buyer", "seller", "admin"}
  Title = {t1}
  Currency = {USD, EUR}
  Usd = USD
  Ask <- PlainAsks
  MaxPrice = 2
  MaxId = 1
  Req = {r1, r2}
  None = None
SPECIFICATION Spec
SYMMETRY Symmetry
INVARIANT
  DeletedMeansGone
PROPERTIES
  RightHeldMeanwhile
  OneLife
