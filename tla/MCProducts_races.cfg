CONSTANTS
  t1 = t1
  USD = USD
  EUR = EUR
  User = {u1}
  Role = {"seller"}
  Title = {t1}
  Currency = {USD, EUR}
  Usd = USD
  Ask <- EdgeAsks
  MaxPrice = 2
  MaxId = 1
  Req = {r1, r2}
  None = None
SPECIFICATION Spec
SYMMETRY Symmetry
INVARIANTS
  TypeOK
  ValuesWereOffered
PROPERTY
  NoOverlapNoLoss
