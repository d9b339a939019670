CONSTANTS
  i1 = i1
  i2 = i2
  alice = alice
  ALICE = ALICE
  Alice = Alice
  p1 = p1
  p2 = p2
  n1 = n1
  Id = {i1, i2}
  Spelling = {alice, ALICE}
  Lower <- MCLower
  Pseudo = {ALICE}
  Password = {p1, p2}
  Name = {n1}
  Avatar = {a1}
  Req = {r1, r2}
  Operator = Operator
  AdminRun <- MCAdminRun
  None = None
  Empty = Empty
SPECIFICATION Spec
SYMMETRY Symmetry
INVARIANT
  DuplicateAnswers400
