CONSTANTS
  Worker = {w1, w2}
  Script = {admin}
  Task = {r1, r2}
  PoolSize = 1
  MaxStatement = 2
  MaxFault = 2
  None = None
SPECIFICATION MCSpec
INVARIANTS
  TypeOK
  SchemaAlone
  PoolIsWhole
PROPERTIES
  EveryRequestEnds
  WorkersServe
