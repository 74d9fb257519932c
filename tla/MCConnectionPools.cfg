\* Four requests of all kinds, two database and three Redis connections.
SPECIFICATION Spec
CONSTANTS
  r1 = r1
  r2 = r2
  r3 = r3
  r4 = r4
  Requests = {r1, r2, r3, r4}
  Handler <- Mixture
  MaxDb = 2
  MaxRedis = 3
CHECK_DEADLOCK FALSE
INVARIANTS
  TypeOK
  NothingLeaks
  OneDbConnectionEach
PROPERTIES
  OnlyReadersExhaustRedis
  EveryoneServed
