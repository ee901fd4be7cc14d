CONSTANTS
  t1 = t1
  t2 = t2
  t3 = t3
  Task = {t1, t2}
  Tx = {x1, x2}
  FirstDeps <- OnePair
  Linkable <- OnePair
  Asked <- OpenOrDone
  Offered <- AnyOp
  MaxVersion = 3
SPECIFICATION Spec
SYMMETRY Connections
INVARIANT TypeOK
PROPERTY JudgedByCommitted
PROPERTY OneEditAtATime
