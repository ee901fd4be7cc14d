CONSTANTS
  t1 = t1
  t2 = t2
  t3 = t3
  Task = {t1, t2}
  Tx = {x1, x2}
  FirstDeps <- NoPairs
  Linkable <- AllPairs
  Asked <- OpenOrDone
  Offered <- AnyOp
  MaxVersion = 2
SPECIFICATION Spec
SYMMETRY Connections
INVARIANT CounterExact
