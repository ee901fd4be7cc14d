CONSTANTS
  t1 = t1
  t2 = t2
  t3 = t3
  Task = {t1, t2, t3}
  Tx = {x1, x2}
  FirstDeps <- Triangle
  Linkable <- NoPairs
  Asked <- OpenOrDone
  Offered <- StatusOps
  MaxVersion = 2
SPECIFICATION FairSpec
INVARIANT CounterExact
PROPERTY TransactionsEnd
