CONSTANTS
  Task = {t1, t2}
  Caller = {c1}
  Linkable <- AllPairs
  MaxVersion = 2
  MaxSeries = 0
SPECIFICATION Spec
SYMMETRY Symmetric
INVARIANT CompletedHasNoUnfinished
