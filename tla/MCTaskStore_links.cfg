CONSTANTS
  Task = {t1, t2, t3}
  Caller = {c1}
  Linkable <- AllPairs
  MaxVersion = 2
  MaxSeries = 0
SPECIFICATION Spec
SYMMETRY Symmetric
INVARIANT TypeOK
INVARIANT CounterExact
INVARIANT Acyclic
INVARIANT HistoryTells
PROPERTY StartsOnlyUnblocked
PROPERTY EditsRaiseVersion
