CONSTANTS
  Task = {t1, t2}
  Caller = {c1, c2}
  Linkable <- NoPairs
  MaxVersion = 3
  MaxSeries = 1
SPECIFICATION Spec
SYMMETRY Symmetric
INVARIANT SeriesNeverForks
INVARIANT DecidedOnCurrentRow
INVARIANT ConflictIsNewer
INVARIANT HistoryTells
PROPERTY SeriesNeverDropped
PROPERTY FinishingHandsOver
