CONSTANTS
  Task = {t1, t2}
  Caller = {c1}
  Linkable <- NoPairs
  MaxVersion = 3
  MaxSeries = 0
SPECIFICATION Spec
SYMMETRY Symmetric
PROPERTY TrashIsNotEdited
