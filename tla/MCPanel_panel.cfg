CONSTANTS
  Task = {t1, t2}
  Request = {r1, r2}
  MaxWrites = 3
  MaxOpens = 2
SPECIFICATION Spec
SYMMETRY Symmetric
INVARIANT TypeOK
INVARIANT PanelIsOfOneTask
PROPERTY AcceptedWasSeen
PROPERTY AnswersLeaveOtherTasks
PROPERTY TypedIsKept
