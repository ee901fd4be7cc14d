CONSTANTS
  Task = {1, 2, 3}
  Date = {1}
  Undated = Undated
  Infinity = 9
  Now = 2
  Query <- Lists
  Asked <- OpenOrDone
  MaxEdits = 2
SPECIFICATION Spec
INVARIANT TypeOK
INVARIANT UnmovedSeenOnce
INVARIANT PagesInOrder
INVARIANT CountMatchesList
INVARIANT ScreenIsCurrent
