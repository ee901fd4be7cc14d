CONSTANTS
  Page = {p1, p2}
  Conn = {c1, c2}
  Awake = {p1}
  Writer = {p2}
  Buffer = 1
  MaxChanges = 2
  MaxFaults = 1
SPECIFICATION FairSpec
INVARIANT TypeOK
INVARIANT StaleIsRepaired
PROPERTY ListenersCatchUp
PROPERTY WritesEnd
