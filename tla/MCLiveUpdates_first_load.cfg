CONSTANTS
  Page = {p1, p2}
  Conn = {c1, c2}
  Awake = {p1, p2}
  Writer = {p1}
  Buffer = 2
  MaxChanges = 1
  MaxFaults = 0
SPECIFICATION FairSpec
PROPERTY NextEventRepairs
