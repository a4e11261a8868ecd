CONSTANTS
  SEID = {s1}
  PDR = {p1, p2}
  Action <- MCAction
  NoUpdate = NoUpdate
  ChLen = 1
  QLen = 2
  MaxPkt = 3
SPECIFICATION Spec
INVARIANTS TypeOK NothingOlderThanDrain LeavesInOrder
PROPERTIES ReportsServed
