CONSTANTS
  NodeID = {n1, n2}
  NodeRef = {r1, r2, r3}
  RSeid = {s1, s2}
  TxID = {t1}
  MaxSess = 3
  Takeover = TRUE
  NoNode = NoNode
  NoSess = NoSess
  NoTx = NoTx
  Running = Running
  NilMap = NilMap
  NilSlot = NilSlot
  BadIndex = BadIndex
SYMMETRY Symm
SPECIFICATION HSpec
INVARIANTS TypeOK FreeListExact NodesAgree
PROPERTIES SlotStable EndsOwnSessions
