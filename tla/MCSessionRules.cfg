CONSTANTS
  s1 = s1
  s2 = s2
  f1 = f1
  q1 = q1
  p1 = p1
  v1 = v1
  v2 = v2
  SEID <- MCSEID
  Rule <- MCRule
  KindOf <- MCKindOf
  FarOf <- MCFarOf
  Val = {v1}
  MaxOps = 3
  Gtp5g = Gtp5g
  P4 = P4
  NoSess = NoSess
SYMMETRY Sym
SPECIFICATION Spec
INVARIANTS TypeOK RecordedAreInstalled NothingUnrecorded
PROPERTIES FarBeforePdr
