SPECIFICATION Spec
CONSTANTS
  Bits <- MCBits
  Host = Host
  NaN = NaN
  MaxIEs = 4
  Uint32 = 16
  MaxBytes = 3
INVARIANTS
  KernelRuleOfIEs
  KernelOwnID
  FlowDescAccepted
  ConfigStarts
  SwitchEntriesRight
  SwitchForwardsWhole
  SwitchObeysFar
  RequestsAnswered
  MessagesRead
