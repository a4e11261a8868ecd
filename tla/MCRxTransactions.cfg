CONSTANTS
  q1 = q1
  q2 = q2
  k1 = k1
  k2 = k2
  Req <- MCReq
  Key <- MCKey
  KeyOf <- DistinctKeys
  RetransTimeout = 2
  MaxRetrans = 2
  PeerWindow = 4
  MaxDelay = 1
  TimeoutChanLen = 1
  NoRx = NoRx
  NoAnswer = NoAnswer
SPECIFICATION FairSpec
INVARIANTS TypeOK AtMostOnce TimeoutsAreDue FalseMeansHandled
PROPERTIES AnsweredIsDeleted
