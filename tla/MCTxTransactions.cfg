CONSTANTS
  SeqMod = 8
  WireMod = 4
  MaxReq = 3
  MaxRetrans = 2
  TimeoutChanLen = 2
  NoTx = NoTx
SPECIFICATION FairSpec
INVARIANTS TypeOK OneTimer EndsOnce AnswerMatches
PROPERTIES QuietAfterEnd SentEnds
CHECK_DEADLOCK FALSE
