\* Two requests to two switches that answer, stay silent or go away.
CONSTANTS
  t1 = t1
  t2 = t2
  d1 = d1
  d2 = d2
  Threads <- TwoThreads
  Datapaths <- TwoSwitches
  Version <- OldAndNew
  Unsupported <- Lacking
  Requests <- Mixed
  BadDpid = BadDpid
  NoDpid = NoDpid
  UnknownDpid = UnknownDpid
  MaxParts = 3
SPECIFICATION FairSpec
INVARIANTS TypeOK WaitersAreWaiting WholeAnswer
PROPERTIES EveryRequestAnswered
