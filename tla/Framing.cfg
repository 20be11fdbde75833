\* Two connections served by one event loop, every fragmentation of the streams.
CONSTANTS
  c1 = c1
  c2 = c2
  Conns <- TwoConns
  Sizes <- OneSize
  TrailingBytes <- NoTrail
  TextValue <- DigitsOrText
  SendBuffer <- LittleAndPlenty
  MaxRequests = 2
SPECIFICATION FairSpec
INVARIANTS TypeOK LenWithinBuffer NothingHeldBack
PROPERTIES StreamSpec EventuallySubmitted
\* Everything is submitted and the controllers send no more.
CHECK_DEADLOCK FALSE
