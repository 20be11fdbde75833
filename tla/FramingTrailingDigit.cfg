\* The byte after the char dados[3] of extract_data() may be a digit.
CONSTANTS
  c1 = c1
  c2 = c2
  Conns <- OneConn
  Sizes <- ShortLong
  TrailingBytes <- AnyTrail
  TextValue <- DigitsOrText
  SendBuffer <- Plenty
  MaxRequests = 2
SPECIFICATION Spec
INVARIANT NothingHeldBack
CHECK_DEADLOCK FALSE
