\* A domain of two controllers and one of one; controllers stop, and clients
\* may miss the proposer.
CONSTANTS
  A = A
  B = B
  Macs <- TwoMacs
  PortNos <- Ports
  Dpids <- OneDpid
  NumCtls = 3
  NumVnfs = 2
  Ctls = {2, 3, 4}
  Packets <- Talk
  Faults = {"ctl", "race"}
  MaxPackets = 2
  MaxFaults = 2
SPECIFICATION Spec
INVARIANTS StopsWithOwnController NothingLost PostedToRequester
\* The switches stop sending packets at the bound.
CHECK_DEADLOCK FALSE
