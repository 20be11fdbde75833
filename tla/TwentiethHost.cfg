\* The host number of the nineteenth controller, cut to one digit, is that of the first.
CONSTANTS
  A = A
  B = B
  Macs <- TwoMacs
  PortNos <- Ports
  Dpids <- OneDpid
  NumCtls = 19
  NumVnfs = 1
  Ctls = {20}
  Packets <- Talk
  Faults = {}
  MaxPackets = 2
  MaxFaults = 0
SPECIFICATION Spec
INVARIANT PostedToRequester
\* The switches stop sending packets at the bound.
CHECK_DEADLOCK FALSE
