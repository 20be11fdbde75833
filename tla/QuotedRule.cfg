\* The status of the POST that would install a rule.
CONSTANTS
  A = A
  B = B
  Macs <- TwoMacs
  PortNos <- Ports
  Dpids <- OneDpid
  NumCtls = 1
  NumVnfs = 1
  Ctls = {2}
  Packets <- Talk
  Faults = {}
  MaxPackets = 2
  MaxFaults = 0
SPECIFICATION Spec
INVARIANT PostedRulesInstalled
\* The switches stop sending packets at the bound.
CHECK_DEADLOCK FALSE
