\* A controller stops while its VNF manager posts a rule to it.
CONSTANTS
  A = A
  B = B
  Macs <- TwoMacs
  PortNos <- Ports
  Dpids <- OneDpid
  NumCtls = 2
  NumVnfs = 2
  Ctls = {2, 3}
  Packets <- Talk
  Faults = {"ctl"}
  MaxPackets = 2
  MaxFaults = 1
SPECIFICATION Spec
INVARIANT KeepsWaiting
\* The switches stop sending packets at the bound.
CHECK_DEADLOCK FALSE
