\* Three VNFs, one of which may stop with the others going on.
CONSTANTS
  A = A
  B = B
  Macs <- TwoMacs
  PortNos <- Ports
  Dpids <- OneDpid
  NumCtls = 3
  NumVnfs = 3
  Ctls = {2, 3}
  Packets <- Loopback
  Faults = {"ctl", "vnf", "read"}
  MaxPackets = 2
  MaxFaults = 1
SPECIFICATION Spec
INVARIANTS TypeOK IInv SingleInstaller LogInRequestOrder OwnRulesPosted PacketDroppedOnlyWithoutVnf
PROPERTY OrderedSpec
\* The switches stop sending packets at the bound.
CHECK_DEADLOCK FALSE
