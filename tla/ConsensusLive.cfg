\* Three VNFs, one of which may stop, messages that do not fit a frame: what is
\* asked for is posted and what is decided is handled.
CONSTANTS
  A = A
  B = B
  Macs <- TwoMacs
  PortNos <- WidePorts
  Dpids <- OneDpid
  NumCtls = 3
  NumVnfs = 3
  Ctls = {2, 3}
  Packets <- WideTalk
  Faults = {"vnf"}
  MaxPackets = 2
  MaxFaults = 1
SPECIFICATION FairSpec
PROPERTIES EventuallyPosted EventuallyHandled
\* The switches stop sending packets at the bound.
CHECK_DEADLOCK FALSE
