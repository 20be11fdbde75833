\* Two switches, two hosts, every application; one host may move.
CONSTANTS
  a = a
  b = b
  NoPeer = NoPeer
  Broadcast = Broadcast
  Lldp = Lldp
  Macs <- TwoHosts
  Dpids <- TwoSwitches
  PortNos <- ThreePorts
  Peer <- LinkOfTwo
  Home <- OneEach
  Toward <- Straight
  Pairs <- BothWays
  Apps <- AllApps
  MaxPackets = 3
  Movers <- OnlyB
SPECIFICATION FairSpec
INVARIANTS TypeOK EntriesPointHome NoPacketLost
PROPERTY EventuallyDelivered
\* The hosts send no more, and everything has arrived.
CHECK_DEADLOCK FALSE
