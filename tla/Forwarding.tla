------------------------------ MODULE Forwarding ------------------------------
(***************************************************************************)
(* What the controllers do to the packets of a network of switches.        *)
(*                                                                         *)
(* Three Ryu applications handle packet-ins: controller.py, which learns   *)
(* addresses and asks the consensus service for the rules it would like;   *)
(* simple_switch.py, which learns the same way and installs the rules      *)
(* itself; and cbench.py, which answers every packet-in with a rule that   *)
(* drops everything.  One of them runs, and manages all the switches.      *)
(*                                                                         *)
(* Switches, links and hosts are external.  The links make a tree: no      *)
(* application handles a loop.  A switch keeps its two connections to the  *)
(* controller in order, tells it of packets that match no entry, and never *)
(* sends a packet out of the port it came in by, even to be flooded.       *)
(*                                                                         *)
(* The consensus service is what OrderedRules says of it: the rules asked  *)
(* for come back in the order they were asked for, by way of the REST API, *)
(* until the VNF of the controller stops.                                  *)
(***************************************************************************)
EXTENDS Rules, Sequences, FiniteSets

CONSTANTS
    Peer,               \* Peer[s][p]: the other end of the link at port p of s
    NoPeer,             \* ... or that there is no link
    Home,               \* Home[h]: where the host with address h is at first
    Toward,             \* Toward[s][h]: the port of s on the way to Home[h]
    Broadcast, Lldp,    \* addresses of groups
    Pairs,              \* <<source, destination>> of packets that hosts send
    Apps,               \* applications that may run
    MaxPackets,         \* bound: packets sent by hosts
    Movers              \* bound: the hosts that may move, each once

Addrs     == Macs \cup {Broadcast, Lldp}
Endpoints == [sw : Dpids, port : PortNos]

\* What Toward has to do with a tree: following it ends at the host, and
\* going any other way is going away from it.
TowardHome(h) ==
    /\ Home[h] \in Endpoints
    /\ Peer[Home[h].sw][Home[h].port] = NoPeer
    /\ \A s \in Dpids :
        LET next == Peer[s][Toward[s][h]]
        IN  IF s = Home[h].sw THEN Toward[s][h] = Home[h].port
            ELSE next # NoPeer /\ next.port # Toward[next.sw][h]
    /\ \A s \in Dpids, p \in PortNos :
        Peer[s][p] # NoPeer /\ p # Toward[s][h] =>
            Peer[s][p].port = Toward[Peer[s][p].sw][h]

ASSUME ForwardingAssumption ==
    /\ Peer \in [Dpids -> [PortNos -> Endpoints \cup {NoPeer}]]
    /\ NoPeer \notin Endpoints
    /\ Toward \in [Dpids -> [Macs -> PortNos]]
    /\ \A h \in Macs : TowardHome(h)
    /\ \A g, h \in Macs : Home[g] = Home[h] => g = h
    /\ {Broadcast, Lldp} \cap Macs = {} /\ Broadcast # Lldp
    /\ \A pair \in Pairs : pair[1] \in Macs /\ pair[2] \in Addrs /\ pair[1] # pair[2]
    /\ Apps \subseteq {"consensus", "simple", "cbench"}
    /\ MaxPackets \in Nat /\ Movers \subseteq Macs

VARIABLES
    app,        \* the application that runs
    conn,       \* the connection of controller.py to its VNF, "up" or "lost"
    macToPort,  \* macToPort[s]: self.mac_to_port[s], NoPort where it has no key
    asked,      \* rules asked for and not posted yet
    flows,      \* flows[s]: the entries of the table of switch s
    toCtl,      \* toCtl[s]: packet-ins on their way to the controller
    fromCtl,    \* fromCtl[s]: messages on their way from the controller
    arriving,   \* packets at the ports of switches
    at,         \* at[h]: where host h is
    moved,      \* hosts that have moved
    sent,       \* packets sent
    received    \* received[h]: packets that host h has got

app_vars == <<app, conn, macToPort, asked>>
net_vars == <<flows, toCtl, fromCtl, arriving>>
hosts    == <<at, moved, sent, received>>
vars     == <<app_vars, net_vars, hosts>>

NoPort == 0

Init ==
    /\ app \in Apps
    /\ conn = "up"
    /\ macToPort = [s \in Dpids |-> [a \in Macs |-> NoPort]]
    /\ asked = <<>>
    /\ flows = [s \in Dpids |-> {}]
    /\ toCtl = [s \in Dpids |-> <<>>]
    /\ fromCtl = [s \in Dpids |-> <<>>]
    /\ arriving = {}
    /\ at = [h \in Macs |-> Home[h]]
    /\ moved = {}
    /\ sent = {}
    /\ received = [h \in Macs |-> {}]

-----------------------------------------------------------------------------
(* Hosts. *)

Send(h) ==
    /\ Cardinality(sent) < MaxPackets
    /\ \E pair \in Pairs :
          LET packet == [id |-> Cardinality(sent), src |-> h, dst |-> pair[2]]
          IN  /\ pair[1] = h
              /\ sent' = sent \cup {packet}
              /\ arriving' = arriving \cup
                    {[packet |-> packet, sw |-> at[h].sw, port |-> at[h].port]}
    /\ UNCHANGED <<app_vars, flows, toCtl, fromCtl, at, moved, received>>

\* A host is plugged in elsewhere.
Move(h) ==
    /\ h \in Movers \ moved
    /\ \E e \in Endpoints :
          /\ Peer[e.sw][e.port] = NoPeer
          /\ \A g \in Macs : at[g] # e
          /\ at' = [at EXCEPT ![h] = e]
    /\ moved' = moved \cup {h}
    /\ UNCHANGED <<app_vars, net_vars, sent, received>>

-----------------------------------------------------------------------------
(* Switch s. *)

\* Packet c leaves s by some ports.
Output(s, c, ports) ==
    LET out == ports \ {c.port}
        linked == { p \in out : Peer[s][p] # NoPeer }
    IN  /\ arriving' = (arriving \ {c}) \cup
              { [packet |-> c.packet, sw |-> Peer[s][p].sw, port |-> Peer[s][p].port]
                    : p \in linked }
        /\ received' = [h \in Macs |->
              IF at[h].sw = s /\ at[h].port \in out /\ c.packet.dst \in {h, Broadcast}
              THEN received[h] \cup {c.packet} ELSE received[h]]

Matches(entry, c) ==
    c.port \in entry.inPorts /\ c.packet.src \in entry.srcs /\ c.packet.dst \in entry.dsts

SwitchForwards(s) ==
    /\ \E c \in arriving : \E entry \in flows[s] :
          /\ c.sw = s
          /\ Matches(entry, c)
          /\ Output(s, c, entry.out)
    /\ UNCHANGED <<app_vars, flows, toCtl, fromCtl, at, moved, sent>>

SwitchAsks(s) ==
    /\ \E c \in arriving :
          /\ c.sw = s
          /\ \A entry \in flows[s] : ~ Matches(entry, c)
          /\ toCtl' = [toCtl EXCEPT ![s] = Append(@, c)]
          /\ arriving' = arriving \ {c}
    /\ UNCHANGED <<app_vars, flows, fromCtl, hosts>>

\* An entry takes the place of the one with the same match.
Installed(entries, entry) ==
    {entry} \cup { e \in entries : \/ e.inPorts # entry.inPorts
                                   \/ e.srcs # entry.srcs
                                   \/ e.dsts # entry.dsts }

SwitchTakesFlowMod(s) ==
    /\ fromCtl[s] # <<>>
    /\ Head(fromCtl[s]).kind = "flow_mod"
    /\ flows' = [flows EXCEPT ![s] = Installed(@, Head(fromCtl[s]).entry)]
    /\ fromCtl' = [fromCtl EXCEPT ![s] = Tail(@)]
    /\ UNCHANGED <<app_vars, toCtl, arriving, hosts>>

SwitchTakesPacketOut(s) ==
    /\ fromCtl[s] # <<>>
    /\ Head(fromCtl[s]).kind = "packet_out"
    /\ Output(s, Head(fromCtl[s]).copy, Head(fromCtl[s]).ports)
    /\ fromCtl' = [fromCtl EXCEPT ![s] = Tail(@)]
    /\ UNCHANGED <<app_vars, flows, toCtl, at, moved, sent>>

-----------------------------------------------------------------------------
(* The application, on the first packet-in of switch s. *)

FlowMod(entry)         == [kind |-> "flow_mod", entry |-> entry]
PacketOut(copy, ports) == [kind |-> "packet_out", copy |-> copy, ports |-> ports]

\* Mutant of Source: the addresses are swapped.
Destination(packet) == packet.dst

\* The address whose port a packet-in tells.
Source(packet) == packet.src

\* self.mac_to_port[dpid] once the source is learned.
Learned(s, c) ==
    [a \in Macs |-> IF a = Source(c.packet) THEN c.port ELSE macToPort[s][a]]

\* out_port; NoPort stands for OFPP_FLOOD.
OutPort(s, c) ==
    IF c.packet.dst \in Macs THEN Learned(s, c)[c.packet.dst] ELSE NoPort

\* Mutant of Ports: NoPort is taken for a port.
TheOne(port) == {port}

\* The ports an output action names.
Ports(port) == IF port = NoPort THEN PortNos ELSE {port}

\* Mutant of RuleThenPacket: the packet is left to the entry.
RuleOnly(entry, copy, port) == <<FlowMod(entry)>>

\* Mutant of PacketOnly: a packet for an unknown port is dropped.
KnownOnly(copy, port) == IF port = NoPort THEN <<>> ELSE <<PacketOut(copy, {port})>>

\* What is sent to the switch about a packet with a rule for it, and without.
RuleThenPacket(entry, copy, port) == <<FlowMod(entry), PacketOut(copy, Ports(port))>>
PacketOnly(copy, port)            == <<PacketOut(copy, Ports(port))>>

TakePacketIn(s, application) ==
    /\ app = application
    /\ toCtl[s] # <<>>
    /\ toCtl' = [toCtl EXCEPT ![s] = Tail(@)]

SendToSwitch(s, messages) == fromCtl' = [fromCtl EXCEPT ![s] = @ \o messages]
Learn(s, c)               == macToPort' = [macToPort EXCEPT ![s] = Learned(s, c)]

\* simple_switch.py returns at an LLDP packet ...
SimpleIgnores(s) ==
    /\ TakePacketIn(s, "simple")
    /\ Head(toCtl[s]).packet.dst = Lldp
    /\ UNCHANGED <<app_vars, flows, fromCtl, arriving, hosts>>

\* ... and else learns, adds the flow if it knows the port, and sends the
\* packet out.
SimpleEntry(c, port) ==
    [inPorts |-> {c.port}, srcs |-> {c.packet.src}, dsts |-> {c.packet.dst},
     out |-> {port}]

SimplePacketIn(s) ==
    LET c == Head(toCtl[s])
        port == OutPort(s, c)
    IN  /\ TakePacketIn(s, "simple")
        /\ c.packet.dst # Lldp
        /\ Learn(s, c)
        /\ SendToSwitch(s, IF port = NoPort THEN PacketOnly(c, port)
                           ELSE RuleThenPacket(SimpleEntry(c, port), c, port))
        /\ UNCHANGED <<app, conn, asked, flows, arriving, hosts>>

\* controller.py has no case for LLDP.
ConsensusFloods(s) ==
    LET c == Head(toCtl[s])
    IN  /\ TakePacketIn(s, "consensus")
        /\ OutPort(s, c) = NoPort
        /\ Learn(s, c)
        /\ SendToSwitch(s, PacketOnly(c, NoPort))
        /\ UNCHANGED <<app, conn, asked, flows, arriving, hosts>>

\* What is written after the VNF has gone is lost.
ConsensusAsks(s) ==
    LET c == Head(toCtl[s])
        port == OutPort(s, c)
    IN  /\ TakePacketIn(s, "consensus")
        /\ port # NoPort
        /\ Learn(s, c)
        /\ asked' = IF conn = "up"
                    THEN Append(asked, BuildRule(s, c.port, port, c.packet.dst)) ELSE asked
        /\ SendToSwitch(s, PacketOnly(c, port))
        /\ UNCHANGED <<app, conn, flows, arriving, hosts>>

\* send() raises an exception, after the source was learned.
ConsensusSendFails(s) ==
    LET c == Head(toCtl[s])
    IN  /\ TakePacketIn(s, "consensus")
        /\ OutPort(s, c) # NoPort
        /\ conn = "lost"
        /\ Learn(s, c)
        /\ UNCHANGED <<app, conn, asked, flows, fromCtl, arriving, hosts>>

\* cbench.py: match everything, no actions, and the packet is forgotten.
CbenchEntry == [inPorts |-> PortNos, srcs |-> Macs, dsts |-> Addrs, out |-> {}]

CbenchPacketIn(s) ==
    /\ TakePacketIn(s, "cbench")
    /\ SendToSwitch(s, <<FlowMod(CbenchEntry)>>)
    /\ UNCHANGED <<app_vars, flows, arriving, hosts>>

-----------------------------------------------------------------------------
(* The way back of a rule, and the end of it. *)

RuleEntry(rule) ==
    [inPorts |-> {rule.in_port}, srcs |-> Macs, dsts |-> {rule.dl_dst},
     out |-> {rule.out_port}]

\* The manager posts the next rule; the REST API sends it to the switch it
\* names, if it accepts it and knows the switch.
RulePosted ==
    LET rule == Head(asked)
    IN  /\ asked # <<>>
        /\ asked' = Tail(asked)
        /\ IF FlowAddStatus = 200 /\ rule.dpid \in Dpids
           THEN SendToSwitch(rule.dpid, <<FlowMod(RuleEntry(rule))>>)
           ELSE UNCHANGED fromCtl
        /\ UNCHANGED <<app, conn, macToPort, flows, toCtl, arriving, hosts>>

\* The VNF stops: its client holds the requests, its manager posts the rules.
VnfStops ==
    /\ app = "consensus"
    /\ conn = "up"
    /\ conn' = "lost"
    /\ asked' = <<>>
    /\ UNCHANGED <<app, macToPort, net_vars, hosts>>

-----------------------------------------------------------------------------
SwitchNext(s) == SwitchForwards(s) \/ SwitchAsks(s)
TakeNext(s)   == SwitchTakesFlowMod(s) \/ SwitchTakesPacketOut(s)
AppNext(s) ==
    \/ SimpleIgnores(s) \/ SimplePacketIn(s)
    \/ ConsensusFloods(s) \/ ConsensusAsks(s) \/ ConsensusSendFails(s)
    \/ CbenchPacketIn(s)

Next ==
    \/ \E h \in Macs : Send(h) \/ Move(h)
    \/ \E s \in Dpids : SwitchNext(s) \/ TakeNext(s) \/ AppNext(s)
    \/ RulePosted \/ VnfStops

Spec == Init /\ [][Next]_vars

\* A switch forwards what it gets and reads what the controller sends, and
\* the application handles its events.  Nobody has to send, move or stop,
\* and no rule has to come back.
Fairness ==
    \A s \in Dpids : /\ WF_vars(SwitchNext(s))
                     /\ WF_vars(TakeNext(s))
                     /\ WF_vars(AppNext(s))

FairSpec == Spec /\ Fairness

-----------------------------------------------------------------------------
(* Properties. *)

Packet == [id : Nat, src : Macs, dst : Addrs]
Copy   == [packet : Packet, sw : Dpids, port : PortNos]
Entry  == [inPorts : SUBSET PortNos, srcs : SUBSET Macs, dsts : SUBSET Addrs,
           out : SUBSET PortNos]
CtlMessage == [kind : {"flow_mod"}, entry : Entry]
                  \cup [kind : {"packet_out"}, copy : Copy, ports : SUBSET PortNos]

\* Type invariant.
TypeOK ==
    /\ app \in Apps
    /\ conn \in {"up", "lost"}
    /\ macToPort \in [Dpids -> [Macs -> PortNos \cup {NoPort}]]
    /\ asked \in Seq(Rule)
    /\ flows \in [Dpids -> SUBSET Entry]
    /\ toCtl \in [Dpids -> Seq(Copy)]
    /\ fromCtl \in [Dpids -> Seq(CtlMessage)]
    /\ arriving \in SUBSET Copy
    /\ at \in [Macs -> Endpoints]
    /\ moved \in SUBSET Macs
    /\ sent \in SUBSET Packet /\ IsFiniteSet(sent)
    /\ received \in [Macs -> SUBSET Packet]

\* A port on the way to a host, as long as the host has not moved.
PointsHome(s, h, port) == h \in moved \/ port = Toward[s][h]

\* An entry that can only lead packets to where they should go.
LeadsHome(s, entry) ==
    \A h \in entry.dsts : h \in Macs /\ (h \in moved \/ entry.out = {Toward[s][h]})

\* Only a move makes what was learned wrong: every port learned, every entry
\* and every rule that has been asked for leads to its host, unless that
\* host has moved, whatever the packets overtake.  Rules that are asked for
\* one destination never contradict each other before, so that the order
\* they are agreed on matters only then.
EntriesPointHome ==
    app # "cbench" =>
        /\ \A s \in Dpids, h \in Macs :
              macToPort[s][h] # NoPort => PointsHome(s, h, macToPort[s][h])
        /\ \A s \in Dpids : \A entry \in flows[s] : LeadsHome(s, entry)
        /\ \A i \in DOMAIN asked : asked[i].dpid \in Dpids =>
              PointsHome(asked[i].dpid, asked[i].dl_dst, asked[i].out_port)

\* The hosts a packet is meant for.
IsFor(packet, h) == packet.src # h /\ packet.dst \in {h, Broadcast}

\* A packet, or a copy of it, is at a switch that has host h ahead.
Ahead(c, packet, h) == c.packet = packet /\ c.port # Toward[c.sw][h]
OnTheWay(packet, h) ==
    \/ \E c \in arriving : Ahead(c, packet, h)
    \/ \E s \in Dpids : \E i \in DOMAIN toCtl[s] : Ahead(toCtl[s][i], packet, h)
    \/ \E s \in Dpids : \E i \in DOMAIN fromCtl[s] :
          /\ fromCtl[s][i].kind = "packet_out"
          /\ Ahead(fromCtl[s][i].copy, packet, h)
          /\ Toward[s][h] \in fromCtl[s][i].ports

\* No packet is lost: whatever was learned, installed and asked for in the
\* meantime, and whoever else has moved, a packet for a host that has not
\* moved has come to it or is on its way there, as long as controller.py has
\* its VNF (cbench.py forwards nothing).
NoPacketLost ==
    app # "cbench" /\ conn = "up" =>
        \A packet \in sent : \A h \in Macs \ moved :
            IsFor(packet, h) => packet \in received[h] \/ OnTheWay(packet, h)

\* ... and it gets there in the end: again and again there is nothing that
\* was sent and has not arrived, be it because the host has moved.
Arrived(packet, h) == IsFor(packet, h) => packet \in received[h] \/ h \in moved
EventuallyDelivered ==
    []<> \/ app = "cbench" \/ conn = "lost"
         \/ \A packet \in sent, h \in Macs : Arrived(packet, h)
=============================================================================
