--------------------------- MODULE Forwarding_proofs ---------------------------
(***************************************************************************)
(* Theorems about Forwarding, for every tree of switches, every placing of *)
(* the hosts, and any packets and moves.                                   *)
(***************************************************************************)
EXTENDS Forwarding, SequenceTheorems, FiniteSetTheorems, TLAPS

-----------------------------------------------------------------------------
(* Types. *)

\* The packet at the other end of a link.
LEMMA LinkType ==
    ASSUME NEW s \in Dpids, NEW p \in PortNos, Peer[s][p] # NoPeer
    PROVE  Peer[s][p] \in Endpoints /\ Peer[s][p].sw \in Dpids /\ Peer[s][p].port \in PortNos
BY ForwardingAssumption DEF Endpoints

\* What a packet leaving a switch becomes is a packet at a switch.
LEMMA OutputType ==
    ASSUME TypeOK, NEW s \in Dpids, NEW c \in Copy, NEW ports \in SUBSET PortNos,
           Output(s, c, ports)
    PROVE  arriving' \in SUBSET Copy /\ received' \in [Macs -> SUBSET Packet]
<1>1. ASSUME NEW p \in PortNos, Peer[s][p] # NoPeer
      PROVE  [packet |-> c.packet, sw |-> Peer[s][p].sw, port |-> Peer[s][p].port] \in Copy
  BY <1>1, LinkType DEF Copy
<1>2. \A d \in arriving' : d \in Copy
  BY <1>1 DEF Output, TypeOK
<1>3. received' \in [Macs -> SUBSET Packet]
  BY DEF Output, TypeOK, Copy
<1> QED
  BY <1>2, <1>3

\* The first packet-in of a switch, and what is learned from it.
LEMMA PacketInType ==
    ASSUME TypeOK, NEW s \in Dpids, toCtl[s] # <<>>
    PROVE  /\ Head(toCtl[s]) \in Copy /\ Tail(toCtl[s]) \in Seq(Copy)
           /\ Learned(s, Head(toCtl[s])) \in [Macs -> PortNos \cup {NoPort}]
           /\ OutPort(s, Head(toCtl[s])) \in PortNos \cup {NoPort}
           /\ OutPort(s, Head(toCtl[s])) # NoPort => Head(toCtl[s]).packet.dst \in Macs
<1>1. toCtl[s] \in Seq(Copy)
  BY DEF TypeOK
<1>2. Head(toCtl[s]) \in Copy /\ Tail(toCtl[s]) \in Seq(Copy)
  BY <1>1
<1>3. Learned(s, Head(toCtl[s])) \in [Macs -> PortNos \cup {NoPort}]
  BY <1>2 DEF TypeOK, Learned, Copy
<1> QED
  BY <1>2, <1>3 DEF OutPort

\* What the controller sends to a switch.
LEMMA MessageType ==
    ASSUME NEW c \in Copy
    PROVE  /\ \A entry \in Entry : FlowMod(entry) \in CtlMessage
           /\ \A ports \in SUBSET PortNos : PacketOut(c, ports) \in CtlMessage
           /\ \A port \in PortNos \cup {NoPort} : Ports(port) \in SUBSET PortNos
           /\ \A port \in PortNos \cup {NoPort} :
                 PacketOnly(c, port) \in Seq(CtlMessage)
           /\ \A entry \in Entry, port \in PortNos \cup {NoPort} :
                 RuleThenPacket(entry, c, port) \in Seq(CtlMessage)
<1>1. \A entry \in Entry : FlowMod(entry) \in CtlMessage
  BY DEF FlowMod, CtlMessage
<1>2. \A ports \in SUBSET PortNos : PacketOut(c, ports) \in CtlMessage
  BY DEF PacketOut, CtlMessage
<1>3. \A port \in PortNos \cup {NoPort} : Ports(port) \in SUBSET PortNos
  BY DEF Ports
<1> HIDE DEF CtlMessage
<1> QED
  BY <1>1, <1>2, <1>3 DEF PacketOnly, RuleThenPacket

\* The entries that the applications install.
LEMMA EntryType ==
    /\ CbenchEntry \in Entry
    /\ \A rule \in Rule : RuleEntry(rule) \in Entry
    /\ \A c \in Copy, port \in PortNos : c.packet.dst \in Macs => SimpleEntry(c, port) \in Entry
BY DEF CbenchEntry, RuleEntry, SimpleEntry, Entry, Rule, Copy, Packet, Addrs

LEMMA InitType == Init => TypeOK
<1> SUFFICES ASSUME Init PROVE TypeOK
  OBVIOUS
<1>1. \A h \in Macs : Home[h] \in Endpoints
  BY ForwardingAssumption DEF TowardHome
<1> QED
  BY <1>1, FS_EmptySet DEF Init, TypeOK

\* A step keeps the types.
LEMMA TypeStep == TypeOK /\ [Next]_vars => TypeOK'
<1> SUFFICES ASSUME TypeOK, [Next]_vars PROVE TypeOK'
  OBVIOUS
<1> USE DEF app_vars, net_vars, hosts
<1>1. ASSUME NEW h \in Macs, Send(h) PROVE TypeOK'
  <2>1. PICK pair \in Pairs :
          LET packet == [id |-> Cardinality(sent), src |-> h, dst |-> pair[2]]
          IN  /\ sent' = sent \cup {packet}
              /\ arriving' = arriving \cup
                    {[packet |-> packet, sw |-> at[h].sw, port |-> at[h].port]}
    BY <1>1 DEF Send
  <2>2. pair[2] \in Addrs
    BY ForwardingAssumption
  <2>3. Cardinality(sent) \in Nat /\ IsFiniteSet(sent')
    BY <2>1, FS_CardinalityType, FS_AddElement DEF TypeOK
  <2>4. /\ sent' \in SUBSET Packet
        /\ arriving' \in SUBSET Copy
    BY <2>1, <2>2, <2>3 DEF TypeOK, Packet, Copy, Endpoints
  <2> QED
    BY <1>1, <2>3, <2>4 DEF TypeOK, Send
<1>2. ASSUME NEW h \in Macs, Move(h) PROVE TypeOK'
  BY <1>2 DEF TypeOK, Move
<1>3. ASSUME NEW s \in Dpids, SwitchForwards(s) PROVE TypeOK'
  <2>1. PICK c \in arriving, entry \in flows[s] : Output(s, c, entry.out)
    BY <1>3 DEF SwitchForwards
  <2>2. c \in Copy /\ entry.out \in SUBSET PortNos
    BY DEF TypeOK, Entry
  <2>3. arriving' \in SUBSET Copy /\ received' \in [Macs -> SUBSET Packet]
    BY <2>1, <2>2, OutputType
  <2> QED
    BY <1>3, <2>3 DEF TypeOK, SwitchForwards
<1>4. ASSUME NEW s \in Dpids, SwitchAsks(s) PROVE TypeOK'
  BY <1>4 DEF TypeOK, SwitchAsks
<1>5. ASSUME NEW s \in Dpids, SwitchTakesFlowMod(s) PROVE TypeOK'
  <2>1. Head(fromCtl[s]) \in CtlMessage /\ Tail(fromCtl[s]) \in Seq(CtlMessage)
    BY <1>5 DEF TypeOK, SwitchTakesFlowMod
  <2>2. Head(fromCtl[s]).entry \in Entry
    BY <1>5, <2>1 DEF CtlMessage, SwitchTakesFlowMod
  <2>3. Installed(flows[s], Head(fromCtl[s]).entry) \in SUBSET Entry
    BY <2>2 DEF TypeOK, Installed
  <2> QED
    BY <1>5, <2>1, <2>3 DEF TypeOK, SwitchTakesFlowMod
<1>6. ASSUME NEW s \in Dpids, SwitchTakesPacketOut(s) PROVE TypeOK'
  <2>1. Head(fromCtl[s]) \in CtlMessage /\ Tail(fromCtl[s]) \in Seq(CtlMessage)
    BY <1>6 DEF TypeOK, SwitchTakesPacketOut
  <2>2. Head(fromCtl[s]).copy \in Copy /\ Head(fromCtl[s]).ports \in SUBSET PortNos
    BY <1>6, <2>1 DEF CtlMessage, SwitchTakesPacketOut
  <2>3. arriving' \in SUBSET Copy /\ received' \in [Macs -> SUBSET Packet]
    BY <1>6, <2>2, OutputType DEF SwitchTakesPacketOut
  <2> QED
    BY <1>6, <2>1, <2>3 DEF TypeOK, SwitchTakesPacketOut
<1>7. ASSUME NEW s \in Dpids, AppNext(s) PROVE TypeOK'
  <2> DEFINE c == Head(toCtl[s])
             port == OutPort(s, c)
  <2>1. toCtl[s] # <<>>
    BY <1>7 DEF AppNext, SimpleIgnores, SimplePacketIn, ConsensusFloods, ConsensusAsks,
                ConsensusSendFails, CbenchPacketIn, TakePacketIn
  <2>2. /\ c \in Copy /\ Tail(toCtl[s]) \in Seq(Copy)
        /\ Learned(s, c) \in [Macs -> PortNos \cup {NoPort}]
        /\ port \in PortNos \cup {NoPort}
        /\ port # NoPort => c.packet.dst \in Macs
    BY <2>1, PacketInType
  <2>3. /\ PacketOnly(c, port) \in Seq(CtlMessage)
        /\ PacketOnly(c, NoPort) \in Seq(CtlMessage)
        /\ <<FlowMod(CbenchEntry)>> \in Seq(CtlMessage)
        /\ port # NoPort => RuleThenPacket(SimpleEntry(c, port), c, port) \in Seq(CtlMessage)
    BY <2>2, MessageType, EntryType
  <2>4. port # NoPort => BuildRule(s, c.port, port, c.packet.dst) \in Rule
    BY <2>2 DEF BuildRule, RuleDpid, Rule, Copy
  <2> HIDE DEF c, port
  <2>5. ASSUME NEW m \in Seq(CtlMessage), SendToSwitch(s, m)
        PROVE  fromCtl' \in [Dpids -> Seq(CtlMessage)]
    BY <2>5 DEF TypeOK, SendToSwitch
  <2>6. CASE SimpleIgnores(s)
    BY <2>2, <2>6 DEF TypeOK, SimpleIgnores, TakePacketIn
  <2>7. CASE SimplePacketIn(s)
    BY <2>2, <2>3, <2>5, <2>7 DEF TypeOK, SimplePacketIn, TakePacketIn, Learn, c, port
  <2>8. CASE ConsensusFloods(s)
    BY <2>2, <2>3, <2>5, <2>8 DEF TypeOK, ConsensusFloods, TakePacketIn, Learn, c, port
  <2>9. CASE ConsensusAsks(s)
    <3>1. asked' \in Seq(Rule)
      BY <2>4, <2>9 DEF TypeOK, ConsensusAsks, c, port
    <3> QED
      BY <2>2, <2>3, <2>5, <2>9, <3>1 DEF TypeOK, ConsensusAsks, TakePacketIn, Learn, c, port
  <2>10. CASE ConsensusSendFails(s)
    BY <2>2, <2>10 DEF TypeOK, ConsensusSendFails, TakePacketIn, Learn, c
  <2>11. CASE CbenchPacketIn(s)
    BY <2>2, <2>3, <2>5, <2>11 DEF TypeOK, CbenchPacketIn, TakePacketIn
  <2> QED
    BY <1>7, <2>6, <2>7, <2>8, <2>9, <2>10, <2>11 DEF AppNext
<1>8. ASSUME RulePosted PROVE TypeOK'
  <2>1. Head(asked) \in Rule /\ Tail(asked) \in Seq(Rule)
    BY <1>8 DEF TypeOK, RulePosted
  <2>2. FlowMod(RuleEntry(Head(asked))) \in CtlMessage
    BY <2>1, EntryType DEF CtlMessage, FlowMod
  <2>3. ASSUME NEW s \in Dpids, SendToSwitch(s, <<FlowMod(RuleEntry(Head(asked)))>>)
        PROVE  fromCtl' \in [Dpids -> Seq(CtlMessage)]
    <3>1. fromCtl[s] \o <<FlowMod(RuleEntry(Head(asked)))>> \in Seq(CtlMessage)
      BY <2>2 DEF TypeOK
    <3> QED
      BY <2>3, <3>1 DEF TypeOK, SendToSwitch
  <2>4. fromCtl' \in [Dpids -> Seq(CtlMessage)]
    <3> DEFINE rule == Head(asked)
    <3>1. \/ rule.dpid \in Dpids /\ SendToSwitch(rule.dpid, <<FlowMod(RuleEntry(rule))>>)
          \/ UNCHANGED fromCtl
      BY <1>8 DEF RulePosted
    <3> QED
      BY <2>3, <3>1 DEF TypeOK
  <2> QED
    BY <1>8, <2>1, <2>4 DEF TypeOK, RulePosted
<1>9. ASSUME VnfStops PROVE TypeOK'
  BY <1>9 DEF TypeOK, VnfStops
<1>10. CASE UNCHANGED vars
  BY <1>10 DEF TypeOK, vars
<1> QED
  BY <1>1, <1>2, <1>3, <1>4, <1>5, <1>6, <1>7, <1>8, <1>9, <1>10
     DEF Next, SwitchNext, TakeNext

\* Every variable keeps its type.
THEOREM ForwardingTypes == Spec => []TypeOK
BY InitType, TypeStep, PTL DEF Spec

-----------------------------------------------------------------------------
(***************************************************************************)
(* EntriesPointHome is not inductive: the port that is learned is that of  *)
(* a packet which was forwarded, by entries and packet-outs, from switch   *)
(* to switch.  The invariant says of every packet, wherever it is, that    *)
(* it came by the port on the way to its source, and of every message to a *)
(* switch that it leads on to the destination.                             *)
(***************************************************************************)
CameItsWay(c) == PointsHome(c.sw, c.packet.src, c.port)

LeadsOn(s, packet, ports) ==
    \A h \in Macs \ moved : packet.dst \in {h, Broadcast} => Toward[s][h] \in ports

GoodMessage(s, m) ==
    /\ m.kind = "flow_mod" /\ app # "cbench" => LeadsHome(s, m.entry)
    /\ m.kind = "packet_out" =>
          m.copy.sw = s /\ CameItsWay(m.copy) /\ LeadsOn(s, m.copy.packet, m.ports)

PlaceInv ==
    /\ \A h \in Macs : Peer[at[h].sw][at[h].port] = NoPeer
    /\ \A h \in Macs \ moved : at[h] = Home[h]
    /\ \A g, h \in Macs : at[g] = at[h] => g = h
PacketInv ==
    /\ \A c \in arriving : CameItsWay(c)
    /\ \A s \in Dpids : \A i \in 1 .. Len(toCtl[s]) :
          toCtl[s][i].sw = s /\ CameItsWay(toCtl[s][i])
MessageInv ==
    \A s \in Dpids : \A i \in 1 .. Len(fromCtl[s]) : GoodMessage(s, fromCtl[s][i])

HomeInv == TypeOK /\ PlaceInv /\ PacketInv /\ MessageInv /\ EntriesPointHome

\* In a tree, a packet that leaves by another port than the one on the way to
\* a host comes to the next switch by the port on that way.
LEMMA OutputWay ==
    ASSUME HomeInv, NEW s \in Dpids, NEW c \in Copy, NEW ports \in SUBSET PortNos,
           c.sw = s, CameItsWay(c), Output(s, c, ports), moved' = moved
    PROVE  \A d \in arriving' : CameItsWay(d)'
<1>1. ASSUME NEW p \in PortNos, p # c.port, Peer[s][p] # NoPeer, c.packet.src \notin moved
      PROVE  Peer[s][p].port = Toward[Peer[s][p].sw][c.packet.src]
  <2>1. c.packet.src \in Macs /\ c.port = Toward[s][c.packet.src]
    BY <1>1 DEF CameItsWay, PointsHome, Copy, Packet
  <2> QED
    BY <1>1, <2>1, ForwardingAssumption DEF TowardHome
<1>2. \A d \in arriving : CameItsWay(d)
  BY DEF HomeInv, PacketInv
<1> QED
  BY <1>1, <1>2 DEF Output, CameItsWay, PointsHome

\* What an application learns and answers is right for a packet that came
\* its way.
LEMMA PacketInHome ==
    ASSUME HomeInv, app # "cbench", NEW s \in Dpids, toCtl[s] # <<>>
    PROVE  LET c == Head(toCtl[s])
               port == OutPort(s, c)
           IN  /\ c.sw = s /\ CameItsWay(c)
               /\ \A a \in Macs : Learned(s, c)[a] # NoPort =>
                     PointsHome(s, a, Learned(s, c)[a])
               /\ GoodMessage(s, PacketOut(c, Ports(port)))
               /\ port # NoPort => /\ PointsHome(s, c.packet.dst, port)
                                   /\ GoodMessage(s, FlowMod(SimpleEntry(c, port)))
<1> DEFINE c == Head(toCtl[s])
           port == OutPort(s, c)
<1>1. toCtl[s] \in Seq(Copy) /\ Len(toCtl[s]) >= 1 /\ c = toCtl[s][1]
  BY DEF HomeInv, TypeOK
<1>2. c \in Copy /\ c.sw = s /\ CameItsWay(c)
  BY <1>1 DEF HomeInv, PacketInv
<1>3. port \in PortNos \cup {NoPort} /\ (port # NoPort => c.packet.dst \in Macs)
  BY PacketInType DEF HomeInv
<1> HIDE DEF c
<1>4. \A a \in Macs : Learned(s, c)[a] # NoPort => PointsHome(s, a, Learned(s, c)[a])
  BY <1>2 DEF HomeInv, EntriesPointHome, Learned, Source, CameItsWay, PointsHome
<1>5. port # NoPort => PointsHome(s, c.packet.dst, port)
  BY <1>3, <1>4 DEF OutPort
<1>6. LeadsOn(s, c.packet, Ports(port))
  <2>1. ASSUME NEW h \in Macs \ moved, c.packet.dst \in {h, Broadcast}
        PROVE  Toward[s][h] \in Ports(port)
    <3>1. Toward[s][h] \in PortNos /\ Broadcast \notin Macs
      BY ForwardingAssumption
    <3>2. CASE port = NoPort
      BY <3>1, <3>2 DEF Ports
    <3>3. CASE port # NoPort
      BY <1>3, <1>5, <2>1, <3>1, <3>3 DEF Ports, PointsHome
    <3> QED
      BY <3>2, <3>3
  <2> QED
    BY <2>1 DEF LeadsOn
<1>7. port # NoPort => GoodMessage(s, FlowMod(SimpleEntry(c, port)))
  BY <1>3, <1>5 DEF GoodMessage, FlowMod, SimpleEntry, LeadsHome, PointsHome
<1>8. GoodMessage(s, PacketOut(c, Ports(port)))
  BY <1>2, <1>6 DEF GoodMessage, PacketOut
<1> QED
  BY <1>2, <1>4, <1>5, <1>7, <1>8 DEF c

LEMMA InitHome == Init => HomeInv
<1> SUFFICES ASSUME Init PROVE HomeInv
  OBVIOUS
<1>1. TypeOK
  BY InitType
<1>2. PlaceInv
  BY ForwardingAssumption DEF Init, PlaceInv, TowardHome
<1>3. PacketInv /\ MessageInv /\ EntriesPointHome
  BY DEF Init, PacketInv, MessageInv, EntriesPointHome
<1> QED
  BY <1>1, <1>2, <1>3 DEF HomeInv

LEMMA GoodMessages ==
    ASSUME UNCHANGED <<app, moved>>,
           \A s \in Dpids : \A i \in 1 .. Len(fromCtl'[s]) : GoodMessage(s, fromCtl'[s][i])
    PROVE  MessageInv'
BY DEF MessageInv, GoodMessage, LeadsHome, LeadsOn, CameItsWay, PointsHome

\* Good messages behind good messages, and what is left when one is taken.
LEMMA SendGood ==
    ASSUME HomeInv, NEW s \in Dpids, NEW m \in Seq(CtlMessage), SendToSwitch(s, m),
           \A i \in 1 .. Len(m) : GoodMessage(s, m[i]), UNCHANGED <<app, moved>>
    PROVE  MessageInv'
<1>1. ASSUME NEW r \in Dpids, NEW i \in 1 .. Len(fromCtl'[r])
      PROVE  GoodMessage(r, fromCtl'[r][i])
  <2>1. CASE r # s
    BY <1>1, <2>1 DEF HomeInv, TypeOK, MessageInv, SendToSwitch
  <2>2. CASE r = s
    <3>1. fromCtl[s] \in Seq(CtlMessage) /\ fromCtl'[s] = fromCtl[s] \o m
      BY DEF HomeInv, TypeOK, SendToSwitch
    <3>2. fromCtl'[s][i] = IF i <= Len(fromCtl[s]) THEN fromCtl[s][i]
                           ELSE m[i - Len(fromCtl[s])]
      BY <1>1, <2>2, <3>1
    <3>3. i > Len(fromCtl[s]) => i - Len(fromCtl[s]) \in 1 .. Len(m)
      BY <1>1, <2>2, <3>1
    <3>4. i <= Len(fromCtl[s]) => i \in 1 .. Len(fromCtl[s])
      BY <2>2, <3>1
    <3>5. CASE i <= Len(fromCtl[s])
      BY <2>2, <3>2, <3>4, <3>5 DEF HomeInv, MessageInv
    <3>6. CASE ~ (i <= Len(fromCtl[s]))
      <4>1. i - Len(fromCtl[s]) \in 1 .. Len(m) /\ fromCtl'[s][i] = m[i - Len(fromCtl[s])]
        BY <2>2, <3>1, <3>2, <3>3, <3>6
      <4> QED
        BY <2>2, <4>1
    <3> QED
      BY <3>5, <3>6
  <2> QED
    BY <2>1, <2>2
<1> QED
  BY <1>1, GoodMessages

LEMMA TakeGood ==
    ASSUME HomeInv, NEW s \in Dpids, fromCtl[s] # <<>>, UNCHANGED <<app, moved>>,
           fromCtl' = [fromCtl EXCEPT ![s] = Tail(@)]
    PROVE  MessageInv' /\ GoodMessage(s, Head(fromCtl[s]))
<1>1. fromCtl[s] \in Seq(CtlMessage) /\ Len(fromCtl[s]) >= 1
  BY DEF HomeInv, TypeOK
<1>2. ASSUME NEW r \in Dpids, NEW i \in 1 .. Len(fromCtl'[r])
      PROVE  GoodMessage(r, fromCtl'[r][i])
  <2>1. CASE r # s
    BY <1>2, <2>1 DEF HomeInv, TypeOK, MessageInv
  <2>2. CASE r = s
    <3>1. i + 1 \in 1 .. Len(fromCtl[s]) /\ fromCtl'[s][i] = fromCtl[s][i + 1]
      BY <1>1, <1>2, <2>2 DEF HomeInv, TypeOK
    <3> QED
      BY <2>2, <3>1 DEF HomeInv, MessageInv
  <2> QED
    BY <2>1, <2>2
<1>3. GoodMessage(s, Head(fromCtl[s]))
  BY <1>1 DEF HomeInv, MessageInv
<1>4. MessageInv'
  BY <1>2, GoodMessages
<1> QED
  BY <1>3, <1>4

\* Taking a packet-in leaves good packets.
LEMMA TakePacketGood ==
    ASSUME HomeInv, NEW s \in Dpids, NEW application, TakePacketIn(s, application),
           UNCHANGED <<moved, arriving>>
    PROVE  PacketInv'
<1>1. toCtl[s] \in Seq(Copy) /\ Len(toCtl[s]) >= 1
  BY DEF HomeInv, TypeOK, TakePacketIn
<1>2. ASSUME NEW r \in Dpids, NEW i \in 1 .. Len(toCtl'[r])
      PROVE  toCtl'[r][i].sw = r /\ CameItsWay(toCtl'[r][i])
  <2>1. CASE r # s
    BY <1>2, <2>1 DEF HomeInv, TypeOK, PacketInv, TakePacketIn
  <2>2. CASE r = s
    <3>1. i + 1 \in 1 .. Len(toCtl[s]) /\ toCtl'[s][i] = toCtl[s][i + 1]
      BY <1>1, <1>2, <2>2 DEF HomeInv, TypeOK, TakePacketIn
    <3> QED
      BY <2>2, <3>1 DEF HomeInv, PacketInv
  <2> QED
    BY <2>1, <2>2
<1> QED
  BY <1>2 DEF HomeInv, PacketInv, CameItsWay, PointsHome

\* A datapath id of one digit is in the rule as it is.
OneDigit == \A s \in Dpids : RuleDpid(s) = s

(***************************************************************************)
(* The steps of the hosts and of the switches.                             *)
(***************************************************************************)
LEMMA NetworkHome ==
    ASSUME HomeInv, [Next]_vars,
           \/ \E h \in Macs : Send(h) \/ Move(h)
           \/ \E s \in Dpids : SwitchNext(s) \/ TakeNext(s)
    PROVE  HomeInv'
<1> USE DEF app_vars, net_vars, hosts
<1>1. TypeOK'
  BY TypeStep DEF HomeInv
<1>2. ASSUME NEW h \in Macs, Send(h) PROVE HomeInv'
  <2>1. PlaceInv' /\ MessageInv' /\ EntriesPointHome'
    BY <1>2 DEF Send, HomeInv, PlaceInv, MessageInv, GoodMessage, LeadsHome, LeadsOn,
                CameItsWay, PointsHome, EntriesPointHome
  <2>2. PICK packet : /\ packet.src = h
                      /\ arriving' = arriving \cup
                            {[packet |-> packet, sw |-> at[h].sw, port |-> at[h].port]}
    BY <1>2 DEF Send
  <2>3. h \notin moved => at[h].port = Toward[at[h].sw][h]
    BY ForwardingAssumption DEF HomeInv, PlaceInv, TowardHome, Endpoints
  <2>4. PacketInv'
    BY <1>2, <2>2, <2>3 DEF Send, HomeInv, PacketInv, CameItsWay, PointsHome
  <2> QED
    BY <1>1, <2>1, <2>4 DEF HomeInv
<1>3. ASSUME NEW h \in Macs, Move(h) PROVE HomeInv'
  <2>1. moved' = moved \cup {h} /\ UNCHANGED <<app_vars, net_vars>>
    BY <1>3 DEF Move
  <2>2. PlaceInv'
    BY <1>3 DEF Move, HomeInv, TypeOK, PlaceInv
  <2>3. PacketInv'
    BY <2>1 DEF HomeInv, PacketInv, CameItsWay, PointsHome
  <2>4. ASSUME NEW s \in Dpids, NEW i \in 1 .. Len(fromCtl[s])
        PROVE  GoodMessage(s, fromCtl[s][i])'
    BY <2>1 DEF HomeInv, MessageInv, GoodMessage, LeadsHome, LeadsOn, CameItsWay, PointsHome
  <2>5. MessageInv'
    BY <2>1, <2>4 DEF MessageInv
  <2>6. EntriesPointHome'
    BY <2>1 DEF HomeInv, EntriesPointHome, LeadsHome, PointsHome
  <2> QED
    BY <1>1, <2>2, <2>3, <2>5, <2>6 DEF HomeInv
<1>4. ASSUME NEW s \in Dpids, SwitchForwards(s) PROVE HomeInv'
  <2>1. PICK c \in arriving, entry \in flows[s] : c.sw = s /\ Output(s, c, entry.out)
    BY <1>4 DEF SwitchForwards
  <2>2. c \in Copy /\ entry.out \in SUBSET PortNos /\ CameItsWay(c)
    BY DEF HomeInv, TypeOK, Entry, PacketInv
  <2>3. moved' = moved
    BY <1>4 DEF SwitchForwards
  <2>4. \A d \in arriving' : CameItsWay(d)'
    BY <2>1, <2>2, <2>3, OutputWay
  <2>5. PacketInv'
    BY <1>4, <2>4 DEF SwitchForwards, HomeInv, PacketInv, CameItsWay, PointsHome
  <2>6. PlaceInv' /\ MessageInv' /\ EntriesPointHome'
    BY <1>4 DEF SwitchForwards, HomeInv, PlaceInv, MessageInv, GoodMessage, LeadsHome, LeadsOn,
                CameItsWay, PointsHome, EntriesPointHome
  <2> QED
    BY <1>1, <2>5, <2>6 DEF HomeInv
<1>5. ASSUME NEW s \in Dpids, SwitchAsks(s) PROVE HomeInv'
  <2>1. PICK c \in arriving : /\ c.sw = s
                              /\ toCtl' = [toCtl EXCEPT ![s] = Append(@, c)]
                              /\ arriving' = arriving \ {c}
    BY <1>5 DEF SwitchAsks
  <2>2. CameItsWay(c) /\ moved' = moved
    BY <1>5 DEF SwitchAsks, HomeInv, PacketInv
  <2>3. ASSUME NEW r \in Dpids, NEW i \in 1 .. Len(toCtl'[r])
        PROVE  toCtl'[r][i].sw = r /\ CameItsWay(toCtl'[r][i])
    <3>1. toCtl[s] \in Seq(Copy) /\ c \in Copy
      BY <2>1 DEF HomeInv, TypeOK
    <3>2. CASE r = s
      <4>1. toCtl'[r] = Append(toCtl[s], c)
        BY <2>1, <3>2 DEF HomeInv, TypeOK
      <4>2. \/ i \in 1 .. Len(toCtl[s]) /\ toCtl'[r][i] = toCtl[s][i]
            \/ toCtl'[r][i] = c
        BY <2>3, <3>1, <4>1
      <4> QED
        BY <2>1, <2>2, <3>2, <4>2 DEF HomeInv, PacketInv
    <3>3. CASE r # s
      <4>1. toCtl'[r] = toCtl[r]
        BY <2>1, <3>3 DEF HomeInv, TypeOK
      <4> QED
        BY <2>3, <4>1 DEF HomeInv, PacketInv
    <3> QED
      BY <3>2, <3>3
  <2>4. PacketInv'
    <3>1. (\A d \in arriving : CameItsWay(d)) => (\A d \in arriving : CameItsWay(d)')
      BY <2>2 DEF CameItsWay, PointsHome
    <3>2. \A d \in arriving' : CameItsWay(d)'
      BY <2>1, <3>1 DEF HomeInv, PacketInv
    <3>3. ASSUME NEW r \in Dpids, NEW i \in 1 .. Len(toCtl'[r])
          PROVE  (toCtl[r][i].sw = r /\ CameItsWay(toCtl[r][i]))'
      BY <2>2, <2>3 DEF CameItsWay, PointsHome
    <3> QED
      BY <3>2, <3>3 DEF PacketInv
  <2>5. PlaceInv' /\ MessageInv' /\ EntriesPointHome'
    BY <1>5 DEF SwitchAsks, HomeInv, PlaceInv, MessageInv, GoodMessage, LeadsHome, LeadsOn,
                CameItsWay, PointsHome, EntriesPointHome
  <2> QED
    BY <1>1, <2>4, <2>5 DEF HomeInv
<1>6. ASSUME NEW s \in Dpids, SwitchTakesFlowMod(s) PROVE HomeInv'
  <2>1. MessageInv' /\ GoodMessage(s, Head(fromCtl[s]))
    BY <1>6, TakeGood DEF SwitchTakesFlowMod
  <2>2. app # "cbench" => \A entry \in Installed(flows[s], Head(fromCtl[s]).entry) :
            LeadsHome(s, entry)
    BY <1>6, <2>1 DEF SwitchTakesFlowMod, GoodMessage, Installed, HomeInv, EntriesPointHome
  <2>3. app # "cbench" => \A r \in Dpids : \A entry \in flows'[r] : LeadsHome(r, entry)
    BY <1>6, <2>2 DEF SwitchTakesFlowMod, HomeInv, TypeOK, EntriesPointHome
  <2>4. EntriesPointHome'
    BY <1>6, <2>3 DEF SwitchTakesFlowMod, HomeInv, EntriesPointHome, LeadsHome, PointsHome
  <2>5. PlaceInv' /\ PacketInv'
    BY <1>6 DEF SwitchTakesFlowMod, HomeInv, PlaceInv, PacketInv, CameItsWay, PointsHome
  <2> QED
    BY <1>1, <2>1, <2>4, <2>5 DEF HomeInv
<1>7. ASSUME NEW s \in Dpids, SwitchTakesPacketOut(s) PROVE HomeInv'
  <2> DEFINE m == Head(fromCtl[s])
  <2>1. MessageInv' /\ GoodMessage(s, m)
    BY <1>7, TakeGood DEF SwitchTakesPacketOut
  <2>2. m \in CtlMessage /\ m.kind = "packet_out" /\ Output(s, m.copy, m.ports) /\ moved' = moved
    BY <1>7 DEF SwitchTakesPacketOut, HomeInv, TypeOK
  <2>3. m.copy \in Copy /\ m.ports \in SUBSET PortNos /\ m.copy.sw = s /\ CameItsWay(m.copy)
    BY <2>1, <2>2 DEF CtlMessage, GoodMessage
  <2> HIDE DEF m
  <2>4. \A d \in arriving' : CameItsWay(d)'
    BY <2>2, <2>3, OutputWay
  <2>5. PacketInv'
    BY <1>7, <2>4 DEF SwitchTakesPacketOut, HomeInv, PacketInv, CameItsWay, PointsHome
  <2>6. PlaceInv' /\ EntriesPointHome'
    BY <1>7 DEF SwitchTakesPacketOut, HomeInv, PlaceInv, EntriesPointHome, LeadsHome, PointsHome
  <2> QED
    BY <1>1, <2>1, <2>5, <2>6 DEF HomeInv
<1> QED
  BY <1>2, <1>3, <1>4, <1>5, <1>6, <1>7 DEF SwitchNext, TakeNext

(***************************************************************************)
(* The steps of the applications, of the rules that come back and of the   *)
(* VNF.                                                                    *)
(***************************************************************************)
LEMMA LearnGood ==
    ASSUME HomeInv, app # "cbench", NEW s \in Dpids, toCtl[s] # <<>>,
           Learn(s, Head(toCtl[s])), UNCHANGED <<app, moved, flows, asked>>
    PROVE  EntriesPointHome'
<1>1. \A a \in Macs : Learned(s, Head(toCtl[s]))[a] # NoPort =>
          PointsHome(s, a, Learned(s, Head(toCtl[s]))[a])
  BY PacketInHome
<1>2. \A r \in Dpids, a \in Macs : macToPort'[r][a] # NoPort =>
          PointsHome(r, a, macToPort'[r][a])
  BY <1>1 DEF Learn, HomeInv, TypeOK, EntriesPointHome
<1> QED
  BY <1>2 DEF HomeInv, EntriesPointHome, LeadsHome, PointsHome

LEMMA ApplicationHome ==
    ASSUME HomeInv, [Next]_vars, OneDigit,
           (\E s \in Dpids : AppNext(s)) \/ RulePosted \/ VnfStops
    PROVE  HomeInv'
<1> USE DEF app_vars, net_vars, hosts
<1>1. TypeOK'
  BY TypeStep DEF HomeInv
<1>2. ASSUME NEW s \in Dpids, AppNext(s) PROVE HomeInv'
  <2> DEFINE c == Head(toCtl[s])
             port == OutPort(s, c)
  <2>1. /\ toCtl[s] # <<>>
        /\ UNCHANGED <<app, flows, arriving, at, moved>>
        /\ \E application : TakePacketIn(s, application)
    BY <1>2 DEF AppNext, SimpleIgnores, SimplePacketIn, ConsensusFloods, ConsensusAsks,
                ConsensusSendFails, CbenchPacketIn, TakePacketIn
  <2>2. PlaceInv' /\ PacketInv'
    BY <2>1, TakePacketGood DEF HomeInv, PlaceInv
  <2>3. c \in Copy /\ port \in PortNos \cup {NoPort}
    BY <2>1, PacketInType DEF HomeInv
  <2>4. app # "cbench" =>
            /\ c.sw = s /\ CameItsWay(c)
            /\ GoodMessage(s, PacketOut(c, Ports(port)))
            /\ port # NoPort => /\ PointsHome(s, c.packet.dst, port)
                                /\ GoodMessage(s, FlowMod(SimpleEntry(c, port)))
    BY <2>1, PacketInHome
  <2>5. ASSUME SendToSwitch(s, PacketOnly(c, port)), app # "cbench" PROVE MessageInv'
    <3>1. PacketOnly(c, port) \in Seq(CtlMessage)
      BY <2>3, MessageType
    <3>2. \A i \in 1 .. Len(PacketOnly(c, port)) : GoodMessage(s, PacketOnly(c, port)[i])
      BY <2>4, <2>5 DEF PacketOnly
    <3> QED
      BY <2>1, <2>5, <3>1, <3>2, SendGood
  <2>6. ASSUME UNCHANGED fromCtl PROVE MessageInv'
    BY <2>1, <2>6, GoodMessages DEF HomeInv, MessageInv
  <2>7. CASE SimpleIgnores(s)
    <3>1. EntriesPointHome'
      BY <2>7 DEF SimpleIgnores, HomeInv, EntriesPointHome, LeadsHome, PointsHome
    <3> QED
      BY <1>1, <2>2, <2>6, <2>7, <3>1 DEF HomeInv, SimpleIgnores
  <2>8. CASE SimplePacketIn(s)
    <3>1. app # "cbench"
      BY <2>8 DEF SimplePacketIn, TakePacketIn
    <3>2. EntriesPointHome'
      BY <2>1, <2>8, <3>1, LearnGood DEF SimplePacketIn
    <3>3. CASE port = NoPort
      BY <1>1, <2>2, <2>5, <2>8, <3>1, <3>2, <3>3 DEF HomeInv, SimplePacketIn
    <3>4. CASE port # NoPort
      <4> DEFINE m == RuleThenPacket(SimpleEntry(c, port), c, port)
      <4>1. c.packet.dst \in Macs
        BY <2>1, <3>4, PacketInType DEF HomeInv
      <4>2. m \in Seq(CtlMessage) /\ SendToSwitch(s, m)
        BY <2>3, <2>8, <3>4, <4>1, MessageType, EntryType DEF SimplePacketIn
      <4>3. \A i \in 1 .. Len(m) : GoodMessage(s, m[i])
        BY <2>4, <3>1, <3>4 DEF RuleThenPacket
      <4>4. MessageInv'
        BY <2>1, <4>2, <4>3, SendGood
      <4> QED
        BY <1>1, <2>2, <3>2, <4>4 DEF HomeInv
    <3> QED
      BY <3>3, <3>4
  <2>9. CASE ConsensusFloods(s)
    <3>1. app # "cbench" /\ port = NoPort
      BY <2>9 DEF ConsensusFloods, TakePacketIn
    <3>2. EntriesPointHome'
      BY <2>1, <2>9, <3>1, LearnGood DEF ConsensusFloods
    <3> QED
      BY <1>1, <2>2, <2>5, <2>9, <3>1, <3>2 DEF HomeInv, ConsensusFloods
  <2>10. CASE ConsensusAsks(s)
    <3>1. app = "consensus" /\ port # NoPort /\ SendToSwitch(s, PacketOnly(c, port))
      BY <2>10 DEF ConsensusAsks, TakePacketIn
    <3>2. \A a \in Macs : Learned(s, c)[a] # NoPort => PointsHome(s, a, Learned(s, c)[a])
      BY <2>1, <3>1, PacketInHome
    <3>3. \A r \in Dpids, a \in Macs : macToPort'[r][a] # NoPort =>
              PointsHome(r, a, macToPort'[r][a])
      BY <2>10, <3>1, <3>2 DEF ConsensusAsks, Learn, HomeInv, TypeOK, EntriesPointHome
    <3> DEFINE rule == BuildRule(s, c.port, port, c.packet.dst)
    <3>4. rule.dpid = s /\ PointsHome(rule.dpid, rule.dl_dst, rule.out_port)
      BY <2>4, <3>1 DEF BuildRule, OneDigit
    <3>5. asked \in Seq(Rule) /\ (asked' = Append(asked, rule) \/ asked' = asked)
      BY <2>10 DEF ConsensusAsks, HomeInv, TypeOK
    <3> HIDE DEF rule
    <3>6. \A i \in DOMAIN asked' : asked'[i].dpid \in Dpids =>
              PointsHome(asked'[i].dpid, asked'[i].dl_dst, asked'[i].out_port)
      BY <3>1, <3>4, <3>5 DEF HomeInv, EntriesPointHome
    <3>7. EntriesPointHome'
      BY <2>1, <3>3, <3>6 DEF HomeInv, EntriesPointHome, LeadsHome, PointsHome
    <3> QED
      BY <1>1, <2>2, <2>5, <3>1, <3>7 DEF HomeInv
  <2>11. CASE ConsensusSendFails(s)
    <3>1. EntriesPointHome'
      BY <2>1, <2>11, LearnGood DEF ConsensusSendFails, TakePacketIn
    <3> QED
      BY <1>1, <2>2, <2>6, <2>11, <3>1 DEF HomeInv, ConsensusSendFails
  <2>12. CASE CbenchPacketIn(s)
    <3> DEFINE m == <<FlowMod(CbenchEntry)>>
    <3>1. app = "cbench" /\ SendToSwitch(s, m)
      BY <2>12 DEF CbenchPacketIn, TakePacketIn
    <3>2. m \in Seq(CtlMessage) /\ \A i \in 1 .. Len(m) : GoodMessage(s, m[i])
      BY <2>3, <3>1, MessageType, EntryType DEF FlowMod, GoodMessage
    <3>3. MessageInv'
      BY <2>1, <3>1, <3>2, SendGood
    <3>4. EntriesPointHome'
      BY <2>1, <3>1 DEF EntriesPointHome
    <3> QED
      BY <1>1, <2>2, <3>3, <3>4 DEF HomeInv
  <2> QED
    BY <1>2, <2>7, <2>8, <2>9, <2>10, <2>11, <2>12 DEF AppNext
<1>3. ASSUME RulePosted PROVE HomeInv'
  <2> DEFINE rule == Head(asked)
             m == <<FlowMod(RuleEntry(rule))>>
  <2>1. /\ asked \in Seq(Rule) /\ asked # <<>> /\ Len(asked) >= 1
        /\ rule = asked[1] /\ rule \in Rule /\ asked' = Tail(asked)
    BY <1>3 DEF RulePosted, HomeInv, TypeOK
  <2>2. app # "cbench" => \A i \in DOMAIN asked' : asked'[i].dpid \in Dpids =>
            PointsHome(asked'[i].dpid, asked'[i].dl_dst, asked'[i].out_port)
    <3>1. \A i \in DOMAIN asked' : i + 1 \in DOMAIN asked /\ asked'[i] = asked[i + 1]
      BY <2>1
    <3> QED
      BY <3>1 DEF HomeInv, EntriesPointHome
  <2>3. PlaceInv' /\ PacketInv' /\ EntriesPointHome'
    BY <1>3, <2>2 DEF RulePosted, HomeInv, PlaceInv, PacketInv, CameItsWay,
                      EntriesPointHome, LeadsHome, PointsHome
  <2>4. CASE UNCHANGED fromCtl
    <3>1. MessageInv'
      BY <1>3, <2>4, GoodMessages DEF RulePosted, HomeInv, MessageInv
    <3> QED
      BY <1>1, <2>3, <3>1 DEF HomeInv
  <2>5. CASE rule.dpid \in Dpids /\ SendToSwitch(rule.dpid, m)
    <3>1. app # "cbench" => PointsHome(rule.dpid, rule.dl_dst, rule.out_port)
      BY <2>1, <2>5 DEF HomeInv, EntriesPointHome
    <3>2. RuleEntry(rule) \in Entry /\ rule.dl_dst \in Macs
      BY <2>1, EntryType DEF Rule
    <3>3. FlowMod(RuleEntry(rule)) \in CtlMessage
      BY <3>2 DEF FlowMod, CtlMessage
    <3>4. GoodMessage(rule.dpid, FlowMod(RuleEntry(rule)))
      BY <3>1, <3>2 DEF GoodMessage, FlowMod, RuleEntry, LeadsHome, PointsHome
    <3>5. m \in Seq(CtlMessage) /\ \A i \in 1 .. Len(m) : GoodMessage(rule.dpid, m[i])
      BY <3>3, <3>4
    <3> HIDE DEF m, rule
    <3>6. MessageInv'
      BY <1>3, <2>5, <3>5, SendGood DEF RulePosted
    <3> QED
      BY <1>1, <2>3, <3>6 DEF HomeInv
  <2> QED
    BY <1>3, <2>4, <2>5 DEF RulePosted
<1>4. ASSUME VnfStops PROVE HomeInv'
  <2>1. PlaceInv' /\ PacketInv' /\ EntriesPointHome'
    BY <1>4 DEF VnfStops, HomeInv, PlaceInv, PacketInv, CameItsWay,
                EntriesPointHome, LeadsHome, PointsHome
  <2>2. MessageInv'
    BY <1>4, GoodMessages DEF VnfStops, HomeInv, MessageInv
  <2> QED
    BY <1>1, <2>1, <2>2 DEF HomeInv
<1> QED
  BY <1>2, <1>3, <1>4

LEMMA HomeStep == OneDigit /\ HomeInv /\ [Next]_vars => HomeInv'
<1> SUFFICES ASSUME OneDigit, HomeInv, [Next]_vars PROVE HomeInv'
  OBVIOUS
<1>1. CASE UNCHANGED vars
  <2>1. MessageInv'
    BY <1>1, GoodMessages DEF vars, app_vars, net_vars, hosts, HomeInv, MessageInv
  <2>2. TypeOK'
    BY TypeStep DEF HomeInv
  <2>3. PlaceInv' /\ PacketInv' /\ EntriesPointHome'
    BY <1>1 DEF vars, app_vars, net_vars, hosts, HomeInv, PlaceInv, PacketInv, CameItsWay,
                EntriesPointHome, LeadsHome, PointsHome
  <2> QED
    BY <2>1, <2>2, <2>3 DEF HomeInv
<1> QED
  BY <1>1, NetworkHome, ApplicationHome DEF Next

\* Only a move makes what was learned wrong, when no datapath id has two
\* digits: those are what build_rule() replaces.
THEOREM EntriesHome ==
    ASSUME OneDigit PROVE Spec => []EntriesPointHome
<1>1. HomeInv => EntriesPointHome
  BY DEF HomeInv
<1>2. HomeInv /\ [Next]_vars => HomeInv'
  BY HomeStep
<1> QED
  BY InitHome, <1>1, <1>2, PTL DEF Spec

-----------------------------------------------------------------------------
(***************************************************************************)
(* No packet is lost: every packet for a host that has not moved is there  *)
(* or has a copy ahead of the host, and every step with that copy makes    *)
(* another one further on.                                                 *)
(***************************************************************************)
Served(packet, h) == packet \in received[h] \/ OnTheWay(packet, h)

\* One step of the packet itself: it leaves a switch by the port on the way
\* to the host, and is there or at the next switch.
LEMMA OutputServes ==
    ASSUME HomeInv, NEW s \in Dpids, NEW c \in Copy, NEW ports \in SUBSET PortNos,
           NEW h \in Macs \ moved, c.sw = s, Output(s, c, ports),
           IsFor(c.packet, h), Ahead(c, c.packet, h), Toward[s][h] \in ports
    PROVE  c.packet \in received'[h] \/ \E d \in arriving' : Ahead(d, c.packet, h)
<1> DEFINE p == Toward[s][h]
<1>1. p \in PortNos /\ p \in ports \ {c.port} /\ TowardHome(h)
  BY ForwardingAssumption DEF Ahead
<1>2. CASE s = Home[h].sw
  <2>1. at[h].sw = s /\ at[h].port = p
    BY <1>1, <1>2 DEF HomeInv, PlaceInv, TowardHome
  <2> QED
    BY <1>1, <2>1 DEF Output, IsFor
<1>3. CASE s # Home[h].sw
  <2>1. Peer[s][p] # NoPeer /\ Peer[s][p].port # Toward[Peer[s][p].sw][h]
    BY <1>1, <1>3 DEF TowardHome
  <2> DEFINE d == [packet |-> c.packet, sw |-> Peer[s][p].sw, port |-> Peer[s][p].port]
  <2>2. d \in arriving'
    BY <1>1, <2>1 DEF Output
  <2>3. Ahead(d, c.packet, h)
    BY <2>1 DEF Ahead
  <2> QED
    BY <2>2, <2>3
<1> QED
  BY <1>2, <1>3

\* What leaves a switch takes nothing else away.
LEMMA OutputKeeps ==
    ASSUME HomeInv, NEW s \in Dpids, NEW c, NEW ports, Output(s, c, ports)
    PROVE  /\ \A d \in arriving : d = c \/ d \in arriving'
           /\ \A h \in Macs : received[h] \subseteq received'[h]
BY DEF Output, HomeInv, TypeOK

\* Elements of a sequence after the first one is taken, and after others
\* are put behind it.
LEMMA TailKeeps ==
    ASSUME NEW S, NEW q \in Seq(S), q # <<>>, NEW i \in DOMAIN q
    PROVE  q[i] = Head(q) \/ \E j \in DOMAIN Tail(q) : Tail(q)[j] = q[i]
<1>1. CASE i = 1
  BY <1>1
<1>2. CASE i # 1
  <2>1. i \in 1 .. Len(q) /\ Len(q) \in Nat /\ Len(Tail(q)) = Len(q) - 1
    OBVIOUS
  <2>2. i - 1 \in 1 .. Len(Tail(q)) /\ i - 1 \in DOMAIN Tail(q)
    BY <1>2, <2>1
  <2>3. Tail(q)[i - 1] = q[i]
    BY <1>2, <2>1
  <2> QED
    BY <2>2, <2>3
<1> QED
  BY <1>1, <1>2

LEMMA ConcatKeeps ==
    ASSUME NEW S, NEW q \in Seq(S), NEW m \in Seq(S)
    PROVE  /\ \A i \in DOMAIN q : i \in DOMAIN (q \o m) /\ (q \o m)[i] = q[i]
           /\ \A i \in DOMAIN m : /\ Len(q) + i \in DOMAIN (q \o m)
                                  /\ (q \o m)[Len(q) + i] = m[i]
<1>1. /\ Len(q) \in Nat /\ Len(m) \in Nat
      /\ DOMAIN q = 1 .. Len(q) /\ DOMAIN m = 1 .. Len(m)
  OBVIOUS
<1>2. DOMAIN (q \o m) = 1 .. Len(q) + Len(m)
  OBVIOUS
<1>3. \A i \in 1 .. Len(q) + Len(m) :
          (q \o m)[i] = IF i <= Len(q) THEN q[i] ELSE m[i - Len(q)]
  OBVIOUS
<1>4. ASSUME NEW i \in DOMAIN q
      PROVE  i \in DOMAIN (q \o m) /\ (q \o m)[i] = q[i]
  BY <1>1, <1>2, <1>3
<1>5. ASSUME NEW i \in DOMAIN m
      PROVE  Len(q) + i \in DOMAIN (q \o m) /\ (q \o m)[Len(q) + i] = m[i]
  BY <1>1, <1>2, <1>3
<1> QED
  BY <1>4, <1>5

\* A copy that is sent out by the controller is on its way.
LEMMA SendServes ==
    ASSUME HomeInv, NEW s \in Dpids, NEW m \in Seq(CtlMessage), SendToSwitch(s, m)
    PROVE  /\ \A r \in Dpids : \A i \in DOMAIN fromCtl[r] :
                 i \in DOMAIN fromCtl'[r] /\ fromCtl'[r][i] = fromCtl[r][i]
           /\ \A i \in DOMAIN m : \E j \in DOMAIN fromCtl'[s] : fromCtl'[s][j] = m[i]
<1>1. fromCtl[s] \in Seq(CtlMessage) /\ fromCtl' = [fromCtl EXCEPT ![s] = fromCtl[s] \o m]
      /\ fromCtl'[s] = fromCtl[s] \o m
  BY DEF HomeInv, TypeOK, SendToSwitch
<1>2. \A i \in DOMAIN m : \E j \in DOMAIN fromCtl'[s] : fromCtl'[s][j] = m[i]
  <2>1. \A i \in DOMAIN m : /\ Len(fromCtl[s]) + i \in DOMAIN (fromCtl[s] \o m)
                            /\ (fromCtl[s] \o m)[Len(fromCtl[s]) + i] = m[i]
    BY <1>1, ConcatKeeps
  <2> QED
    BY <1>1, <2>1, Zenon
<1>3. \A i \in DOMAIN fromCtl[s] : i \in DOMAIN fromCtl'[s] /\ fromCtl'[s][i] = fromCtl[s][i]
  BY <1>1, ConcatKeeps
<1>4. \A r \in Dpids : r # s => fromCtl'[r] = fromCtl[r]
  BY <1>1 DEF HomeInv, TypeOK
<1> QED
  BY <1>2, <1>3, <1>4

\* The ways to be on the way after a step, one by one.
LEMMA ServedAfter ==
    ASSUME NEW packet, NEW h \in Macs, Served(packet, h),
           received[h] \subseteq received'[h],
           \A c \in arriving : Ahead(c, packet, h) => Served(packet, h)',
           \A s \in Dpids : \A i \in DOMAIN toCtl[s] :
              Ahead(toCtl[s][i], packet, h) => Served(packet, h)',
           \A s \in Dpids : \A i \in DOMAIN fromCtl[s] :
              /\ fromCtl[s][i].kind = "packet_out"
              /\ Ahead(fromCtl[s][i].copy, packet, h)
              /\ Toward[s][h] \in fromCtl[s][i].ports
              => Served(packet, h)'
    PROVE  Served(packet, h)'
BY DEF Served, OnTheWay

\* The steps of the hosts and of the switches.
LEMMA NetworkServes ==
    ASSUME HomeInv, [Next]_vars, app # "cbench", conn = "up", NoPacketLost,
           \/ \E h \in Macs : Send(h) \/ Move(h)
           \/ \E s \in Dpids : SwitchNext(s) \/ TakeNext(s)
    PROVE  NoPacketLost'
<1> USE DEF app_vars, net_vars, hosts
<1> SUFFICES ASSUME NEW packet \in sent', NEW h \in Macs \ moved', IsFor(packet, h)
             PROVE  Served(packet, h)'
  BY DEF NoPacketLost, IsFor, Served
<1>1. h \in Macs /\ (packet \in sent /\ h \notin moved => Served(packet, h))
  BY DEF NoPacketLost, Served
<1>2. CASE \E g \in Macs : Send(g)
  <2>0. PICK g \in Macs : Send(g)
    BY <1>2
  <2>1. PICK latest :
           /\ latest.src = g
           /\ sent' = sent \cup {latest}
           /\ arriving' = arriving \cup
                {[packet |-> latest, sw |-> at[g].sw, port |-> at[g].port]}
           /\ UNCHANGED <<toCtl, fromCtl, at, moved, received>>
    BY <2>0 DEF Send
  <2>2. CASE packet \in sent
    BY <1>1, <2>1, <2>2 DEF Served, OnTheWay
  <2>3. CASE packet = latest
    <3> DEFINE c == [packet |-> latest, sw |-> at[g].sw, port |-> at[g].port]
    <3>1. at[g] \in Endpoints /\ at[h] = Home[h] /\ at[g] # at[h]
      BY <2>1, <2>3 DEF HomeInv, TypeOK, PlaceInv, IsFor
    <3>2. Peer[at[g].sw][at[g].port] = NoPeer /\ TowardHome(h)
      BY ForwardingAssumption DEF HomeInv, PlaceInv
    <3>3. at[g].port # Toward[at[g].sw][h]
      <4>1. CASE at[g].sw = Home[h].sw
        BY <3>1, <3>2, <4>1 DEF TowardHome, Endpoints
      <4>2. CASE at[g].sw # Home[h].sw
        BY <3>1, <3>2, <4>2 DEF TowardHome, Endpoints
      <4> QED
        BY <4>1, <4>2
    <3>4. Ahead(c, packet, h)
      BY <2>3, <3>3 DEF Ahead
    <3> QED
      BY <2>1, <3>4 DEF Served, OnTheWay
  <2> QED
    BY <2>1, <2>2, <2>3
<1>3. CASE \E g \in Macs : Move(g)
  BY <1>1, <1>3 DEF Move, Served, OnTheWay
<1>4. ASSUME NEW s \in Dpids, SwitchForwards(s) PROVE Served(packet, h)'
  <2>1. PICK c \in arriving, entry \in flows[s] :
            c.sw = s /\ Matches(entry, c) /\ Output(s, c, entry.out)
    BY <1>4 DEF SwitchForwards
  <2>2. UNCHANGED <<toCtl, fromCtl, moved, sent>>
    BY <1>4 DEF SwitchForwards
  <2>3. Served(packet, h)
    BY <1>1, <2>2
  <2>4. c \in Copy /\ entry \in Entry
    BY DEF HomeInv, TypeOK
  <2>5. ASSUME Ahead(c, packet, h) PROVE Served(packet, h)'
    <3>1. c.packet = packet
      BY <2>5 DEF Ahead
    <3>2. packet.dst \in entry.dsts /\ LeadsHome(s, entry)
      BY <2>1, <3>1 DEF Matches, HomeInv, EntriesPointHome
    <3>3. packet.dst = h
      BY <3>2, ForwardingAssumption DEF LeadsHome, IsFor
    <3>4. Toward[s][h] \in entry.out
      BY <2>2, <3>2, <3>3 DEF LeadsHome
    <3>5. packet \in received'[h] \/ \E d \in arriving' : Ahead(d, packet, h)
      BY <2>1, <2>2, <2>4, <2>5, <3>1, <3>4, OutputServes DEF Entry
    <3> QED
      BY <3>5 DEF Served, OnTheWay
  <2>6. /\ \A d \in arriving : d = c \/ d \in arriving'
        /\ received[h] \subseteq received'[h]
    BY <2>1, OutputKeeps
  <2> QED
    BY <2>2, <2>3, <2>5, <2>6 DEF Served, OnTheWay
<1>5. ASSUME NEW s \in Dpids, SwitchAsks(s) PROVE Served(packet, h)'
  <2>1. PICK c \in arriving : /\ toCtl' = [toCtl EXCEPT ![s] = Append(@, c)]
                              /\ arriving' = arriving \ {c}
    BY <1>5 DEF SwitchAsks
  <2>2. UNCHANGED <<fromCtl, moved, sent, received>>
    BY <1>5 DEF SwitchAsks
  <2>3. toCtl \in [Dpids -> Seq(Copy)] /\ c \in Copy
    BY DEF HomeInv, TypeOK
  <2>4. Served(packet, h)
    BY <1>1, <2>2
  <2>5. \A r \in Dpids : \A i \in DOMAIN toCtl[r] :
            i \in DOMAIN toCtl'[r] /\ toCtl'[r][i] = toCtl[r][i]
    BY <2>1, <2>3
  <2>6. \E j \in DOMAIN toCtl'[s] : toCtl'[s][j] = c
    <3>1. toCtl'[s] = Append(toCtl[s], c) /\ toCtl[s] \in Seq(Copy)
      BY <2>1, <2>3
    <3>2. Len(toCtl[s]) + 1 \in DOMAIN toCtl'[s] /\ toCtl'[s][Len(toCtl[s]) + 1] = c
      BY <2>3, <3>1
    <3> QED
      BY <3>2
  <2> QED
    BY <2>1, <2>2, <2>4, <2>5, <2>6 DEF Served, OnTheWay
<1>6. ASSUME NEW s \in Dpids, SwitchTakesFlowMod(s) PROVE Served(packet, h)'
  <2>1. /\ fromCtl[s] # <<>> /\ fromCtl[s] \in Seq(CtlMessage)
        /\ Head(fromCtl[s]).kind = "flow_mod"
        /\ fromCtl' = [fromCtl EXCEPT ![s] = Tail(@)]
        /\ UNCHANGED <<toCtl, arriving, moved, sent, received>>
    BY <1>6 DEF SwitchTakesFlowMod, HomeInv, TypeOK
  <2>2. Served(packet, h)
    BY <1>1, <2>1
  <2>3. \A r \in Dpids : \A i \in DOMAIN fromCtl[r] :
            \/ fromCtl[r][i].kind = "flow_mod"
            \/ \E j \in DOMAIN fromCtl'[r] : fromCtl'[r][j] = fromCtl[r][i]
    <3>1. \A i \in DOMAIN fromCtl[s] :
              \/ fromCtl[s][i].kind = "flow_mod"
              \/ \E j \in DOMAIN Tail(fromCtl[s]) : Tail(fromCtl[s])[j] = fromCtl[s][i]
      BY <2>1, TailKeeps
    <3>2. \A r \in Dpids : fromCtl'[r] = IF r = s THEN Tail(fromCtl[s]) ELSE fromCtl[r]
      BY <2>1 DEF HomeInv, TypeOK
    <3> QED
      BY <3>1, <3>2
  <2>4. ASSUME NEW r \in Dpids, NEW i \in DOMAIN fromCtl[r],
               fromCtl[r][i].kind = "packet_out", Ahead(fromCtl[r][i].copy, packet, h),
               Toward[r][h] \in fromCtl[r][i].ports
        PROVE  Served(packet, h)'
    <3>1. PICK j \in DOMAIN fromCtl'[r] : fromCtl'[r][j] = fromCtl[r][i]
      BY <2>3, <2>4
    <3> QED
      BY <2>4, <3>1 DEF Served, OnTheWay, Ahead
  <2>5. /\ \A c \in arriving : Ahead(c, packet, h) => Served(packet, h)'
        /\ \A r \in Dpids : \A i \in DOMAIN toCtl[r] :
              Ahead(toCtl[r][i], packet, h) => Served(packet, h)'
    BY <2>1 DEF Served, OnTheWay, Ahead
  <2> QED
    BY <1>1, <2>1, <2>2, <2>4, <2>5, ServedAfter
<1>7. ASSUME NEW s \in Dpids, SwitchTakesPacketOut(s) PROVE Served(packet, h)'
  <2> DEFINE m == Head(fromCtl[s])
  <2>1. /\ fromCtl[s] # <<>> /\ fromCtl[s] \in Seq(CtlMessage)
        /\ m \in CtlMessage /\ m.kind = "packet_out"
        /\ Output(s, m.copy, m.ports)
        /\ fromCtl' = [fromCtl EXCEPT ![s] = Tail(@)]
        /\ UNCHANGED <<toCtl, moved, sent>>
    BY <1>7 DEF SwitchTakesPacketOut, HomeInv, TypeOK
  <2>2. m.copy \in Copy /\ m.ports \in SUBSET PortNos /\ m.copy.sw = s /\ CameItsWay(m.copy)
        /\ LeadsOn(s, m.copy.packet, m.ports)
    BY <1>7, <2>1, TakeGood DEF SwitchTakesPacketOut, GoodMessage, CtlMessage
  <2>3. Served(packet, h)
    BY <1>1, <2>1
  <2>4. \A r \in Dpids : \A i \in DOMAIN fromCtl[r] :
            \/ r = s /\ fromCtl[r][i] = m
            \/ \E j \in DOMAIN fromCtl'[r] : fromCtl'[r][j] = fromCtl[r][i]
    <3>1. \A i \in DOMAIN fromCtl[s] :
              \/ fromCtl[s][i] = m
              \/ \E j \in DOMAIN Tail(fromCtl[s]) : Tail(fromCtl[s])[j] = fromCtl[s][i]
      BY <2>1, TailKeeps
    <3>2. \A r \in Dpids : fromCtl'[r] = IF r = s THEN Tail(fromCtl[s]) ELSE fromCtl[r]
      BY <2>1 DEF HomeInv, TypeOK
    <3> QED
      BY <3>1, <3>2
  <2> HIDE DEF m
  <2>5. ASSUME Ahead(m.copy, packet, h) PROVE Served(packet, h)'
    <3>1. m.copy.packet = packet
      BY <2>5 DEF Ahead
    <3>2. Toward[s][h] \in m.ports
      BY <2>1, <2>2, <3>1 DEF LeadsOn, IsFor
    <3>3. packet \in received'[h] \/ \E d \in arriving' : Ahead(d, packet, h)
      BY <2>1, <2>2, <2>5, <3>1, <3>2, OutputServes
    <3> QED
      BY <3>3 DEF Served, OnTheWay
  <2>6. (\A d \in arriving : d = m.copy \/ d \in arriving') /\ received[h] \subseteq received'[h]
    BY <2>1, OutputKeeps
  <2>7. ASSUME NEW r \in Dpids, NEW i \in DOMAIN fromCtl[r],
               fromCtl[r][i].kind = "packet_out", Ahead(fromCtl[r][i].copy, packet, h),
               Toward[r][h] \in fromCtl[r][i].ports
        PROVE  Served(packet, h)'
    <3>1. CASE r = s /\ fromCtl[r][i] = m
      BY <2>5, <2>7, <3>1
    <3>2. CASE \E j \in DOMAIN fromCtl'[r] : fromCtl'[r][j] = fromCtl[r][i]
      <4>1. PICK j \in DOMAIN fromCtl'[r] : fromCtl'[r][j] = fromCtl[r][i]
        BY <3>2
      <4> QED
        BY <2>7, <4>1 DEF Served, OnTheWay, Ahead
    <3> QED
      BY <2>4, <3>1, <3>2
  <2>8. /\ \A c \in arriving : Ahead(c, packet, h) => Served(packet, h)'
        /\ \A r \in Dpids : \A i \in DOMAIN toCtl[r] :
              Ahead(toCtl[r][i], packet, h) => Served(packet, h)'
    BY <2>1, <2>5, <2>6 DEF Served, OnTheWay, Ahead
  <2> QED
    BY <1>1, <2>3, <2>6, <2>7, <2>8, ServedAfter
<1> QED
  BY <1>2, <1>3, <1>4, <1>5, <1>6, <1>7 DEF SwitchNext, TakeNext

\* The ways to be served after a step.
LEMMA ServedBy ==
    ASSUME NEW packet, NEW h, NEW r \in Dpids
    PROVE  /\ \A k \in DOMAIN toCtl'[r] :
                 Ahead(toCtl'[r][k], packet, h) => Served(packet, h)'
           /\ \A k \in DOMAIN fromCtl'[r] :
                 /\ fromCtl'[r][k].kind = "packet_out"
                 /\ Ahead(fromCtl'[r][k].copy, packet, h)
                 /\ Toward[r][h] \in fromCtl'[r][k].ports
                 => Served(packet, h)'
BY DEF Served, OnTheWay, Ahead

\* The packet-in that is answered is the first one, and the answer holds it.
LEMMA AnswerServes ==
    ASSUME HomeInv, app # "cbench", NEW s \in Dpids, toCtl[s] # <<>>,
           toCtl' = [toCtl EXCEPT ![s] = Tail(@)], UNCHANGED <<moved, arriving, received>>,
           NEW m \in Seq(CtlMessage), SendToSwitch(s, m),
           \E i \in DOMAIN m :
              m[i] = PacketOut(Head(toCtl[s]), Ports(OutPort(s, Head(toCtl[s])))),
           NEW packet, NEW h \in Macs \ moved, IsFor(packet, h), Served(packet, h)
    PROVE  Served(packet, h)'
<1> DEFINE c == Head(toCtl[s])
           ports == Ports(OutPort(s, c))
<1>1. /\ \A r \in Dpids : \A i \in DOMAIN fromCtl[r] :
             i \in DOMAIN fromCtl'[r] /\ fromCtl'[r][i] = fromCtl[r][i]
      /\ \A i \in DOMAIN m : \E j \in DOMAIN fromCtl'[s] : fromCtl'[s][j] = m[i]
  BY SendServes
<1>2. PICK j \in DOMAIN fromCtl'[s] : fromCtl'[s][j] = PacketOut(c, ports)
  BY <1>1
<1>3. c.sw = s /\ GoodMessage(s, PacketOut(c, ports))
  BY PacketInHome
<1>4. \A r \in Dpids : \A i \in DOMAIN toCtl[r] :
          \/ r = s /\ toCtl[r][i] = c
          \/ \E k \in DOMAIN toCtl'[r] : toCtl'[r][k] = toCtl[r][i]
  <2>1. toCtl[s] \in Seq(Copy)
    BY DEF HomeInv, TypeOK
  <2>2. \A i \in DOMAIN toCtl[s] :
            \/ toCtl[s][i] = c
            \/ \E k \in DOMAIN Tail(toCtl[s]) : Tail(toCtl[s])[k] = toCtl[s][i]
    BY <2>1, TailKeeps
  <2>3. \A r \in Dpids : toCtl'[r] = IF r = s THEN Tail(toCtl[s]) ELSE toCtl[r]
    BY DEF HomeInv, TypeOK
  <2> QED
    BY <2>2, <2>3
<1> HIDE DEF c, ports
<1>5. ASSUME Ahead(c, packet, h) PROVE Served(packet, h)'
  <2>1. c.packet = packet /\ Toward[s][h] \in ports
    BY <1>3, <1>5 DEF Ahead, GoodMessage, PacketOut, LeadsOn, IsFor
  <2>2. /\ fromCtl'[s][j].kind = "packet_out" /\ fromCtl'[s][j].copy = c
        /\ fromCtl'[s][j].ports = ports
    BY <1>2 DEF PacketOut
  <2> QED
    BY <1>5, <2>1, <2>2, ServedBy
<1>6. ASSUME NEW r \in Dpids, NEW i \in DOMAIN toCtl[r], Ahead(toCtl[r][i], packet, h)
      PROVE  Served(packet, h)'
  <2>1. CASE r = s /\ toCtl[r][i] = c
    BY <1>5, <1>6, <2>1
  <2>2. CASE \E k \in DOMAIN toCtl'[r] : toCtl'[r][k] = toCtl[r][i]
    <3>1. PICK k \in DOMAIN toCtl'[r] : toCtl'[r][k] = toCtl[r][i]
      BY <2>2
    <3> QED
      BY <1>6, <3>1, ServedBy
  <2> QED
    BY <1>4, <2>1, <2>2
<1>7. ASSUME NEW r \in Dpids, NEW i \in DOMAIN fromCtl[r],
             fromCtl[r][i].kind = "packet_out", Ahead(fromCtl[r][i].copy, packet, h),
             Toward[r][h] \in fromCtl[r][i].ports
      PROVE  Served(packet, h)'
  <2>1. i \in DOMAIN fromCtl'[r] /\ fromCtl'[r][i] = fromCtl[r][i]
    BY <1>1
  <2> QED
    BY <1>7, <2>1, ServedBy
<1>8. \A d \in arriving : Ahead(d, packet, h) => Served(packet, h)'
  BY DEF Served, OnTheWay, Ahead
<1> QED
  BY <1>6, <1>7, <1>8, ServedAfter

\* The steps of the applications and of the rules that come back.
LEMMA ApplicationServes ==
    ASSUME HomeInv, [Next]_vars, app # "cbench", conn = "up", NoPacketLost,
           (\E s \in Dpids : AppNext(s)) \/ RulePosted
    PROVE  NoPacketLost'
<1> USE DEF app_vars, net_vars, hosts
<1>1. UNCHANGED <<sent, moved, received, arriving>>
  BY DEF AppNext, SimpleIgnores, SimplePacketIn, ConsensusFloods, ConsensusAsks,
         ConsensusSendFails, CbenchPacketIn, RulePosted
<1> SUFFICES ASSUME NEW packet \in sent', NEW h \in Macs \ moved', IsFor(packet, h)
             PROVE  Served(packet, h)'
  BY DEF NoPacketLost, IsFor, Served
<1>2. packet \in sent /\ h \in Macs \ moved /\ Served(packet, h)
  BY <1>1 DEF NoPacketLost, Served
<1>3. ASSUME NEW s \in Dpids, AppNext(s) PROVE Served(packet, h)'
  <2> DEFINE c == Head(toCtl[s])
             port == OutPort(s, c)
  <2>1. toCtl[s] # <<>> /\ toCtl' = [toCtl EXCEPT ![s] = Tail(@)]
    BY <1>3 DEF AppNext, SimpleIgnores, SimplePacketIn, ConsensusFloods, ConsensusAsks,
                ConsensusSendFails, CbenchPacketIn, TakePacketIn
  <2>2. /\ c \in Copy /\ port \in PortNos \cup {NoPort}
        /\ port # NoPort => c.packet.dst \in Macs
    BY <2>1, PacketInType DEF HomeInv
  <2>3. ASSUME SendToSwitch(s, PacketOnly(c, port)) PROVE Served(packet, h)'
    <3> DEFINE m == PacketOnly(c, port)
    <3>1. m \in Seq(CtlMessage) /\ 1 \in DOMAIN m /\ m[1] = PacketOut(c, Ports(port))
      BY <2>2, MessageType DEF PacketOnly
    <3> HIDE DEF m
    <3>2. \E i \in DOMAIN m : m[i] = PacketOut(c, Ports(port))
      BY <3>1
    <3>3. SendToSwitch(s, m)
      BY <2>3 DEF m
    <3> QED
      BY <1>1, <1>2, <2>1, <3>1, <3>2, <3>3, AnswerServes
  <2>4. CASE SimpleIgnores(s)
    <3>1. c.packet.dst = Lldp /\ fromCtl' = fromCtl
      BY <2>4 DEF SimpleIgnores
    <3>2. ASSUME NEW r \in Dpids, NEW i \in DOMAIN toCtl[r], Ahead(toCtl[r][i], packet, h)
          PROVE  Served(packet, h)'
      <4>1. packet # c.packet
        BY <3>1, ForwardingAssumption DEF IsFor
      <4>2. toCtl[r] \in Seq(Copy) /\ toCtl'[r] = IF r = s THEN Tail(toCtl[s]) ELSE toCtl[r]
        BY <2>1 DEF HomeInv, TypeOK
      <4>3. r = s => toCtl[r][i] = c \/ \E k \in DOMAIN Tail(toCtl[s]) :
                                           Tail(toCtl[s])[k] = toCtl[r][i]
        BY <2>1, <4>2, TailKeeps
      <4>4. PICK k \in DOMAIN toCtl'[r] : toCtl'[r][k] = toCtl[r][i]
        BY <3>2, <4>1, <4>2, <4>3 DEF Ahead
      <4> QED
        BY <3>2, <4>4 DEF Served, OnTheWay, Ahead
    <3>3. \A d \in arriving : Ahead(d, packet, h) => Served(packet, h)'
      BY <1>1 DEF Served, OnTheWay, Ahead
    <3>4. \A r \in Dpids : \A i \in DOMAIN fromCtl[r] :
              /\ fromCtl[r][i].kind = "packet_out"
              /\ Ahead(fromCtl[r][i].copy, packet, h)
              /\ Toward[r][h] \in fromCtl[r][i].ports
              => Served(packet, h)'
      BY <3>1 DEF Served, OnTheWay, Ahead
    <3> QED
      BY <1>1, <1>2, <3>2, <3>3, <3>4, ServedAfter
  <2>5. CASE SimplePacketIn(s)
    <3>1. CASE port = NoPort
      BY <2>3, <2>5, <3>1 DEF SimplePacketIn
    <3>2. CASE port # NoPort
      <4> DEFINE m == RuleThenPacket(SimpleEntry(c, port), c, port)
      <4>1. m \in Seq(CtlMessage) /\ SendToSwitch(s, m)
        BY <2>2, <2>5, <3>2, MessageType, EntryType DEF SimplePacketIn
      <4>2. 2 \in DOMAIN m /\ m[2] = PacketOut(c, Ports(port))
        BY DEF RuleThenPacket
      <4> HIDE DEF m
      <4>3. \E i \in DOMAIN m : m[i] = PacketOut(c, Ports(port))
        BY <4>2
      <4> QED
        BY <1>1, <1>2, <2>1, <4>1, <4>3, AnswerServes
    <3> QED
      BY <3>1, <3>2
  <2>6. CASE ConsensusFloods(s)
    BY <2>3, <2>6 DEF ConsensusFloods
  <2>7. CASE ConsensusAsks(s)
    BY <2>3, <2>7 DEF ConsensusAsks
  <2> QED
    BY <1>3, <2>4, <2>5, <2>6, <2>7 DEF AppNext, ConsensusSendFails, CbenchPacketIn, TakePacketIn
<1>4. ASSUME RulePosted PROVE Served(packet, h)'
  <2>1. UNCHANGED toCtl
    BY <1>4 DEF RulePosted
  <2>2. CASE UNCHANGED fromCtl
    BY <1>1, <1>2, <2>1, <2>2 DEF Served, OnTheWay, Ahead
  <2>3. CASE /\ Head(asked).dpid \in Dpids
             /\ SendToSwitch(Head(asked).dpid, <<FlowMod(RuleEntry(Head(asked)))>>)
    <3> DEFINE m == <<FlowMod(RuleEntry(Head(asked)))>>
    <3>1. Head(asked) \in Rule
      BY <1>4 DEF RulePosted, HomeInv, TypeOK
    <3>2. FlowMod(RuleEntry(Head(asked))) \in CtlMessage
      BY <3>1, EntryType DEF FlowMod, CtlMessage
    <3>3. m \in Seq(CtlMessage)
      BY <3>2
    <3>4. \A r \in Dpids : \A i \in DOMAIN fromCtl[r] :
              i \in DOMAIN fromCtl'[r] /\ fromCtl'[r][i] = fromCtl[r][i]
      BY <2>3, <3>3, SendServes
    <3> QED
      BY <1>1, <1>2, <2>1, <3>4 DEF Served, OnTheWay, Ahead
  <2> QED
    BY <1>4, <2>2, <2>3 DEF RulePosted
<1> QED
  BY <1>3, <1>4

\* No packet is lost, again when no datapath id has two digits.
THEOREM PacketsKept ==
    ASSUME OneDigit PROVE Spec => []NoPacketLost
<1>1. Init => NoPacketLost
  BY DEF Init, NoPacketLost
<1>2. ASSUME HomeInv, NoPacketLost, [Next]_vars PROVE NoPacketLost'
  <2>1. (app # "cbench" /\ conn = "up")' => app # "cbench" /\ conn = "up" /\ ~ VnfStops
    BY <1>2 DEF Next, vars, app_vars, net_vars, hosts, SwitchNext, TakeNext, AppNext,
                SimpleIgnores, SimplePacketIn, ConsensusFloods, ConsensusAsks,
                ConsensusSendFails, CbenchPacketIn, RulePosted, VnfStops, Send, Move,
                SwitchForwards, SwitchAsks, SwitchTakesFlowMod, SwitchTakesPacketOut
  <2>2. CASE ~ (app # "cbench" /\ conn = "up")'
    BY <2>2 DEF NoPacketLost
  <2>3. CASE UNCHANGED vars
    BY <1>2, <2>3 DEF vars, app_vars, net_vars, hosts, NoPacketLost, OnTheWay
  <2> QED
    BY <1>2, <2>1, <2>2, <2>3, NetworkServes, ApplicationServes DEF Next
<1>3. HomeInv /\ [Next]_vars => HomeInv'
  BY HomeStep
<1> QED
  BY InitHome, <1>1, <1>2, <1>3, PTL DEF Spec
=============================================================================
