-------------------------- MODULE Consensus_proofs --------------------------
(***************************************************************************)
(* Safety of Consensus, for every number of controllers and of VNFs and    *)
(* for every packet, fault and bound.                                      *)
(***************************************************************************)
EXTENDS Consensus, Domain_proofs, SequenceTheorems

-----------------------------------------------------------------------------
(* Facts about sequences. *)

LEMMA SubSeqPrefixType ==
    ASSUME NEW S, NEW s \in Seq(S), NEW n \in 0 .. Len(s)
    PROVE  SubSeq(s, 1, n) \in Seq(S)
BY SubSeqProperties

LEMMA HeadTailType ==
    ASSUME NEW S, NEW s \in Seq(S), s # <<>>
    PROVE  /\ Head(s) \in S /\ Tail(s) \in Seq(S)
           /\ Len(s) \in Nat \ {0} /\ Len(Tail(s)) = Len(s) - 1
           /\ Head(s) = s[1]
           /\ \A i \in 1 .. Len(Tail(s)) : Tail(s)[i] = s[i + 1]
BY HeadTailProperties, Len(s) \in Nat

LEMMA AppendType ==
    ASSUME NEW S, NEW s \in Seq(S), NEW e \in S
    PROVE  /\ Append(s, e) \in Seq(S)
           /\ Len(s) \in Nat /\ Len(Append(s, e)) = Len(s) + 1
           /\ \A i \in 1 .. Len(s) : Append(s, e)[i] = s[i]
           /\ Append(s, e)[Len(s) + 1] = e
BY AppendProperties

\* The arithmetic of a log of l instances, d of them delivered, of which h
\* are handled and n wait.
LEMMA QueueBounds ==
    ASSUME NEW h \in Nat, NEW n \in Nat, NEW d \in Nat, NEW l \in Nat,
           h + n <= d, d <= l
    PROVE  /\ h <= l /\ h + 0 <= d
           /\ \A i \in 1 .. h : i \in 1 .. l
           /\ \A i \in 1 .. n : h + i \in 1 .. l
OBVIOUS

LEMMA LeqTrans ==
    ASSUME NEW a \in Nat, NEW b \in Nat, NEW c \in Nat, a <= b, b <= c
    PROVE  a <= c
OBVIOUS

LEMMA QueueIn ==
    ASSUME NEW h \in Nat, NEW n \in Nat, NEW d \in Nat, NEW l \in Nat,
           h + n = d, d < l
    PROVE  /\ h + (n + 1) = d + 1 /\ h + (n + 1) <= d + 1 /\ d + 1 <= l
           /\ \A i \in 1 .. n + 1 : i \in 1 .. n \/ i = n + 1
OBVIOUS

LEMMA QueueOut ==
    ASSUME NEW h \in Nat, NEW n \in Nat \ {0}, NEW d \in Nat, h + n = d
    PROVE  /\ (h + 1) + (n - 1) = d /\ (h + 1) + (n - 1) <= d /\ 1 \in 1 .. n
           /\ \A i \in 1 .. h + 1 : i \in 1 .. h \/ i = h + 1
           /\ \A i \in 1 .. n - 1 : i + 1 \in 1 .. n /\ h + (i + 1) = (h + 1) + i
OBVIOUS

-----------------------------------------------------------------------------
(* Type correctness. *)

\* A controller belongs to the domain of its VNF and to no other.
LEMMA VnfOfType ==
    ASSUME NEW h \in ControllerHosts(NumCtls)
    PROVE  /\ VnfOf[h] \in Vnfs
           /\ h \in MyDomain[VnfOf[h]]
           /\ \A v \in Vnfs : h \in MyDomain[v] => v = VnfOf[h]
<1>1. NumCtls \in Nat /\ NumVnfs \in Nat \ {0}
  BY ConsensusAssumption
<1>2. PICK i \in VnfIds(NumVnfs) :
          GetVnf(NumCtls, NumVnfs, h) = {i} /\ h \in GetDomain(NumCtls, NumVnfs, i)
  BY <1>1, VnfOfController
<1>3. VnfOf[h] = i
  BY <1>2 DEF VnfOf, Vnfs
<1>4. ASSUME NEW v \in Vnfs, h \in MyDomain[v]
      PROVE  v = i
  BY <1>1, <1>2, <1>4, DomainsDisjoint DEF Vnfs, MyDomain
<1>5. QED
  BY <1>2, <1>3, <1>4 DEF Vnfs, MyDomain

LEMMA MyDomainType ==
    ASSUME NEW v \in Vnfs, NEW h \in MyDomain[v]
    PROVE  h \in ControllerHosts(NumCtls) /\ h \in Nat
<1>1. NumCtls \in Nat
  BY ConsensusAssumption
<1>2. h \in ControllerHosts(NumCtls)
  BY DEF MyDomain, GetDomain
<1>3. QED
  BY <1>1, <1>2 DEF ControllerHosts, CtlHostBase

\* What a controller sends is a message.
LEMMA RequestType ==
    ASSUME TypeOK, NEW c \in Ctls, NEW p \in Packets,
           Learned(c, p)[<<p.dpid, p.dst>>] # NoPort
    PROVE  Request(c, p) \in Message
<1>1. p \in [dpid : Dpids, in_port : PortNos, src : Macs, dst : Macs]
  BY ConsensusAssumption
<1>2. Learned(c, p) \in [Dpids \X Macs -> PortNos \cup {NoPort}]
  BY <1>1 DEF TypeOK, Learned
<1>3. Learned(c, p)[<<p.dpid, p.dst>>] \in PortNos
  BY <1>1, <1>2
<1>4. RuleDpid(p.dpid) \in Dpids \cup {1}
  BY <1>1 DEF RuleDpid
<1>5. BuildRule(p.dpid, p.in_port, Learned(c, p)[<<p.dpid, p.dst>>], p.dst) \in Rule
  BY <1>1, <1>3, <1>4 DEF BuildRule, Rule
<1>6. Len(requests[c]) + 1 \in Nat
  BY DEF TypeOK
<1>7. QED
  BY <1>5, <1>6 DEF Request, Message

LEMMA InitType == Init => TypeOK
<1> SUFFICES ASSUME Init PROVE TypeOK
  OBVIOUS
<1>1. \A S : <<>> \in Seq(S)
  OBVIOUS
<1>2. QED
  BY <1>1 DEF Init, TypeOK

LEMMA StopVnfType ==
    ASSUME TypeOK, NEW v \in Vnfs, StopVnf(v), faults' \in Nat
    PROVE  TypeOK'
<1>1. uplink' \in [Vnfs -> Seq(Message)]
  <2>1. PICK n \in 0 .. Len(uplink[v]) :
            uplink' = [uplink EXCEPT ![v] = SubSeq(@, 1, n)]
    BY DEF StopVnf
  <2>2. SubSeq(uplink[v], 1, n) \in Seq(Message)
    BY SubSeqPrefixType DEF TypeOK
  <2>3. QED
    BY <2>1, <2>2 DEF TypeOK
<1>2. wire' \in [Ctls -> Seq(Message)] /\ inbox' \in [Vnfs -> Seq(Message)]
  BY <<>> \in Seq(Message) DEF TypeOK, StopVnf
<1>3. /\ conn' \in [Ctls -> {"connecting", "up", "lost"}]
      /\ posting' \in [Vnfs -> BOOLEAN]
      /\ vnfDown' \subseteq Vnfs
  BY DEF TypeOK, StopVnf
<1>4. QED
  BY <1>1, <1>2, <1>3 DEF TypeOK, StopVnf

LEMMA NextType == TypeOK /\ PostingInv /\ [Next]_vars => TypeOK'
<1> SUFFICES ASSUME TypeOK, PostingInv, [Next]_vars PROVE TypeOK'
  OBVIOUS
<1> USE DEF ctlVars, pxVars, vnfVars
<1>1. ASSUME NEW c \in Ctls, Connect(c) PROVE TypeOK'
  BY <1>1 DEF TypeOK, Connect
<1>2. ASSUME NEW c \in Ctls, PacketIn(c) PROVE TypeOK'
  <2>1. PICK p \in Packets :
            /\ macToPort' = [macToPort EXCEPT ![c] = Learned(c, p)]
            /\ PacketInFlood(c, p) \/ PacketInRequest(c, p) \/ PacketInSendFails(c, p)
    BY <1>2 DEF PacketIn
  <2>2. macToPort' \in [Ctls -> [Dpids \X Macs -> PortNos \cup {NoPort}]]
    <3>1. p \in [dpid : Dpids, in_port : PortNos, src : Macs, dst : Macs]
      BY ConsensusAssumption
    <3>2. Learned(c, p) \in [Dpids \X Macs -> PortNos \cup {NoPort}]
      BY <3>1 DEF TypeOK, Learned
    <3>3. QED
      BY <2>1, <3>2 DEF TypeOK
  <2>3. packetsIn' \in [Ctls -> Nat]
    BY <1>2 DEF TypeOK, PacketIn
  <2>4. /\ requests' \in [Ctls -> Seq(Message)] /\ wire' \in [Ctls -> Seq(Message)]
        /\ packetsOut' \in [Ctls -> Nat]
    <3>1. CASE PacketInFlood(c, p)
      BY <3>1 DEF TypeOK, PacketInFlood
    <3>2. CASE PacketInRequest(c, p)
      <4>1. Request(c, p) \in Message
        BY <3>2, RequestType DEF PacketInRequest
      <4>2. /\ Append(requests[c], Request(c, p)) \in Seq(Message)
            /\ Append(wire[c], Request(c, p)) \in Seq(Message)
        BY <4>1 DEF TypeOK
      <4>3. QED
        BY <3>2, <4>2 DEF TypeOK, PacketInRequest, OnePacketOut
    <3>3. CASE PacketInSendFails(c, p)
      BY <3>3 DEF TypeOK, PacketInSendFails
    <3>4. QED
      BY <2>1, <3>1, <3>2, <3>3
  <2>5. QED
    BY <1>2, <2>2, <2>3, <2>4 DEF TypeOK, PacketIn
<1>3. ASSUME NEW c \in Ctls, ClientSubmit(c) PROVE TypeOK'
  <2>0. VnfOf[c] \in Vnfs
    BY VnfOfType, ConsensusAssumption
  <2>1. Head(wire[c]) \in Message /\ Tail(wire[c]) \in Seq(Message)
    BY <1>3, HeadTailType DEF TypeOK, ClientSubmit
  <2>2. wire' \in [Ctls -> Seq(Message)] /\ uplink' \in [Vnfs -> Seq(Message)]
    BY <1>3, <2>0, <2>1 DEF TypeOK, ClientSubmit, SubmitLast
  <2>3. QED
    BY <1>3, <2>2 DEF TypeOK, ClientSubmit
<1>4. ASSUME NEW v \in Vnfs, Decide(v) PROVE TypeOK'
  <2>1. Head(uplink[v]) \in Message /\ Tail(uplink[v]) \in Seq(Message)
    BY <1>4, HeadTailType DEF TypeOK, Decide
  <2>2. log' \in Seq(Message) /\ uplink' \in [Vnfs -> Seq(Message)]
    BY <1>4, <2>1 DEF TypeOK, Decide
  <2>3. QED
    BY <1>4, <2>2 DEF TypeOK, Decide
<1>5. ASSUME NEW v \in Vnfs, Deliver(v) PROVE TypeOK'
  <2>1. log[delivered[v] + 1] \in Message
    BY <1>5 DEF TypeOK, Deliver, HasNext
  <2>2. inbox' \in [Vnfs -> Seq(Message)] /\ delivered' \in [Vnfs -> Nat]
    BY <1>5, <2>1 DEF TypeOK, Deliver, NextInstance
  <2>3. QED
    BY <1>5, <2>2 DEF TypeOK, Deliver
<1>6. ASSUME NEW v \in Vnfs, HandleRequest(v) PROVE TypeOK'
  <2>1. Head(inbox[v]) \in Message /\ Tail(inbox[v]) \in Seq(Message)
    BY <1>6, HeadTailType DEF TypeOK, HandleRequest
  <2>2. inbox' \in [Vnfs -> Seq(Message)] /\ handled' \in [Vnfs -> Seq(Message)]
    BY <1>6, <2>1 DEF TypeOK, HandleRequest
  <2>3. posting' \in [Vnfs -> BOOLEAN]
    BY <1>6 DEF TypeOK, HandleRequest, InMyDomain
  <2>4. QED
    BY <1>6, <2>2, <2>3 DEF TypeOK, HandleRequest
<1>7. ASSUME NEW v \in Vnfs, PostReply(v) PROVE TypeOK'
  <2>1. PostTarget(v) \in Nat
    BY <1>7, MyDomainType DEF PostingInv, PostReply
  <2>2. Len(handled[v]) \in Nat /\ FlowAddStatus \in {200, 500}
    BY DEF TypeOK, FlowAddStatus
  <2>3. [iid |-> Len(handled[v]), host |-> PostTarget(v), status |-> FlowAddStatus]
            \in Answer
    BY <2>1, <2>2 DEF Answer
  <2>4. posted' \in [Vnfs -> SUBSET Answer] /\ posting' \in [Vnfs -> BOOLEAN]
    BY <1>7, <2>3 DEF TypeOK, PostReply
  <2>5. QED
    BY <1>7, <2>4 DEF TypeOK, PostReply
<1>8. ASSUME NEW v \in Vnfs,
             HandleMalformed(v) \/ PostFails(v) \/ ReadFails(v) \/ CrashVnf(v)
      PROVE  TypeOK'
  <2>1. faults' \in Nat /\ StopVnf(v)
    BY <1>8 DEF TypeOK, HandleMalformed, PostFails, ReadFails, CrashVnf, Fault
  <2>2. QED
    BY <2>1, StopVnfType
<1>9. ASSUME NEW c \in Ctls, CrashCtl(c) PROVE TypeOK'
  <2>1. wire' \in [Ctls -> Seq(Message)]
    <3>1. PICK n \in 0 .. Len(wire[c]) : wire' = [wire EXCEPT ![c] = SubSeq(@, 1, n)]
      BY <1>9 DEF CrashCtl
    <3>2. SubSeq(wire[c], 1, n) \in Seq(Message)
      BY SubSeqPrefixType DEF TypeOK
    <3>3. QED
      BY <3>1, <3>2 DEF TypeOK
  <2>2. faults' \in Nat /\ ctlDown' \subseteq Ctls
    BY <1>9 DEF TypeOK, CrashCtl, Fault
  <2>3. QED
    BY <1>9, <2>1, <2>2 DEF TypeOK, CrashCtl
<1>10. CASE UNCHANGED vars
  BY <1>10 DEF TypeOK, vars
<1>11. QED
  BY <1>1, <1>2, <1>3, <1>4, <1>5, <1>6, <1>7, <1>8, <1>9, <1>10
     DEF Next, CtlNext, VnfNext

-----------------------------------------------------------------------------
(* The inductive invariant. *)

LEMMA InitInv == Init => IInv
<1> SUFFICES ASSUME Init PROVE IInv
  OBVIOUS
<1>1. TypeOK
  BY InitType
<1>2. DeliveryInv
  BY DEF Init, DeliveryInv
<1>3. Agreement /\ InboxInv
  BY DEF Init, Agreement, InboxInv
<1>4. PostingInv /\ PostedInv
  BY DEF Init, PostingInv, PostedInv
<1>5. QED
  BY <1>1, <1>2, <1>3, <1>4 DEF IInv

\* Nothing is taken out of the log, and only Decide adds to it.
LEMMA LogGrows ==
    ASSUME TypeOK, [Next]_vars
    PROVE  /\ Len(log) <= Len(log')
           /\ \A i \in 1 .. Len(log) : log'[i] = log[i]
<1>1. ASSUME NEW v \in Vnfs, Decide(v)
      PROVE  /\ Len(log) <= Len(log')
             /\ \A i \in 1 .. Len(log) : log'[i] = log[i]
  <2>1. Head(uplink[v]) \in Message
    BY <1>1, HeadTailType DEF TypeOK, Decide
  <2>2. QED
    BY <1>1, <2>1, AppendType DEF TypeOK, Decide
<1>2. CASE log' = log
  BY <1>2 DEF TypeOK
<1>3. QED
  BY <1>1, <1>2 DEF Next, CtlNext, VnfNext, vars, pxVars, vnfVars, Connect, PacketIn,
     ClientSubmit, Deliver, HandleRequest, HandleMalformed, PostReply, PostFails,
     ReadFails, CrashVnf, CrashCtl, StopVnf

(***************************************************************************)
(* What the managers receive.  At(v) is the part of the invariant about    *)
(* VNF v: the instances v has delivered are those its manager has handled, *)
(* then those in its inbox, unless v has stopped.                          *)
(***************************************************************************)
At(v) ==
    /\ delivered[v] <= Len(log)
    /\ Len(handled[v]) + Len(inbox[v]) <= delivered[v]
    /\ v \notin vnfDown => Len(handled[v]) + Len(inbox[v]) = delivered[v]
    /\ \A i \in 1 .. Len(handled[v]) : handled[v][i] = log[i]
    /\ \A i \in 1 .. Len(inbox[v]) : inbox[v][i] = log[Len(handled[v]) + i]

LEMMA AtEach ==
    ASSUME TypeOK
    PROVE  DeliveryInv /\ Agreement /\ InboxInv <=> \A v \in Vnfs : At(v)
<1>1. Len(log) \in Nat
  BY DEF TypeOK
<1>2. \A v \in Vnfs : Len(inbox[v]) \in Nat /\ Len(handled[v]) \in Nat /\ delivered[v] \in Nat
  BY DEF TypeOK
<1>3. ASSUME \A v \in Vnfs : At(v)
      PROVE  \A v \in Vnfs : Len(handled[v]) <= Len(log)
  BY <1>1, <1>2, <1>3, QueueBounds DEF At
<1>4. QED
  BY <1>3 DEF At, DeliveryInv, Agreement, InboxInv

\* The step of a process that is neither the learner nor the manager of v.
LEMMA AtUnchanged ==
    ASSUME TypeOK, TypeOK', [Next]_vars, NEW v \in Vnfs, At(v),
           handled'[v] = handled[v], inbox'[v] = inbox[v],
           delivered'[v] = delivered[v], v \in vnfDown => v \in vnfDown'
    PROVE  At(v)'
<1>1. Len(log) <= Len(log') /\ \A i \in 1 .. Len(log) : log'[i] = log[i]
  BY LogGrows
<1>2. /\ Len(log) \in Nat /\ Len(inbox[v]) \in Nat /\ Len(handled[v]) \in Nat
      /\ delivered[v] \in Nat
  BY DEF TypeOK
<1>3. Len(log') \in Nat
  BY DEF TypeOK
<1>4. delivered'[v] <= Len(log')
  BY <1>1, <1>2, <1>3, LeqTrans DEF At
<1>5. \A i \in 1 .. Len(handled[v]) : handled[v][i] = log'[i]
  BY <1>1, <1>2, QueueBounds DEF At
<1>6. \A i \in 1 .. Len(inbox[v]) : inbox[v][i] = log'[Len(handled[v]) + i]
  BY <1>1, <1>2, QueueBounds DEF At
<1>7. QED
  BY <1>4, <1>5, <1>6 DEF At

LEMMA AtStopped ==
    ASSUME TypeOK, [Next]_vars, NEW v \in Vnfs, At(v), StopVnf(v)
    PROVE  At(v)'
<1>1. /\ inbox'[v] = <<>> /\ v \in vnfDown'
      /\ UNCHANGED <<log, delivered, handled>>
  BY DEF StopVnf, TypeOK
<1>2. Len(inbox[v]) \in Nat /\ Len(handled[v]) \in Nat /\ Len(inbox'[v]) = 0
  BY <1>1 DEF TypeOK
<1>3. delivered[v] \in Nat /\ Len(log) \in Nat
  BY DEF TypeOK
<1>4. Len(handled[v]) + 0 <= delivered[v]
  BY <1>2, <1>3, QueueBounds DEF At
<1>5. QED
  BY <1>1, <1>2, <1>4 DEF At

LEMMA AtDeliver ==
    ASSUME TypeOK, NEW v \in Vnfs, At(v), Deliver(v)
    PROVE  At(v)'
<1> DEFINE m == log[delivered[v] + 1]
           h == Len(handled[v])
           n == Len(inbox[v])
<1>1. /\ v \notin vnfDown /\ delivered[v] < Len(log)
      /\ delivered'[v] = delivered[v] + 1
      /\ inbox'[v] = Append(inbox[v], m)
      /\ UNCHANGED <<log, handled, vnfDown>>
  BY DEF Deliver, HasNext, NextInstance, pxVars, TypeOK
<1>2. /\ Len(log) \in Nat /\ h \in Nat /\ n \in Nat /\ delivered[v] \in Nat
      /\ inbox[v] \in Seq(Message)
  BY DEF TypeOK
<1>3. m \in Message
  BY <1>1, <1>2 DEF TypeOK
<1>4. /\ Len(inbox'[v]) = n + 1
      /\ \A i \in 1 .. n : inbox'[v][i] = inbox[v][i]
      /\ inbox'[v][n + 1] = m
  BY <1>1, <1>2, <1>3, AppendType DEF n
<1>5. h + n = delivered[v]
  BY <1>1 DEF At
<1> HIDE DEF h, n, m
<1>6. ASSUME NEW i \in 1 .. Len(inbox'[v])
      PROVE  inbox'[v][i] = log[h + i]
  <2>1. CASE i \in 1 .. n
    BY <1>4, <2>1 DEF At, h, n
  <2>2. CASE i = n + 1
    BY <1>1, <1>2, <1>4, <1>5, <2>2, QueueIn DEF m
  <2>3. QED
    BY <1>1, <1>2, <1>4, <1>5, <2>1, <2>2, QueueIn
<1>7. /\ h + Len(inbox'[v]) = delivered'[v] /\ delivered'[v] <= Len(log)
      /\ h + Len(inbox'[v]) <= delivered'[v]
  BY <1>1, <1>2, <1>4, <1>5, QueueIn
<1>8. \A i \in 1 .. Len(handled[v]) : handled[v][i] = log[i]
  BY DEF At
<1>9. QED
  BY <1>1, <1>6, <1>7, <1>8 DEF At, h

LEMMA AtHandleRequest ==
    ASSUME TypeOK, NEW v \in Vnfs, At(v), HandleRequest(v)
    PROVE  At(v)'
<1> DEFINE h == Len(handled[v])
           n == Len(inbox[v])
<1>1. /\ v \notin vnfDown /\ inbox[v] # <<>>
      /\ handled'[v] = Append(handled[v], Head(inbox[v]))
      /\ inbox'[v] = Tail(inbox[v])
      /\ UNCHANGED <<log, delivered, vnfDown>>
  BY DEF HandleRequest, Reading, pxVars, TypeOK
<1>2. /\ Len(log) \in Nat /\ h \in Nat /\ delivered[v] \in Nat
      /\ inbox[v] \in Seq(Message) /\ handled[v] \in Seq(Message)
  BY DEF TypeOK
<1>3. /\ Head(inbox[v]) = inbox[v][1] /\ Head(inbox[v]) \in Message
      /\ n \in Nat \ {0} /\ Len(inbox'[v]) = n - 1
      /\ \A i \in 1 .. n - 1 : inbox'[v][i] = inbox[v][i + 1]
  BY <1>1, <1>2, HeadTailType
<1>4. /\ Len(handled'[v]) = h + 1
      /\ \A i \in 1 .. h : handled'[v][i] = handled[v][i]
      /\ handled'[v][h + 1] = inbox[v][1]
  BY <1>1, <1>2, <1>3, AppendType
<1>5. /\ h + n = delivered[v] /\ delivered[v] <= Len(log)
      /\ \A i \in 1 .. h : handled[v][i] = log[i]
      /\ \A i \in 1 .. n : inbox[v][i] = log[h + i]
  BY <1>1 DEF At
<1> HIDE DEF h, n
<1>6. ASSUME NEW i \in 1 .. Len(handled'[v])
      PROVE  handled'[v][i] = log[i]
  <2>1. CASE i \in 1 .. h
    BY <1>4, <1>5, <2>1
  <2>2. CASE i = h + 1
    BY <1>2, <1>3, <1>4, <1>5, <2>2, QueueOut
  <2>3. QED
    BY <1>2, <1>3, <1>4, <1>5, <2>1, <2>2, QueueOut
<1>7. ASSUME NEW i \in 1 .. Len(inbox'[v])
      PROVE  inbox'[v][i] = log[Len(handled'[v]) + i]
  <2>1. /\ i \in 1 .. n - 1 /\ i + 1 \in 1 .. n
        /\ h + (i + 1) = (h + 1) + i
    BY <1>2, <1>3, <1>5, QueueOut
  <2>2. inbox[v][i + 1] = log[h + (i + 1)]
    BY <1>5, <2>1
  <2>3. QED
    BY <1>3, <1>4, <2>1, <2>2
<1>8. /\ Len(handled'[v]) + Len(inbox'[v]) = delivered[v]
      /\ Len(handled'[v]) + Len(inbox'[v]) <= delivered[v]
  BY <1>2, <1>3, <1>4, <1>5, QueueOut
<1>9. QED
  BY <1>1, <1>5, <1>6, <1>7, <1>8 DEF At

LEMMA NextDelivery ==
    ASSUME IInv, [Next]_vars
    PROVE  DeliveryInv' /\ Agreement' /\ InboxInv'
<1>1. TypeOK /\ TypeOK' /\ \A v \in Vnfs : At(v)
  BY NextType, AtEach DEF IInv
<1>2. SUFFICES ASSUME NEW v \in Vnfs PROVE At(v)'
  <2>1. /\ Len(log') \in Nat
        /\ \A v \in Vnfs : /\ Len(inbox'[v]) \in Nat /\ Len(handled'[v]) \in Nat
                           /\ delivered'[v] \in Nat
    BY <1>1 DEF TypeOK
  <2>2. ASSUME \A v \in Vnfs : At(v)'
        PROVE  \A v \in Vnfs : Len(handled'[v]) <= Len(log')
    BY <2>1, <2>2, QueueBounds DEF At
  <2>3. QED
    BY <2>2 DEF At, DeliveryInv, Agreement, InboxInv
<1>3. At(v)
  BY <1>1
<1>4. CASE UNCHANGED <<delivered, inbox, handled, vnfDown>>
  BY <1>1, <1>3, <1>4, AtUnchanged
<1>5. ASSUME NEW w \in Vnfs, StopVnf(w) PROVE At(v)'
  <2>1. CASE w = v
    BY <1>1, <1>3, <1>5, <2>1, AtStopped
  <2>2. CASE w # v
    <3>1. /\ handled'[v] = handled[v] /\ inbox'[v] = inbox[v]
          /\ delivered'[v] = delivered[v] /\ (v \in vnfDown => v \in vnfDown')
      BY <1>1, <1>5, <2>2 DEF StopVnf, TypeOK
    <3>2. QED
      BY <1>1, <1>3, <3>1, AtUnchanged
  <2>3. QED
    BY <2>1, <2>2
<1>6. ASSUME NEW w \in Vnfs, Deliver(w) PROVE At(v)'
  <2>1. CASE w = v
    BY <1>1, <1>3, <1>6, <2>1, AtDeliver
  <2>2. CASE w # v
    <3>1. /\ handled'[v] = handled[v] /\ inbox'[v] = inbox[v]
          /\ delivered'[v] = delivered[v] /\ (v \in vnfDown => v \in vnfDown')
      BY <1>1, <1>6, <2>2 DEF Deliver, TypeOK
    <3>2. QED
      BY <1>1, <1>3, <3>1, AtUnchanged
  <2>3. QED
    BY <2>1, <2>2
<1>7. ASSUME NEW w \in Vnfs, HandleRequest(w) PROVE At(v)'
  <2>1. CASE w = v
    BY <1>1, <1>3, <1>7, <2>1, AtHandleRequest
  <2>2. CASE w # v
    <3>1. /\ handled'[v] = handled[v] /\ inbox'[v] = inbox[v]
          /\ delivered'[v] = delivered[v] /\ (v \in vnfDown => v \in vnfDown')
      BY <1>1, <1>7, <2>2 DEF HandleRequest, TypeOK
    <3>2. QED
      BY <1>1, <1>3, <3>1, AtUnchanged
  <2>3. QED
    BY <2>1, <2>2
<1>8. QED
  BY <1>4, <1>5, <1>6, <1>7
     DEF Next, CtlNext, VnfNext, vars, pxVars, vnfVars, Connect, PacketIn,
         ClientSubmit, Decide, HandleMalformed, PostReply, PostFails,
         ReadFails, CrashVnf, CrashCtl

\* The parts of the invariant about what the managers post.
LEMMA NextPosting ==
    ASSUME IInv, [Next]_vars
    PROVE  PostingInv' /\ PostedInv'
<1> USE DEF IInv
<1>1. CASE UNCHANGED <<handled, posting, posted>>
  BY <1>1 DEF PostingInv, PostedInv, PostTarget
<1>2. ASSUME NEW w \in Vnfs, StopVnf(w)
      PROVE  PostingInv' /\ PostedInv'
  <2>1. /\ posting' = [posting EXCEPT ![w] = FALSE]
        /\ UNCHANGED <<handled, posted>>
    BY <1>2 DEF StopVnf
  <2>2. \A v \in Vnfs : posting'[v] => posting[v]
    BY <2>1 DEF TypeOK
  <2>3. QED
    BY <2>1, <2>2 DEF PostingInv, PostedInv, PostTarget
<1>3. ASSUME NEW w \in Vnfs, HandleRequest(w)
      PROVE  PostingInv' /\ PostedInv'
  <2> DEFINE m == Head(inbox[w])
  <2>1. /\ inbox[w] # <<>>
        /\ handled' = [handled EXCEPT ![w] = Append(@, m)]
        /\ posting' = [posting EXCEPT ![w] = FoundHost(m) \in MyDomain[w]]
        /\ posted' = posted
    BY <1>3 DEF HandleRequest, InMyDomain
  <2>2. m \in Message
    BY <2>1, HeadTailType DEF TypeOK
  <2> HIDE DEF m
  <2>3. /\ Len(handled[w]) \in Nat /\ Len(handled'[w]) = Len(handled[w]) + 1
        /\ \A i \in 1 .. Len(handled[w]) : handled'[w][i] = handled[w][i]
        /\ handled'[w][Len(handled[w]) + 1] = m
    BY <2>1, <2>2, AppendType DEF TypeOK
  <2>4. /\ \A v \in Vnfs \ {w} : handled'[v] = handled[v] /\ posting'[v] = posting[v]
        /\ posting'[w] = (FoundHost(m) \in MyDomain[w])
    BY <2>1 DEF TypeOK
  <2>5. PostingInv'
    <3>1. /\ handled'[w] # <<>>
          /\ FoundHost(handled'[w][Len(handled'[w])]) = FoundHost(m)
      BY <2>3
    <3>2. QED
      BY <2>4, <3>1 DEF PostingInv, PostTarget
  <2>6. PostedInv'
    <3>1. \A e \in posted[w] :
              /\ e.iid \in 1 .. Len(handled'[w])
              /\ handled'[w][e.iid] = handled[w][e.iid]
      BY <2>3 DEF PostedInv
    <3>2. QED
      BY <2>1, <2>4, <3>1 DEF PostedInv
  <2>7. QED
    BY <2>5, <2>6
<1>4. ASSUME NEW w \in Vnfs, PostReply(w)
      PROVE  PostingInv' /\ PostedInv'
  <2> DEFINE n == Len(handled[w])
             e == [iid |-> n, host |-> PostTarget(w), status |-> FlowAddStatus]
  <2>1. /\ posting[w] /\ handled' = handled
        /\ posting' = [posting EXCEPT ![w] = FALSE]
        /\ posted' = [posted EXCEPT ![w] = @ \cup {e}]
    BY <1>4 DEF PostReply
  <2>2. \A v \in Vnfs : posting'[v] => posting[v]
    BY <2>1 DEF TypeOK
  <2>3. PostingInv'
    BY <2>1, <2>2 DEF PostingInv, PostTarget
  <2>4. n \in 1 .. n
    BY <2>1 DEF PostingInv, TypeOK
  <2>5. /\ e.iid = n /\ e.host = FoundHost(handled[w][n])
        /\ e.host \in MyDomain[w] /\ e.status = FlowAddStatus
    BY <2>1 DEF PostingInv, PostTarget
  <2> HIDE DEF e
  <2>6. /\ posted'[w] = posted[w] \cup {e}
        /\ \A v \in Vnfs \ {w} : posted'[v] = posted[v]
    BY <2>1 DEF TypeOK
  <2>7. PostedInv'
    <3>1. \A f \in posted'[w] :
              /\ f.iid \in 1 .. Len(handled[w])
              /\ f.host = FoundHost(handled[w][f.iid])
              /\ f.host \in MyDomain[w]
              /\ f.status = FlowAddStatus
      BY <2>4, <2>5, <2>6 DEF PostedInv
    <3>2. QED
      BY <2>1, <2>6, <3>1 DEF PostedInv
  <2>8. QED
    BY <2>3, <2>7
<1>5. QED
  BY <1>1, <1>2, <1>3, <1>4
     DEF Next, CtlNext, VnfNext, vars, pxVars, vnfVars, Connect, PacketIn,
         ClientSubmit, Decide, Deliver, HandleMalformed, PostFails,
         ReadFails, CrashVnf, CrashCtl

\* The strengthened invariant holds of every behaviour.
THEOREM Invariance == Spec => []IInv
<1>1. IInv /\ [Next]_vars => IInv'
  BY NextType, NextDelivery, NextPosting DEF IInv
<1>2. QED
  BY InitInv, <1>1, PTL DEF Spec

-----------------------------------------------------------------------------
(* What follows from it. *)

\* Every variable keeps its type, whatever fails and however often.
THEOREM TypeCorrect == Spec => []TypeOK
BY Invariance, PTL DEF IInv

\* The managers handle the same rules in the same order: at any moment what
\* each has handled is a beginning of the one log.
THEOREM AgreementHolds == Spec => []Agreement
BY Invariance, PTL DEF IInv

\* No rule is posted twice: the managers agree on what the rule of an
\* instance is, so on its host, and that host is in one domain only.
THEOREM SingleInstallerHolds == Spec => []SingleInstaller
<1>1. ASSUME IInv
      PROVE  SingleInstaller
  <2>1. SUFFICES ASSUME NEW v \in Vnfs, NEW w \in Vnfs,
                        NEW e \in posted[v], NEW f \in posted[w], e.iid = f.iid
                 PROVE  v = w /\ e = f
    BY DEF SingleInstaller
  <2>2. handled[v][e.iid] = log[e.iid] /\ handled[w][f.iid] = log[f.iid]
    BY <1>1 DEF IInv, PostedInv, Agreement
  <2>3. e.host = f.host /\ e.host \in MyDomain[v] /\ f.host \in MyDomain[w]
    BY <1>1, <2>1, <2>2 DEF IInv, PostedInv
  <2>4. v = w
    BY <2>3, MyDomainType, VnfOfType
  <2>5. e \in Answer /\ f \in Answer /\ e.status = f.status
    BY <1>1 DEF IInv, TypeOK, PostedInv
  <2>6. QED
    BY <2>1, <2>3, <2>4, <2>5 DEF Answer
<1>2. QED
  BY <1>1, Invariance, PTL
=============================================================================
