------------------------------ MODULE Consensus ------------------------------
(***************************************************************************)
(* The path of a rule through the system, from the packet-in that makes a  *)
(* controller ask for it to the POST that would install it:                *)
(*                                                                         *)
(*   controller c            --wire[c]-->    libpaxos client of its VNF    *)
(*   client of VNF v         --uplink[v]-->  the proposer, on VNF 0        *)
(*   proposer and acceptors  --log-->        the learner of every VNF      *)
(*   learner of v            --inbox[v]-->   vnf-manager.py of v           *)
(*   manager of v            --POST-->       the controllers of its domain *)
(*                                                                         *)
(* A connection is the sequence of the messages it holds: ClientFraming    *)
(* shows that the bytes from a controller amount to that.  libpaxos is not *)
(* part of the repository; it is modelled by what its callers rely on, one *)
(* sequence of values that every learner gets from its beginning (the      *)
(* option learner-catch-up), extended while the proposer and a majority of *)
(* the acceptors are up.  A VNF runs in a container whose first process    *)
(* ends with the manager, so whatever stops the manager stops its client,  *)
(* learner and acceptor too, and on VNF 0 the proposer.  Nothing restarts. *)
(***************************************************************************)
EXTENDS Domain, Rules, Sequences

CONSTANTS
    NumCtls, NumVnfs,   \* arguments of network.py
    Ctls,               \* the controllers that receive packets in this instance
    Packets,            \* the packet-ins a switch may send
    Faults,             \* kinds of faults: "ctl", "vnf", "read", "race"
    MaxPackets,         \* bound: packet-ins a controller
    MaxFaults           \* bound: faults

Vnfs == VnfIds(NumVnfs)

\* As many VNFs as controllers at most: a VNF manager whose domain is empty
\* does not start (HasDomain).
ASSUME ConsensusAssumption ==
    /\ NumCtls \in Nat /\ NumVnfs \in Nat
    /\ 1 <= NumVnfs /\ NumVnfs <= NumCtls
    /\ Ctls \subseteq ControllerHosts(NumCtls)
    /\ Packets \subseteq [dpid : Dpids, in_port : PortNos, src : Macs, dst : Macs]
    /\ MaxPackets \in Nat /\ MaxFaults \in Nat

VARIABLES
    conn,        \* conn[c]: self.conn of controller c
    macToPort,   \* macToPort[c]: self.mac_to_port, NoPort where there is no key
    packetsIn,   \* packetsIn[c]: packet-ins handled
    packetsOut,  \* packetsOut[c]: packet-outs sent to the switch
    requests,    \* requests[c]: messages c has written to its connection
    wire,        \* wire[c]: those its VNF's client has not read
    uplink,      \* uplink[v]: values submitted to the proposer, not decided
    uplinkUp,    \* uplinkUp[v]: the client of v is connected to the proposer
    log,         \* the values decided, by instance
    delivered,   \* delivered[v]: instances delivered by the learner of v
    inbox,       \* inbox[v]: messages written to the manager, not read
    handled,     \* handled[v]: messages the manager has passed to handle_request
    posting,     \* posting[v]: the manager waits in requests.post
    posted,      \* posted[v]: the answers it has got
    ctlDown,     \* controllers that have stopped
    vnfDown,     \* VNFs that have stopped
    faults       \* faults so far

ctlVars == <<conn, macToPort, packetsIn, packetsOut, requests, ctlDown>>
pxVars  == <<wire, uplink, uplinkUp, log>>
vnfVars == <<delivered, inbox, handled, posting, posted, vnfDown>>
vars    == <<ctlVars, pxVars, vnfVars, faults>>

NoPort == 0
Proposer == 0     \* the proposer is on vnfs[0]

\* self.vnf of a controller, and self.domain of a manager.
VnfOf  == [c \in ControllerHosts(NumCtls) |->
              CHOOSE v \in Vnfs : v \in GetVnf(NumCtls, NumVnfs, c)]
MyDomain == [v \in Vnfs |-> GetDomain(NumCtls, NumVnfs, v)]

\* rule#host, with its number among the requests of its controller.
Message == [rule : Rule, host : Ctls, seq : Nat]

Init ==
    /\ conn = [c \in Ctls |-> "connecting"]
    /\ macToPort = [c \in Ctls |-> [k \in Dpids \X Macs |-> NoPort]]
    /\ packetsIn = [c \in Ctls |-> 0]
    /\ packetsOut = [c \in Ctls |-> 0]
    /\ requests = [c \in Ctls |-> <<>>]
    /\ wire = [c \in Ctls |-> <<>>]
    /\ uplink = [v \in Vnfs |-> <<>>]
    \* A client that starts before the proposer listens is not connected,
    \* and on_connect() does not try again.
    /\ uplinkUp \in [Vnfs -> BOOLEAN]
    /\ "race" \notin Faults => \A v \in Vnfs : uplinkUp[v]
    /\ log = <<>>
    /\ delivered = [v \in Vnfs |-> 0]
    /\ inbox = [v \in Vnfs |-> <<>>]
    /\ handled = [v \in Vnfs |-> <<>>]
    /\ posting = [v \in Vnfs |-> FALSE]
    /\ posted = [v \in Vnfs |-> {}]
    /\ ctlDown = {}
    /\ vnfDown = {}
    /\ faults = 0

-----------------------------------------------------------------------------
(* A controller. *)

\* The loop of __init__() that tries to connect until it succeeds.
Connect(c) ==
    /\ conn[c] = "connecting"
    /\ c \notin ctlDown
    /\ VnfOf[c] \notin vnfDown
    /\ conn' = [conn EXCEPT ![c] = "up"]
    /\ UNCHANGED <<macToPort, packetsIn, packetsOut, requests, ctlDown,
                   pxVars, vnfVars, faults>>

\* mac_to_port once the source of p is learned; not its flooded destination.
LearnedFlood(c, p) == [macToPort[c] EXCEPT ![<<p.dpid, p.dst>>] = 65531]
Learned(c, p)      == [macToPort[c] EXCEPT ![<<p.dpid, p.src>>] = p.in_port]

Request(c, p) ==
    [rule |-> BuildRule(p.dpid, p.in_port, Learned(c, p)[<<p.dpid, p.dst>>], p.dst),
     host |-> c,
     seq  |-> Len(requests[c]) + 1]

\* What is sent to the switch after the request was: the packet, once.
NoPacketOut(n)  == n
OnePacketOut(n) == n + 1

\* _packet_in_handler() for a packet to an unknown address: flood it.
PacketInFlood(c, p) ==
    /\ Learned(c, p)[<<p.dpid, p.dst>>] = NoPort
    /\ packetsOut' = [packetsOut EXCEPT ![c] = @ + 1]
    /\ UNCHANGED <<requests, wire>>

\* ... to a known one: ask for a rule, then send the packet to its port.
\* Once the VNF is gone, what is written goes nowhere.
PacketInRequest(c, p) ==
    /\ Learned(c, p)[<<p.dpid, p.dst>>] # NoPort
    /\ requests' = [requests EXCEPT ![c] = Append(@, Request(c, p))]
    /\ wire' = IF conn[c] = "up"
               THEN [wire EXCEPT ![c] = Append(@, Request(c, p))] ELSE wire
    /\ packetsOut' = [packetsOut EXCEPT ![c] = OnePacketOut(@)]

\* ... and the handler ends there if send() raises an exception.
PacketInSendFails(c, p) ==
    /\ Learned(c, p)[<<p.dpid, p.dst>>] # NoPort
    /\ conn[c] = "lost"
    /\ UNCHANGED <<requests, wire, packetsOut>>

PacketIn(c) ==
    /\ conn[c] # "connecting"
    /\ c \notin ctlDown
    /\ packetsIn[c] < MaxPackets
    /\ packetsIn' = [packetsIn EXCEPT ![c] = @ + 1]
    /\ \E p \in Packets :
          /\ macToPort' = [macToPort EXCEPT ![c] = Learned(c, p)]
          /\ PacketInFlood(c, p) \/ PacketInRequest(c, p) \/ PacketInSendFails(c, p)
    /\ UNCHANGED <<conn, ctlDown, uplink, uplinkUp, log, vnfVars, faults>>

-----------------------------------------------------------------------------
(* libpaxos: client, proposer and acceptors, learner. *)

\* A submitted value goes behind the ones that wait, however many they are.
SubmitFirst(q, m)  == <<m>> \o q
SubmitIfIdle(q, m) == IF q = <<>> THEN <<m>> ELSE q
SubmitLast(q, m)   == Append(q, m)

\* client_submit_value(), for the next message of connection c.
ClientSubmit(c) ==
    LET v == VnfOf[c]
    IN  /\ v \notin vnfDown
        /\ wire[c] # <<>>
        /\ wire' = [wire EXCEPT ![c] = Tail(@)]
        /\ uplink' = [uplink EXCEPT ![v] = SubmitLast(@, Head(wire[c]))]
        /\ UNCHANGED <<ctlVars, uplinkUp, log, vnfVars, faults>>

\* There is one acceptor on each VNF.
Majorities == { q \in SUBSET Vnfs : 2 * Cardinality(q) > NumVnfs }
QuorumUp   == \E q \in Majorities : q \cap vnfDown = {}

\* The proposer gets a value accepted by a majority.
Decide(v) ==
    /\ uplinkUp[v]
    /\ Proposer \notin vnfDown
    /\ QuorumUp
    /\ uplink[v] # <<>>
    /\ log' = Append(log, Head(uplink[v]))
    /\ uplink' = [uplink EXCEPT ![v] = Tail(@)]
    /\ UNCHANGED <<ctlVars, wire, uplinkUp, vnfVars, faults>>

\* The instance a learner delivers next, and whether it is decided.
LatestInstance(v) == Len(log)
NextInstance(v)   == delivered[v] + 1
LagsBehind(v) == delivered[v] + 1 < Len(log)
HasNext(v)    == delivered[v] < Len(log)

\* deliver(), which forwards every value to the manager.
Deliver(v) ==
    /\ v \notin vnfDown
    /\ HasNext(v)
    /\ delivered' = [delivered EXCEPT ![v] = @ + 1]
    /\ inbox' = [inbox EXCEPT ![v] = Append(@, log[NextInstance(v)])]
    /\ UNCHANGED <<ctlVars, pxVars, handled, posting, posted, vnfDown, faults>>

-----------------------------------------------------------------------------
(* A VNF manager. *)

\* Everything in the container of v stops.  Its connections break, with what
\* they hold; the proposer may have some of what the client submitted.
StopVnf(v) ==
    /\ vnfDown' = vnfDown \cup {v}
    /\ conn' = [c \in Ctls |-> IF VnfOf[c] = v /\ conn[c] = "up" THEN "lost" ELSE conn[c]]
    /\ wire' = [c \in Ctls |-> IF VnfOf[c] = v THEN <<>> ELSE wire[c]]
    /\ \E n \in 0 .. Len(uplink[v]) :
          uplink' = [uplink EXCEPT ![v] = SubSeq(@, 1, n)]
    /\ inbox' = [inbox EXCEPT ![v] = <<>>]
    /\ posting' = [posting EXCEPT ![v] = FALSE]
    /\ UNCHANGED <<macToPort, packetsIn, packetsOut, requests, ctlDown,
                   uplinkUp, log, delivered, handled, posted>>

Reading(v) == v \notin vnfDown /\ ~ posting[v]

\* handle_request(): the host found in a message, and whether it is in domain.
FoundHost(m)       == FrameHost(m.rule, m.host)
InAnyDomain(v, h)  == TRUE
BelowLast(v, h)    == h \in MyDomain[v] /\ \E g \in MyDomain[v] : h < g
InMyDomain(v, h)   == h \in MyDomain[v]

\* mainloop() reads a message, handle_request() posts its rule or drops it.
HandleRequest(v) ==
    /\ Reading(v)
    /\ inbox[v] # <<>>
    /\ FoundHost(Head(inbox[v])) # NoHost
    /\ handled' = [handled EXCEPT ![v] = Append(@, Head(inbox[v]))]
    /\ inbox' = [inbox EXCEPT ![v] = Tail(@)]
    /\ posting' = [posting EXCEPT ![v] = InMyDomain(v, FoundHost(Head(inbox[v])))]
    /\ UNCHANGED <<ctlVars, pxVars, delivered, posted, vnfDown, faults>>

\* handle_request() on a message without a host: an exception ends the manager.
HandleMalformed(v) ==
    /\ Reading(v)
    /\ inbox[v] # <<>>
    /\ FoundHost(Head(inbox[v])) = NoHost
    /\ StopVnf(v)
    /\ UNCHANGED faults

\* The controller a rule is posted to.
PostTarget(v) == FoundHost(handled[v][Len(handled[v])])

\* requests.post() returns; whatever the status, the loop goes on.
PostReply(v) ==
    /\ v \notin vnfDown
    /\ posting[v]
    /\ PostTarget(v) \notin ctlDown
    /\ posting' = [posting EXCEPT ![v] = FALSE]
    /\ posted' = [posted EXCEPT ![v] = @ \cup
          {[iid |-> Len(handled[v]), host |-> PostTarget(v), status |-> FlowAddStatus]}]
    /\ UNCHANGED <<ctlVars, pxVars, delivered, inbox, handled, vnfDown, faults>>

\* requests.post() raises ConnectionError, which ends the manager.
PostFails(v) ==
    /\ v \notin vnfDown
    /\ posting[v]
    /\ PostTarget(v) \in ctlDown
    /\ StopVnf(v)
    /\ UNCHANGED faults

-----------------------------------------------------------------------------
(* Faults. *)

Fault(kind) ==
    /\ kind \in Faults
    /\ faults < MaxFaults
    /\ faults' = faults + 1

\* recv(179) returns less than a message, or nothing at the end of file when
\* the learner has stopped: split() fails and the manager ends.
ReadFails(v) ==
    /\ Fault("read")
    /\ Reading(v)
    /\ StopVnf(v)

CrashVnf(v) ==
    /\ Fault("vnf")
    /\ v \notin vnfDown
    /\ StopVnf(v)

\* A controller stops; any part of what it wrote last may be lost.
CrashCtl(c) ==
    /\ Fault("ctl")
    /\ c \notin ctlDown
    /\ ctlDown' = ctlDown \cup {c}
    /\ \E n \in 0 .. Len(wire[c]) : wire' = [wire EXCEPT ![c] = SubSeq(@, 1, n)]
    /\ UNCHANGED <<conn, macToPort, packetsIn, packetsOut, requests,
                   uplink, uplinkUp, log, vnfVars>>

-----------------------------------------------------------------------------
CtlNext(c) == Connect(c) \/ PacketIn(c) \/ ClientSubmit(c)
VnfNext(v) == \/ Decide(v) \/ Deliver(v)
              \/ HandleRequest(v) \/ HandleMalformed(v) \/ PostReply(v) \/ PostFails(v)

Next ==
    \/ \E c \in Ctls : CtlNext(c) \/ CrashCtl(c)
    \/ \E v \in Vnfs : VnfNext(v) \/ ReadFails(v) \/ CrashVnf(v)

Spec == Init /\ [][Next]_vars

(***************************************************************************)
(* Every process is an event loop or a blocking loop that runs while it    *)
(* has something to do, and TCP delivers what is written.  The proposer    *)
(* serves its clients in turn.  A learner may miss the answer of an        *)
(* acceptor that has stopped: it gets an instance only while a majority is *)
(* up.  Nothing makes a switch send packets or a process fail.             *)
(***************************************************************************)
Fairness ==
    /\ \A c \in Ctls : WF_vars(Connect(c)) /\ WF_vars(ClientSubmit(c))
    /\ \A v \in Vnfs :
          /\ WF_vars(Decide(v))
          /\ WF_vars(QuorumUp /\ Deliver(v))
          /\ WF_vars(HandleRequest(v) \/ HandleMalformed(v))
          /\ WF_vars(PostReply(v) \/ PostFails(v))

FairSpec == Spec /\ Fairness

-----------------------------------------------------------------------------
(* Properties. *)

Answer == [iid : Nat, host : Int, status : {200, 500}]

\* Type invariant.
TypeOK ==
    /\ conn \in [Ctls -> {"connecting", "up", "lost"}]
    /\ macToPort \in [Ctls -> [Dpids \X Macs -> PortNos \cup {NoPort}]]
    /\ packetsIn \in [Ctls -> Nat]
    /\ packetsOut \in [Ctls -> Nat]
    /\ requests \in [Ctls -> Seq(Message)]
    /\ wire \in [Ctls -> Seq(Message)]
    /\ uplink \in [Vnfs -> Seq(Message)]
    /\ uplinkUp \in [Vnfs -> BOOLEAN]
    /\ log \in Seq(Message)
    /\ delivered \in [Vnfs -> Nat]
    /\ inbox \in [Vnfs -> Seq(Message)]
    /\ handled \in [Vnfs -> Seq(Message)]
    /\ posting \in [Vnfs -> BOOLEAN]
    /\ posted \in [Vnfs -> SUBSET Answer]
    /\ ctlDown \subseteq Ctls
    /\ vnfDown \subseteq Vnfs
    /\ faults \in Nat

\* What every manager has handled is a beginning of the log, whatever its
\* pace and whichever VNFs have stopped: the n-th rule is the same for all.
Agreement ==
    \A v \in Vnfs : /\ Len(handled[v]) <= Len(log)
                    /\ \A i \in 1 .. Len(handled[v]) : handled[v][i] = log[i]

(***************************************************************************)
(* The strengthening that makes Agreement and SingleInstaller inductive:   *)
(* what a manager has handled and what waits in its inbox are, one after   *)
(* the other, the instances its learner has delivered; a manager that is   *)
(* posting, or has posted, found the host in its own domain.               *)
(***************************************************************************)
DeliveryInv ==
    \A v \in Vnfs :
        /\ delivered[v] <= Len(log)
        /\ Len(handled[v]) + Len(inbox[v]) <= delivered[v]
        /\ v \notin vnfDown => Len(handled[v]) + Len(inbox[v]) = delivered[v]

InboxInv ==
    \A v \in Vnfs : \A i \in 1 .. Len(inbox[v]) :
        inbox[v][i] = log[Len(handled[v]) + i]

PostingInv ==
    \A v \in Vnfs : posting[v] =>
        handled[v] # <<>> /\ PostTarget(v) \in MyDomain[v]

PostedInv ==
    \A v \in Vnfs : \A e \in posted[v] :
        /\ e.iid \in 1 .. Len(handled[v])
        /\ e.host = FoundHost(handled[v][e.iid])
        /\ e.host \in MyDomain[v]
        /\ e.status = FlowAddStatus

IInv == TypeOK /\ DeliveryInv /\ Agreement /\ InboxInv /\ PostingInv /\ PostedInv

\* No rule is posted twice, be it by two managers or by one.
SingleInstaller ==
    \A v, w \in Vnfs : \A e \in posted[v], f \in posted[w] :
        e.iid = f.iid => v = w /\ e = f

\* A rule is posted to the controller that asked for it, by the manager of
\* the VNF that this controller sent it to.
PostedToRequester ==
    \A v \in Vnfs : \A e \in posted[v] :
        e.iid \in DOMAIN log /\ e.host = log[e.iid].host /\ VnfOf[e.host] = v

\* The rules of one controller enter the log in the order it asked for them,
\* and none enters before those it asked for earlier: a crash may cut off
\* the last ones but leaves no gap.
LogInRequestOrder ==
    \A i \in DOMAIN log :
        /\ log[i].seq \in DOMAIN requests[log[i].host]
        /\ log[i] = requests[log[i].host][log[i].seq]
        /\ log[i].seq > 1 =>
              \E j \in 1 .. i - 1 : log[j] = requests[log[i].host][log[i].seq - 1]
        /\ \A j \in 1 .. i - 1 : log[j] # log[i]

\* As long as nothing has failed, a request is in one place only: on its
\* connection, with the proposer, or in the log.
NothingLost ==
    faults = 0 /\ vnfDown = {} =>
        \A c \in Ctls : \A n \in DOMAIN requests[c] :
            LET m   == requests[c][n]
                up  == uplink[VnfOf[c]]
                At(q) == Cardinality({ i \in DOMAIN q : q[i] = m })
            IN  At(wire[c]) + At(up) + At(log) = 1

\* A controller answers each packet-in with a packet-out, unless its VNF
\* has stopped; without a VNF a packet to a known address may be dropped.
PacketDroppedOnlyWithoutVnf ==
    \A c \in Ctls : packetsOut[c] < packetsIn[c] => VnfOf[c] \in vnfDown

\* Only a controller of its own domain takes a VNF with it: no VNF stops
\* because a controller that others manage does.
StopsWithOwnController ==
    Faults \subseteq {"ctl", "race"} =>
        \A v \in vnfDown : \E c \in ctlDown : VnfOf[c] = v

\* handle_request(): "If sender is on domains range, the rule should be
\* installed."  What a manager has handled for a controller of its own was
\* posted, except the rule whose post is under way or ended the manager, and
\* one whose frame does not hold the whole of the controller's address.
OwnRulesPosted ==
    \A v \in Vnfs : \A i \in 1 .. Len(handled[v]) :
        LET m == handled[v][i]
        IN  m.host \in MyDomain[v] /\ FoundHost(m) = m.host =>
            \/ \E e \in posted[v] : e.iid = i
            \/ i = Len(handled[v]) /\ (posting[v] \/ v \in vnfDown)

\* build_rule(): "This rule will be installed with REST API on VNF-Manager."
\* What a manager has posted was accepted.
PostedRulesInstalled == \A v \in Vnfs : \A e \in posted[v] : e.status = 200

\* mainloop(): "Keep waiting for rules learned by libpaxos Learner."  Without
\* a fault of its VNF, a manager does not stop.
KeepsWaiting == Faults \cap {"vnf", "read"} = {} => vnfDown = {}

\* Consensus implements the ordered rules that the controllers are promised.
Ordered == INSTANCE OrderedRules
              WITH InCharge <- VnfOf, Rules <- Rule, Statuses <- {200, 500},
                   applied <- handled
OrderedSpec == Ordered!Spec

\* What a controller asks for is posted by its VNF's manager in the end, if
\* the client of that VNF got its connection, unless the controller, its VNF,
\* the proposer or a majority stops: other failures do not matter.
EventuallyPosted ==
    \A c \in Ctls : \A n \in 1 .. MaxPackets :
        (n \in DOMAIN requests[c] /\ uplinkUp[VnfOf[c]])
            ~> \/ \E e \in posted[VnfOf[c]] : log[e.iid].host = c /\ log[e.iid].seq = n
               \/ c \in ctlDown
               \/ {VnfOf[c], Proposer} \cap vnfDown # {}
               \/ ~QuorumUp

\* Every VNF that lives handles whatever is decided, as long as a majority
\* is up: the VNFs that stop do not hold up the others.
EventuallyHandled ==
    \A v \in Vnfs : \A n \in 1 .. 2 * MaxPackets :
        (Len(log) = n) ~> (Len(handled[v]) >= n \/ v \in vnfDown \/ ~QuorumUp)
=============================================================================
