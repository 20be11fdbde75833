# A TLA+ specification of nfv-consensus

nfv-consensus runs several SDN controllers that agree, through a consensus
service offered by virtual network functions (VNFs), on the order of the flow
rules they install.  This directory holds TLA+ modules of it, configurations
that TLC checks and theorems that TLAPS proves.

    tlc -config Consensus.cfg MCConsensus.tla     one run (the list is below)
    tlapm Consensus_proofs.tla                    the proofs

Paths below are relative to the root of the repository.

## The system

| part | state | operations |
|---|---|---|
| `src/network/network.py` | lists of addresses, the domains, the files `domain` and `paxos.conf` | build the domains, write the files, run a container per controller and per VNF, stop them |
| `src/controller/controller.py`, a Ryu application | `mac_to_port`, the connection to its VNF | connect at start; on a packet-in learn, look up, ask for a rule, send the packet out |
| `src/paxos/vnf-paxos/client-paxos-vnf.c`, on each VNF | an input buffer a connection, the connection to the proposer, statistics | accept connections, cut the stream into requests, submit each to the proposer |
| libpaxos: `proposer`, `acceptor`, the learner library | the log of decided values | decide, deliver (not in the repository; the `.c` files only start it) |
| `src/paxos/vnf-paxos/learner-paxos-vnf.c`, on each VNF | the connection to the manager | forward each delivered value |
| `src/vnf-manager/vnf-manager.py`, on each VNF | its domain, its roles, the connection from the learner | start the roles; read a message, post the rule if it is from the domain |
| `src/controller/ofctl_rest.py`, in each controller | the waiters for statistics | answer REST requests: flow rules, statistics |
| `src/controller/simple_switch.py`, `src/controller/cbench.py`, Ryu applications to compare with | `mac_to_port`; nothing | on a packet-in: learn, install a rule, send the packet out; install a rule that drops everything |
| switches, links, hosts (external) | flow tables, packets under way, where hosts are plugged in | forward, ask the controller, take its messages |
| `src/vnf-manager/perf.py`, `stats` of the client | counters, averages | update |

A packet to a known address makes its controller write a request, the length
in three digits and `rule#host`, to the client on the VNF of its domain.  The
client submits it to the proposer on VNF 0.  The learner of every VNF gets the
decided values in the same order and writes 179 bytes of each to its manager;
the manager whose domain has the host posts the rule to that controller.

What is hard about it:

* **Concurrency.** Controllers, clients, learners and managers run at their own
  pace; one rule is in four queues, and every VNF sees every rule.
* **Byte streams.** TCP cuts requests anywhere, and two writes make a request.
* **Failures.** Whatever stops a manager stops its container, so the client, the
  learner, the acceptor and on VNF 0 the proposer; nothing restarts, no client
  reconnects, and a majority of acceptors is needed.
* **Order at start-up.** Containers get their addresses, on which everything
  depends, in an order nobody controls; a client may start before the proposer.
* **What was learned goes stale.** A packet-in, the rule it leads to and the packets
  that follow it overtake each other; a host may be plugged in elsewhere.
* **Boundaries.** Numbers of one or more digits in a frame of fixed size;
  numbers of controllers that do not divide evenly.

## Modules

| module | models |
|---|---|
| `Domain` | pure: slices of the controllers, the domain file as a set of lines, `get_vnf()`, `get_domain()` |
| `Rules` | pure: `build_rule()`, the length of a message, what is left of its host in a frame, the status of the POST |
| `ClientFraming` | bytes from the controllers to the client: the two `send()` calls, which may write less than they are given, the sockets, the buffer, `extract_data()` |
| `RequestStream` | what `ClientFraming` promises: per connection, requests submitted whole, once, in order |
| `Consensus` | the path of a rule: controllers, clients, log, learners, managers, posts, faults |
| `OrderedRules` | what `Consensus` promises: one sequence, each controller's order kept, each rule posted at most once and by the manager in charge |
| `Deployment` | how a network comes up: the domain file as a sequence of lines, containers, addresses, the two readers of the file, the roles, Ctrl-C |
| `OfctlRest` | the REST API: routes, statuses, commands, requests for statistics with their waiters, replies in parts, timeouts, switches that leave |
| `Forwarding` | what the three Ryu applications do to packets: packet-in handlers, flow tables, messages, hosts that move |
| `Domain_proofs`, `Consensus_proofs`, `ConsensusOrder_proofs`, `ClientFraming_proofs`, `Deployment_proofs`, `OfctlRest_proofs`, `Forwarding_proofs` | theorems |
| `DataInduction` | lemmas: induction over the naturals, sequences that are concatenated |
| `MCClientFraming`, `MCConsensus`, `MCOfctlRest`, `MCForwarding` | values for TLC |

`Consensus` and `Deployment` extend `Domain`; `Consensus` and `Forwarding` extend
`Rules`.  `Forwarding` has for the consensus service what `OrderedRules` promises:
what is asked for comes back in order, until the VNF of the controller stops.
`Consensus` has a connection as a sequence of whole messages; that this is
right is what `StreamSpec` of `ClientFraming` shows.

### State and actions

`ClientFraming`.  `wire[c]` are the sockets, `input[c]` the evbuffer, `len` the
local variable of `extract_data()`; while `current` is a connection the callback
runs, one turn of its loop an action (`ExtractData`), so that what the loop
believes (`len`) can be compared with what the buffer holds.  A byte is named by
its request and position.  `SendBuffer[c]` is the room between `send()` and
`read()`: `Write` puts there what fits, as a green socket does, and returns;
controller.py ignores how much that was.  `cutAt[c]` is the first request that was
cut.  From there on the client reads lengths from bytes that are no header, and
`atoi()` returns what `TextValue` says of the byte it starts at.  `RequestStream`
is implemented up to that request: nothing that was written before it is lost,
and nothing behind it is promised.

`Consensus`.  `PacketIn(c)` is the whole handler: learning, look-up, request and
packet-out, or its end in an exception.  `ClientSubmit` is `client_submit_value()`.
`Decide` (external) appends to `log`; `Deliver` is the learner's callback.
`HandleRequest` reads a frame and decides whether to post; `PostReply` and
`PostFails` end the wait in `requests.post()`; `HandleMalformed` and `ReadFails`
are the exceptions that end a manager.  `StopVnf(v)` is what each of them does to
the rest of the VNF.  `handled[v]`, `posted[v]`, `requests[c]` and the counters
of packets are history that the properties need.

`Deployment`.  The two start scripts are the same, so every container runs
ryu-manager (`FindVnf`, `Connect`) and vnf-manager.py (`FindDomain` or
`NoDomain`, `RunServers`, `RunClient`), and its address decides what becomes of
it.  A container is named by its address.  `Interrupt(h)` is Ctrl-C on a terminal:
the roles end by their own handlers (`ClientEnds`, `AcceptorEnds`) and the script by
the end of vnf-manager.py (`ContainerEnds`), in any order.  `terminate()`, which
should end the roles, kills vnf-manager.py first, so it does nothing that the end of
the container does not do.

`OfctlRest`.  A green thread has one HTTP request.  `Answer`, `Command` and
`AskStats` are what it does up to its first wait, or its response: the decorators
`stats_method()` and `command_method()` with the handler inside (`StatusOf` is
their chain of early returns).  `waiters` is `self.waiters` with the thread in the
place of its lock and list, `isSet` and `msgs`.  `WaitEnds` is a timeout or a set
lock; `WaitAgain` and `AnswerStats` are the rest of ryu's `send_stats_request()`,
which is not in the repository.  The two handlers of replies are one action each,
because green threads switch only where they wait.  `toSwitch[d]` is a set: no
barrier is ever sent, so a switch takes commands (`TakeCommand`) and answers
requests in any order.  `Reply` sends one part of one answer, and the next may
belong to another; the parts of one answer come in order.

`Forwarding`.  `Send` and `Move` are the hosts; `SwitchForwards`, `SwitchAsks`,
`SwitchTakesFlowMod` and `SwitchTakesPacketOut` a switch; the others are the
packet-in handlers, one action for each path through one: `SimpleIgnores` and
`SimplePacketIn` of simple_switch.py, `ConsensusFloods`, `ConsensusAsks` and
`ConsensusSendFails` of controller.py, `CbenchPacketIn` of cbench.py.  Which
application runs is chosen in `Init`.  `RulePosted` is the way of a rule through
the manager and the REST API; with the quotes that `build_rule()` adds it is
refused (`FlowAddStatus`), and so is one for a switch whose number has two digits,
which `build_rule()` cuts, unless there is a switch with what is left of it.  A
port of 0 in `macToPort` is a missing key, and a match on everything is the set of
all values.  The links are a tree, because no application handles a loop:
`Toward[s][h]` is the port of `s` on the way to where `h` is at first.

## Runs

All properties are defined at the end of their module with a sentence that says
what they mean.

| run | what is checked | states |
|---|---|---|
| `Framing` | the loop of the client on every fragmentation of two streams, one of which short writes may cut: types, no reading past the buffer, nothing held back, refinement of `RequestStream`, every request submitted in the end | 283 000 |
| `Consensus` | 3 VNFs, 2 controllers, one fault of any kind: the inductive invariant, one poster a rule, request order in the log, the rules of a manager's own controllers posted, packets answered, refinement of `OrderedRules` | 540 000 |
| `ConsensusDomains` | 3 controllers in 2 domains, two of which may stop, clients that miss the proposer: only the VNF in charge stops, nothing lost or doubled, rules go to their requester | 390 000 |
| `ConsensusLive` | 3 VNFs, one may stop, messages too long for a frame: requests are posted, decided rules are handled | 39 000 |
| `Deployment` | all networks up to 3 controllers and 2 VNFs, Ctrl-C in one container: both readers of the domain file agree, even domains, different acceptor ids, no address that was not written down, a container at the address of a VNF comes to run its client unless Ctrl-C ends it, no role is left behind | 198 000 |
| `OfctlRest` | two requests of 18 kinds to two switches that use the same xids and take messages in any order: waiters are exactly the threads that wait, no answer is mixed or has a gap, every request is answered | 312 000 |
| `Forwarding` | three packets between two hosts at two switches, one host may move, each of the three applications: only a move makes wrong what was learned, installed or asked for, no packet for a host that stays is lost, and it arrives | 330 000 |

Five runs show where the program does not do what its own comments say; TLC
finds the behaviour:

| run | what happens |
|---|---|
| `QuotedRule` | `build_rule()` puts quotes around the rule, `ast.literal_eval()` makes it a string, and the controller answers 500 to every rule posted |
| `TwentiethHost` | the message is longer than the frame and host 20 is cut to 2: the rule is posted to controller 2 (host 10 becomes 1, which is in no domain, and its rule is dropped).  A port of two digits has the same cause: the host is cut off altogether and the manager ends (part of `ConsensusLive`) |
| `ControllerStops` | the POST to a controller that has stopped raises an exception and ends the manager, and the VNF with it |
| `FramingTrailingDigit` | `atoi()` reads on behind the three bytes of the length; a digit there makes a request wait for bytes that do not come |
| `ControllerEnds` | `controller.sh` runs vnf-manager.py too, which has no domain for a controller's address: the container ends, ryu-manager with it |

Three more disagreements are plain from the source and have no run: `main` in
network.py calls `exit()` (line 218) before it runs a container; with more VNFs
than controllers some domains are empty and their managers end (the assumption
`ConsensusAssumption` excludes this); and the comment of ofctl_rest.py (lines 63-67)
offers the flow descriptions at `/stats/flowdesc/<dpid>`, but the route calls
`get_flow_stats` (line 534), and nothing calls `get_flow_desc`.  No document says
that `send()` writes all it is given; what follows where it does not is in `Framing`:
requests behind the first that was cut may be lost or run together.

Some things one would wish for are not promised, and no property claims them:

* that a network has VNFs: each container may in turn be given the address of host
  2, a controller's, end there for want of a domain and free the address for the
  next, so that no container ever has a VNF's.  The cause is that of
  `ControllerEnds`; `RunningVnfsServe` is about the containers that have one.
* that a client which missed the proposer gets its requests through: it is not
  connected again, and they wait.  `NothingLost` counts a request that waits so as
  in place, and `EventuallyPosted` is about clients that are connected.
* that statistics are not older than a command answered 200 before they were asked
  for: the switch may take the two in either order.
* that rules are right for ports, controllers and switches whose numbers have two
  digits.  Frames and `build_rule()` cut them; of the passing runs only
  `ConsensusLive` has messages that are too long, and `EntriesPointHome` is
  checked with switches 1 and 2.

### Bounds, and why they are enough

* `MaxRequests = 2` on two connections: a request can be split at every byte,
  follow another in the same read, and interleave with the other connection.
  Messages of two bytes have a proper part, which is all that matters.
* `MaxPackets = 2` a controller: two requests of one controller can overtake each
  other if anything lets them.  `Loopback` packets make each packet a request;
  `Talk` has the flood first.
* Three VNFs are the fewest where one can stop and consensus goes on; two domains
  the fewest where a manager can post for another's controller.
* `MaxFaults` bounds crashes, not their consequences: one crash of a controller
  can stop a VNF and that one the majority.
* `TextValue`: where a digit of another length is read, more than there is; where
  text is, less.  `SendBuffer`: one connection with room for less than a request, one
  with room for all.
* `OfctlRest`: two threads are enough for two requests to one switch, answered in
  turns, and to two switches under the same xid.
  `MaxParts = 3`: a part that is neither first nor
  last.  One switch speaks OpenFlow 1.0, which is all controller.py accepts, the
  other 1.5, which ofctl_rest.py does.
* `Deployment`: 3 controllers on 2 VNFs do not divide evenly; addresses are given
  again after a container has ended.  `MaxInterrupts = 1`: one Ctrl-C at any moment
  of the start, to any container, whose address the next one takes (two pass as
  well, in three minutes).
* `Forwarding`: two switches are the fewest where a packet is flooded, learned from
  and asked about more than once; `MaxPackets = 3` is a packet, an answer to it,
  and one that meets the rules of both.  One host moves, once, to a third port.  The
  run has the rules refused, as build_rule() has it; with the quotes taken away
  (`FlowAddStatus` 200, 602 000 states) and with a broadcast (715 000) the
  properties hold as well, which takes too long to be a run.

### Fairness

Weak fairness on each action of a process that is an event loop or a loop around
a blocking call: it runs when there is something to do.  The client's read has
strong fairness for each connection, because the callback of another one
disables it in between, and libevent serves all ready descriptors in turn.  A
learner gets an instance only while a majority of acceptors is up.  A POST to a
controller that lives is answered in the end: `requests.post()` has no timeout, so
one that hung would hold up its manager for ever.  Nothing makes
a switch send packets, a controller stop or a fault happen, and nothing makes the
network be stopped.  A send of the message follows the send of the length unless
the controller stops.  In `Deployment` network.py, Docker, vnf-manager.py and the
script of a container that got SIGINT go on; the roles themselves are not fair,
for the signal may be for vnf-manager.py alone.  In `Forwarding` switches forward
and read, and the application handles its events; no host has to send, and no rule
has to come back.  In `OfctlRest` only the green threads are fair: a wait has a
timeout.  Switches may be silent for ever.

## Proofs

Every safety property that a passing run checks is a theorem, and so are both
refinements; what is added to `ASSUME` there is said below.

`Domain_proofs`: for all numbers of controllers and VNFs (at least one VNF), the
slices of `build_domain()` are consecutive and cover the controllers
(`SubDomainsCover`), the interval `get_domain()` makes of the lines of a VNF is
its slice (`GetDomainIsSubDomain`), no controller is in two (`DomainsDisjoint`),
and `get_vnf()` finds the one VNF that has the controller in its domain
(`VnfOfController`).  The arithmetic rests on two facts about `\div` and `%`
(`DivMod`, `MultMonotone`).

`Consensus_proofs`, under `ConsensusAssumption` and `RulesAssumption`, for any
packets, faults and bounds: `IInv` is an invariant (`Invariance`), so are
`TypeOK`, `Agreement` and `SingleInstaller`.  `Agreement` is not inductive: a step
of a manager takes the head of its inbox, so the invariant must say that the
inbox holds the instances after those handled (`InboxInv`), and for the learner's
step that handled and waiting rules together are what was delivered
(`DeliveryInv`), which a stopped VNF keeps only as an inequality.  The lemmas
collect these for one VNF in `At(v)`, one lemma for each kind of step.
`SingleInstaller` adds that what a manager posts was found in its domain
(`PostingInv`, `PostedInv`), and follows with `DomainsDisjoint`.

`OfctlRest_proofs`, under `RestAssumption`: `WaitersAreWaiting` holds for any
threads, switches, requests and parts (`WaitersCorrect`).  It needs that no two
pending threads have the same datapath and xid (`XidsUnique`), which follows from
an xid being above all taken before (`XidsTaken`), and that an idle thread's lock
is not set (`IdleIsUnset`).  A registration then replaces no entry (`AskStep`), and
a deletion, by a handler or by a thread that gives up, is that of one thread
(`ForgetStep`).

Its second half is about what the answers hold: `TypeOK` (`RestTypes`) and
`WholeAnswer` (`AnswersWhole`), whatever the order in which a switch takes and
answers.  Neither is inductive.  `QueueInv` says of the two queues of a switch, with
`Queues`, that no two requests it still answers have the same xid (`Asks`), and that
the parts of one answer on their way are numbered upwards (`Parts`), below the part
that the switch sends next (`Apart`).  `WaitInv` says of
a thread with `n` parts that part `n + 1` is what comes next with its xid, on its way
or at the switch, if anything comes at all (`Coming`).  Sending, taking, answering,
losing and handling each have a lemma on sets and sequences alone (`SendCommand`,
`SendAsk`, `TakeMessage`, `SendPart`, `LoseRest`, `HandleFirst`), so that the lemma
of each action only says which one it is.

`ConsensusOrder_proofs`, under the same assumptions and on top of `IInv`, for what
else `Consensus` promises.  `OrdInv` has three parts: every message anywhere is one
of the requests, as it was sent (`KnownInv`); the log, then the uplink of a VNF,
then the wire to it follow one another, no message twice and each after the one
its controller asked for before (`OrderInv`, with `Follows`); and the last request
of a controller that may send another is in one of these queues, so that nothing
lost comes between (`ConnInv`).  So the log has a controller's requests in their
order (`LogOrder`), and a packet is dropped only without a VNF
(`DroppedOnlyWithoutVnf`).  `NothingLost` counts the places of a request in the
three queues.  `OrderInv` has it at most once in each, and in no two of them
(`FollowsCount`, `FollowsDisjoint`); that it is in one, as long as nothing has
stopped, is `AliveInv`, an invariant of its own (`NoRequestLost`).  Every rule
of its own domain that a manager handled was posted, except one whose post is under
way or ended the manager (`OwnRulesArePosted`); this is said of rules whose frame
holds the whole of the controller's address, because what is cut may be somebody
else's.  The other three theorems assume `OneDigit`: ports and controllers are below
10, so that a message fits its frame.  Then a rule goes to its requester
(`RequesterPosted`), and a manager stops only because of a controller of its own
domain (`StopsOnlyWithOwnController`).  `Implements` is the refinement of
`OrderedRules`: a request, a decision, a learner's delivery and a post are its
steps, everything else stutters, and `FreshInv` keeps posts apart.  `TwentiethHost`
shows what happens without `OneDigit`.

`ClientFraming_proofs`, for any connections, sizes, buffers and cuts: `TypeOK`
(`FramingTypes`), `LenWithinBuffer` (`NoLeftovers`), and `NothingHeldBack` if no
digit follows the length (`HeldBackOnlyByADigit`; `FramingTrailingDigit` is the
other case).  `FrameInv` says of every byte on the wire or in a buffer that it is of
a request that was sent, and where the callback is.  `HeldInv` says that a
connection whose callback is not running has no whole request at the front of its
buffer, and that a loop that runs either has all of the buffer to go through or is
stuck at a request longer than the buffer.

The same module has the refinement of `RequestStream` (`RequestsWholeOnceInOrder`):
every step of the sockets, the buffers and the loop is a `Write`, a `Receive` or a
stutter, again if no digit follows the length (with one, `FramingTrailingDigit`
shows, a request waits for bytes of the next).  The invariant is `StreamInv`.  It
gives every byte a controller sends its place: `Ends` says where each request ends
in all that a connection sends, `Place` where a byte is.  The buffer and the socket
of a connection make one stream; it begins where the requests received so far end,
every byte of it up to the first request that was cut is in its place, and every
byte behind is of that request or a later one (`InPlace`, `ConnInv`).  And a value
submitted is of a request already received, or behind a cut (`SubmittedInv`), so that
none is taken for another.  Each handler then has a lemma: a write continues the
stream or cuts it, a read moves the seam between socket and buffer, and what the
loop finds at the front is either the whole next request or behind a cut.

`Deployment_proofs`, under `DeploymentAssumption`, for any numbers of controllers and
VNFs (the bounds of the run are constants there): `TypeOK` (`DeploymentTypes`),
`PairedUp` (`ControllersPairedUp`), `EvenlyDivided` (`ControllersEvenlyDivided`),
`UniqueAcceptors` (`AcceptorsUnique`) and `AddressesForeseen` (`NoAddressUnforeseen`).
The inductive invariant `DeploymentInv` says that nothing runs before the domain
file is printed and that the file is complete from then on (`FileInv`: exactly one
line a controller, by `Complete`); that what a host knows is what the file says of
its address (`ReadInv`), and which host may have which role and which id
(`RoleInv`); and that no more containers run than were started, all at addresses
written down (`CountInv`).  The last is not inductive without the count: Docker gives
the lowest free address, so one beyond those written down would need as many
containers as there are addresses.  `PairedUp` then follows from the theorems of
`Domain_proofs`.  The file is a concatenation over the VNFs in any order; that it
has each line once is an induction over the VNFs (`FlattenElements` in `DataInduction`).

`DataInduction` has the induction those two modules use.  The library's induction
theorems take a predicate as a parameter, which none of the provers instantiates.
`SetInduction` is about a set instead: a set of naturals with 0 and, with each
element, the next has all naturals, because the order of the naturals is well
founded.  `Received` of `ClientFraming` is written with `ElementsAt`, which takes the
positions of a sequence that are in a set, because `SelectSeq` is opaque to the
provers.

`Forwarding_proofs`, under `ForwardingAssumption`, for any tree, hosts and packets:
`TypeOK` (`ForwardingTypes`), `EntriesPointHome` (`EntriesHome`) and `NoPacketLost`
(`PacketsKept`), the last two for switches whose number is in a rule as it is
(`OneDigit`).  `HomeInv` adds to `EntriesPointHome` that hosts are at ports without
links, those that have not moved at home (`PlaceInv`); that every copy of a packet
came by the port on the way to its source, unless that host has moved
(`PacketInv`); and that every message to a switch leads on to the destination
(`MessageInv`).  For `NoPacketLost` there is one fact a kind of step: the place of a
copy that is taken from it is followed by one that serves the packet as well, the
host itself or a place with the host ahead (`Served`).

Only model-checked: liveness (`EventuallySubmitted`, `EventuallyPosted`,
`EventuallyHandled`, `RunningVnfsServe`, `NoneLeftBehind`, `EveryRequestAnswered`,
`EventuallyDelivered`), which the prover does not do.

## Not modelled

* In `OfctlRest`: what messages hold (matches, filters, counters); xids that are
  used again after 2^32 messages or because a new connection starts from a random
  one; full send queues of ryu.
* In `Forwarding`: loops, lost connections of switches, entries that expire (no
  application sets a timeout), what a packet holds besides its two addresses.
* The statistics of the client and of perf.py: they are logged or printed, and
  nothing reads them.
* `client-vnf-test.c`, `src/utils`, `perf/`: load generators and measurements.
* tmux, cbench clients and logs of network.py; the port-status handlers, which log.
* The text of rules; libpaxos beyond what its callers rely on; restarts, which
  nothing in the repository does.
* The controllers of `Consensus` run: what `ControllerEnds` shows of their
  containers is left to `Deployment`.
* No document says whether a container that `docker run` creates after SIGINT
  to network.py should be stopped; `StopNetwork` leaves it running, as the code does.

## Order of the work

1. `Domain`, `Rules`, `ClientFraming`, `Consensus` with their abstract
   specifications; `Deployment`; the invariants of `Consensus` proved.
2. `OfctlRest`, and `WaitersAreWaiting` proved.
3. `Forwarding` with its proofs; short writes in `ClientFraming` and its proofs;
   Ctrl-C in `Deployment`; the order, the posts and the refinement of `Consensus`
   proved; the answers of `OfctlRest` proved.
4. `NothingLost`, the safety of `Deployment` and the refinement of `RequestStream`
   proved, with the induction over data that they need.

What is left: theorems without `OneDigit` that say of ports and controllers of more
digits what `Rules` does to them, and a proof that a VNF that serves had the domain
that its controllers found, across `Deployment` and `Consensus`.
