------------------------------- MODULE OfctlRest -------------------------------
(***************************************************************************)
(* The REST API that ryu-manager runs beside controller.py.  Each HTTP     *)
(* request has a green thread.  A request for statistics sends a message   *)
(* to the switch, registers a lock and a list of messages in self.waiters  *)
(* under the datapath id and the transaction id (xid) of that message, and *)
(* waits; the thread that handles OpenFlow events puts the parts of the    *)
(* answer in the list and, at the last one, deletes the waiter and sets    *)
(* the lock.  A thread that gives up deletes its waiter itself.            *)
(*                                                                         *)
(* Green threads run until they wait, so a handler, or what a thread does  *)
(* between two waits, is one action.  The timer of a wait may fire at any  *)
(* moment, and a handler may run between that and the thread's next step.  *)
(*                                                                         *)
(* ryu and the switches are external.  ryu.lib.ofctl_v1_x is modelled by   *)
(* what the handlers rely on: it takes a fresh xid, registers the waiter,  *)
(* sends, and waits again for as long as parts arrive.  No barrier is ever *)
(* sent, so a switch takes commands and requests in any order and answers  *)
(* several requests at once; the parts of one answer come in order, and it *)
(* may stop between two of them or never begin.  When a connection ends,   *)
(* what the switch has not answered and some of what the controller has    *)
(* not handled are lost.                                                   *)
(* Xids are not reused: 2^32 requests, or a new connection that by chance  *)
(* starts from the xid somebody waits for, are left out.                   *)
(***************************************************************************)
EXTENDS Integers, Sequences, FiniteSets

CONSTANTS
    Threads,        \* green threads, one an HTTP request
    Datapaths,      \* datapath ids of the switches
    Version,        \* Version[d]: OpenFlow version of d, 10 for 1.0 to 15 for 1.5
    Unsupported,    \* Unsupported[d]: handlers whose ofctl function that version lacks
    Requests,       \* HTTP requests that are made
    BadDpid,        \* a text that is not a number
    NoDpid,         \* no datapath id in the path nor in the body
    UnknownDpid,    \* the id of no switch
    MaxParts        \* bound on the parts of an answer

Bodies == {"none", "dict", "syntax", "value", "other"}

HttpRequest ==
    [method : {"GET", "POST", "DELETE"}, resource : STRING, args : Nat,
     dpid : Datapaths \cup {BadDpid, NoDpid, UnknownDpid}, body : Bodies,
     cmd : STRING, port : {"none", "bad", "known", "unknown"},
     value : {"good", "bad"}]   \* bad: the ofctl function raises ValueError for it

ASSUME RestAssumption ==
    /\ IsFiniteSet(Threads)
    /\ \A r \in Requests : r \in HttpRequest
    /\ {BadDpid, NoDpid, UnknownDpid} \cap Datapaths = {}
    /\ MaxParts \in Nat \ {0}

-----------------------------------------------------------------------------
(* Routes *)

\* /stats/<resource>/<dpid>, read with GET: the resource and its handler.
StatsHandlers ==
    [desc |-> "get_desc_stats", flowdesc |-> "get_flow_stats",
     flow |-> "get_flow_stats", aggregateflow |-> "get_aggregate_flow_stats",
     table |-> "get_table_stats", tablefeatures |-> "get_table_features",
     port |-> "get_port_stats", queue |-> "get_queue_stats",
     queueconfig |-> "get_queue_config", queuedesc |-> "get_queue_desc",
     meterfeatures |-> "get_meter_features", meterconfig |-> "get_meter_config",
     meterdesc |-> "get_meter_desc", meter |-> "get_meter_stats",
     groupfeatures |-> "get_group_features", groupdesc |-> "get_group_desc",
     group |-> "get_group_stats", portdesc |-> "get_port_desc"]

\* Those that take a filter in a body, and so a POST.
Filtered == {"flowdesc", "flow", "aggregateflow"}

\* How many optional arguments the path may have after the dpid.
OptionalArgs(resource) ==
    CASE resource \in {"queue", "queuedesc"} -> 2
      [] resource \in {"port", "queueconfig", "meterconfig", "meterdesc", "meter",
                       "groupdesc", "group", "portdesc"} -> 1
      [] OTHER -> 0

\* /stats/<resource>/<cmd>, /stats/experimenter/<dpid> and /stats/role, with POST.
CommandHandlers ==
    [flowentry |-> "mod_flow_entry", meterentry |-> "mod_meter_entry",
     groupentry |-> "mod_group_entry", portdesc |-> "mod_port_behavior",
     experimenter |-> "send_experimenter", role |-> "set_role"]

NoHandler == "none"

IsStats(r) ==
    /\ r.resource \in DOMAIN StatsHandlers
    /\ r.method = "GET" \/ (r.method = "POST" /\ r.resource \in Filtered)
    /\ r.args <= OptionalArgs(r.resource)

IsClear(r)  == r.method = "DELETE" /\ r.resource = "flowentry/clear"
IsUpdate(r) == r.method = "POST" /\ r.resource \in DOMAIN CommandHandlers
IsList(r)   == r.method = "GET" /\ r.resource = "switches"

Handler(r) ==
    IF IsStats(r) THEN StatsHandlers[r.resource]
    ELSE IF IsUpdate(r) THEN CommandHandlers[r.resource]
    ELSE IF IsClear(r) THEN "delete_flow_entry"
    ELSE IF IsList(r) THEN "get_dpids"
    ELSE NoHandler

\* cmd_convert of the handlers that have a command in their path.
TableCommands == {"add", "modify", "delete"}

Commands ==
    [mod_flow_entry |-> TableCommands \cup {"modify_strict", "delete_strict"},
     mod_meter_entry |-> TableCommands, mod_group_entry |-> TableCommands,
     mod_port_behavior |-> {"modify"}]

UnknownCommand(r) ==
    Handler(r) \in DOMAIN Commands /\ r.cmd \notin Commands[Handler(r)]

-----------------------------------------------------------------------------
VARIABLES
    dpset,      \* ids of the datapaths that are connected
    waiters,    \* self.waiters: what thread has its lock and list under what id and xid
    lastXid,    \* lastXid[d]: the last xid taken on datapath d
    toSwitch,   \* toSwitch[d]: commands that d has not taken, requests not answered
    fromSwitch, \* fromSwitch[d]: messages of d that are not handled yet
    stage,      \* stage[t]: where thread t is
    request,    \* request[t]: where and how t asked for statistics
    msgs,       \* msgs[t]: its list of messages
    seen,       \* seen[t]: previous_msg_len, the length of the list when t waited
    isSet,      \* isSet[t]: whether its lock is set
    status      \* status[t]: status of the HTTP response, 0 before it

thread  == <<stage, request, msgs, seen, isSet, status>>
network == <<dpset, toSwitch, fromSwitch>>
vars    == <<waiters, lastXid, thread, network>>

NoRequest == [dp |-> NoDpid, xid |-> 0, kind |-> "none"]

Init ==
    /\ dpset = Datapaths
    /\ waiters = {}
    /\ lastXid = [d \in Datapaths |-> 0]
    /\ toSwitch = [d \in Datapaths |-> {}]
    /\ fromSwitch = [d \in Datapaths |-> <<>>]
    /\ stage = [t \in Threads |-> "idle"]
    /\ request = [t \in Threads |-> NoRequest]
    /\ msgs = [t \in Threads |-> <<>>]
    /\ seen = [t \in Threads |-> 0]
    /\ isSet = [t \in Threads |-> FALSE]
    /\ status = [t \in Threads |-> 0]

-----------------------------------------------------------------------------
(* HTTP requests *)

\* Whether the ofctl function reads a value of the body or of the path; before
\* OpenFlow 1.5 the handlers of two resources drop that of the path.
ReadsValue(r) ==
    \/ r.resource \in Filtered /\ r.body = "dict"
    \/ r.args > 0 /\ (r.resource \in {"groupdesc", "portdesc"} => Version[r.dpid] = 15)

(***************************************************************************)
(* What stats_method() and the handler answer, 200 standing for going on.  *)
(* Only the handlers of flows read the body, as JSON; a value that is not  *)
(* a dictionary raises AttributeError like a function the version lacks.   *)
(* That function is looked up before it converts a port, a queue, a meter. *)
(***************************************************************************)
StatsStatus(r) ==
    LET reads == r.resource \in Filtered
    IN  IF r.dpid = BadDpid THEN 400
        ELSE IF r.dpid \notin dpset THEN 404
        ELSE IF reads /\ r.body \in {"syntax", "value"} THEN 400
        ELSE IF (reads /\ r.body = "other") \/ Handler(r) \in Unsupported[r.dpid] THEN 501
        ELSE IF ReadsValue(r) /\ r.value = "bad" THEN 400
        ELSE 200

(***************************************************************************)
(* What the handler of a command does.  The tables of commands of meters   *)
(* and groups name constants that a version may lack; otherwise the ofctl  *)
(* function is looked up last, and converts the values of the body.        *)
(***************************************************************************)
MethodStatus(r) ==
    LET h     == Handler(r)
        lacks == h \in Unsupported[r.dpid]
    IN  IF h = "mod_port_behavior" /\ r.port \in {"none", "bad"} THEN 400
        ELSE IF h = "mod_port_behavior" /\ r.port = "unknown" THEN 404
        ELSE IF h \in {"mod_meter_entry", "mod_group_entry"} /\ lacks THEN 501
        ELSE IF UnknownCommand(r) THEN 404
        ELSE IF lacks THEN 501
        ELSE IF r.value = "bad" THEN 400
        ELSE 200

(***************************************************************************)
(* What command_method() and the handler answer.  ast.literal_eval() may   *)
(* raise ValueError as well as SyntaxError, and body.get() AttributeError, *)
(* outside of any try: the server answers 500.  r.dpid is the id of the    *)
(* body, or else that of the path.                                         *)
(***************************************************************************)
CommandStatus(r) ==
    IF r.body = "syntax" THEN 400
    ELSE IF r.body \in {"value", "other"} THEN 500
    ELSE IF r.dpid \in {NoDpid, BadDpid} THEN 400
    ELSE IF r.dpid \notin dpset THEN 404
    ELSE MethodStatus(r)

IsCommand(r) == IsUpdate(r) \/ IsClear(r)

StatusOf(r) ==
    IF IsStats(r) THEN StatsStatus(r)
    ELSE IF IsCommand(r) THEN CommandStatus(r)
    ELSE IF IsList(r) THEN 200
    ELSE 404

Respond(t, s) ==
    /\ stage' = [stage EXCEPT ![t] = "done"]
    /\ status' = [status EXCEPT ![t] = s]

\* A request that is refused, that no route matches or that asks for no switch.
Answer(t, r) ==
    /\ stage[t] = "idle"
    /\ StatusOf(r) # 200 \/ IsList(r)
    /\ Respond(t, StatusOf(r))
    /\ UNCHANGED <<waiters, lastXid, request, msgs, seen, isSet, network>>

\* Requests count the part of the answer that comes next.
Message(k, x) == [kind |-> k, xid |-> x, next |-> 1]

\* A command is answered as soon as its one message is sent.
Command(t, r) ==
    /\ stage[t] = "idle"
    /\ IsCommand(r) /\ StatusOf(r) = 200
    /\ lastXid' = [lastXid EXCEPT ![r.dpid] = @ + 1]
    /\ toSwitch' = [toSwitch EXCEPT ![r.dpid] =
                        @ \cup {Message("command", lastXid[r.dpid] + 1)}]
    /\ Respond(t, 200)
    /\ UNCHANGED <<waiters, dpset, fromSwitch, request, msgs, seen, isSet>>

\* What answers a request: messages with a flag for more parts, or one alone.
ReplyKind(r) ==
    IF \/ Handler(r) = "get_queue_config"
       \/ Handler(r) = "get_port_desc" /\ Version[r.dpid] = 10
    THEN "features" ELSE "stats"

\* waiters[dp.id][xid] = ...
Register(ws, w) == {v \in ws : v.dp # w.dp \/ v.xid # w.xid} \cup {w}

\* Mutant of Forget: the lock is set and the waiter is left.
Keep(d, x) == waiters

\* del waiters[dp.id][xid]
Forget(d, x) == {w \in waiters : w.dp # d \/ w.xid # x}

\* send_stats_request() up to its first wait.
AskStats(t, r) ==
    LET x == lastXid[r.dpid] + 1
        k == ReplyKind(r)
    IN  /\ stage[t] = "idle"
        /\ IsStats(r) /\ StatusOf(r) = 200
        /\ lastXid' = [lastXid EXCEPT ![r.dpid] = x]
        /\ waiters' = Register(waiters, [dp |-> r.dpid, xid |-> x, thread |-> t])
        /\ toSwitch' = [toSwitch EXCEPT ![r.dpid] =
                            @ \cup {Message(k, x)}]
        /\ request' = [request EXCEPT ![t] = [dp |-> r.dpid, xid |-> x, kind |-> k]]
        /\ stage' = [stage EXCEPT ![t] = "waiting"]
        /\ UNCHANGED <<dpset, fromSwitch, msgs, seen, isSet, status>>

\* lock.wait() returns: the lock is set or the time is over.
WaitEnds(t) ==
    /\ stage[t] = "waiting"
    /\ stage' = [stage EXCEPT ![t] = "woken"]
    /\ UNCHANGED <<waiters, lastXid, request, msgs, seen, isSet, status, network>>

\* Mutant of Grew: the length is compared with that of the beginning.
GrewAtAll(t) == Len(msgs[t]) > 0

\* More parts have come since the thread began to wait.
Grew(t) == Len(msgs[t]) > seen[t]

\* The loop of send_stats_request(); a wait for a lock that is set returns at once.
WaitAgain(t) ==
    /\ stage[t] = "woken"
    /\ ~isSet[t] /\ Grew(t)
    /\ seen' = [seen EXCEPT ![t] = Len(msgs[t])]
    /\ stage' = [stage EXCEPT ![t] = "waiting"]
    /\ UNCHANGED <<waiters, lastXid, request, msgs, isSet, status, network>>

\* stats_method() answers with what the list holds, whole or not.
AnswerStats(t) ==
    /\ stage[t] = "woken"
    /\ isSet[t] \/ ~Grew(t)
    /\ waiters' = IF isSet[t] THEN waiters ELSE Forget(request[t].dp, request[t].xid)
    /\ Respond(t, 200)
    /\ UNCHANGED <<lastXid, request, msgs, seen, isSet, network>>

-----------------------------------------------------------------------------
(* Switches *)

Lose(d, keep) ==
    /\ toSwitch' = [toSwitch EXCEPT ![d] = {}]
    /\ fromSwitch' = [fromSwitch EXCEPT ![d] = SubSeq(@, 1, keep)]

Disconnect(d) ==
    /\ d \in dpset
    /\ dpset' = dpset \ {d}
    /\ \E keep \in 0 .. Len(fromSwitch[d]) : Lose(d, keep)
    /\ UNCHANGED <<waiters, lastXid, thread>>

Reconnect(d) ==
    /\ d \in Datapaths \ dpset
    /\ dpset' = dpset \cup {d}
    /\ UNCHANGED <<waiters, lastXid, toSwitch, fromSwitch, thread>>

TakeCommand(d) ==
    /\ \E m \in toSwitch[d] :
          /\ m.kind = "command"
          /\ toSwitch' = [toSwitch EXCEPT ![d] = @ \ {m}]
    /\ UNCHANGED <<waiters, lastXid, dpset, fromSwitch, thread>>

\* The next part of the answer to request m, the last one or not.
PartOf(m, last) == [kind |-> m.kind, xid |-> m.xid, part |-> m.next, last |-> last]

Rest(m, last) == IF last THEN {} ELSE {[m EXCEPT !.next = @ + 1]}

Reply(d) ==
    /\ \E m \in toSwitch[d], last \in BOOLEAN :
          /\ m.kind # "command"
          /\ m.kind = "features" \/ m.next = MaxParts => last
          /\ fromSwitch' = [fromSwitch EXCEPT ![d] = Append(@, PartOf(m, last))]
          /\ toSwitch' = [toSwitch EXCEPT ![d] = (@ \ {m}) \cup Rest(m, last)]
    /\ UNCHANGED <<waiters, lastXid, dpset, thread>>

-----------------------------------------------------------------------------
(* OpenFlow events *)

\* Mutant of MoreToCome: the flag of another version is tested.
NoMore(m) == FALSE

\* msg.flags & flags
MoreToCome(m) == ~m.last

\* Mutant of Received: a message is put in the list by each handler.
ReceivedTwice(t, m) == msgs[t] \o <<m, m>>

\* msgs.append(msg)
Received(t, m) == Append(msgs[t], m)

\* The tests and the append that both handlers begin with.
WaitersFor(d, m) == {w \in waiters : w.dp = d /\ w.xid = m.xid}

Collect(ws, m) ==
    msgs' = [t \in Threads |->
                IF \E w \in ws : w.thread = t THEN Received(t, m) ELSE msgs[t]]

\* del self.waiters[dp.id][msg.xid]; lock.set()
Complete(ws, d, m) ==
    /\ waiters' = Forget(d, m.xid)
    /\ isSet' = [t \in Threads |-> isSet[t] \/ \E w \in ws : w.thread = t]

NextEvent(d, kind) ==
    /\ fromSwitch[d] # <<>> /\ Head(fromSwitch[d]).kind = kind
    /\ fromSwitch' = [fromSwitch EXCEPT ![d] = Tail(@)]
    /\ UNCHANGED <<lastXid, dpset, toSwitch, stage, request, seen, status>>

stats_reply_handler(d) ==
    /\ NextEvent(d, "stats")
    /\ LET m  == Head(fromSwitch[d])
           ws == WaitersFor(d, m)
       IN  /\ Collect(ws, m)
           /\ IF ws = {} \/ MoreToCome(m)
              THEN UNCHANGED <<waiters, isSet>>
              ELSE Complete(ws, d, m)

features_reply_handler(d) ==
    /\ NextEvent(d, "features")
    /\ LET m  == Head(fromSwitch[d])
           ws == WaitersFor(d, m)
       IN  /\ Collect(ws, m)
           /\ IF ws = {} THEN UNCHANGED <<waiters, isSet>> ELSE Complete(ws, d, m)

-----------------------------------------------------------------------------
Thread(t) == WaitEnds(t) \/ WaitAgain(t) \/ AnswerStats(t)

Next ==
    \/ \E t \in Threads, r \in Requests : Answer(t, r) \/ Command(t, r) \/ AskStats(t, r)
    \/ \E t \in Threads : Thread(t)
    \/ \E d \in Datapaths :
          \/ Disconnect(d) \/ Reconnect(d)
          \/ TakeCommand(d) \/ Reply(d)
          \/ stats_reply_handler(d) \/ features_reply_handler(d)

Spec == Init /\ [][Next]_vars

(***************************************************************************)
(* A wait has a timeout and the hub runs every thread that is ready.       *)
(* Nothing is assumed of the switches, nor of when requests come.          *)
(***************************************************************************)
FairSpec == Spec /\ \A t \in Threads : WF_vars(Thread(t))

-----------------------------------------------------------------------------
Kinds == {"stats", "features"}

Part == [kind : Kinds, xid : Nat, part : Nat, last : BOOLEAN]

Sending == [kind : Kinds \cup {"command"}, xid : Nat, next : Nat]

Waiter == [dp : Datapaths, xid : Nat, thread : Threads]

\* Types; a thread has counted no more messages than its list holds, and no
\* list is longer than an answer.
TypeOK ==
    /\ dpset \subseteq Datapaths
    /\ waiters \subseteq Waiter
    /\ lastXid \in [Datapaths -> Nat]
    /\ toSwitch \in [Datapaths -> SUBSET Sending]
    /\ fromSwitch \in [Datapaths -> Seq(Part)]
    /\ stage \in [Threads -> {"idle", "waiting", "woken", "done"}]
    /\ request \in [Threads -> [dp : Datapaths, xid : Nat, kind : Kinds]
                                    \cup {NoRequest}]
    /\ msgs \in [Threads -> Seq(Part)]
    /\ seen \in [Threads -> Nat]
    /\ \A t \in Threads : seen[t] <= Len(msgs[t]) /\ Len(msgs[t]) <= MaxParts
    /\ isSet \in [Threads -> BOOLEAN]
    /\ status \in [Threads -> {0, 200, 400, 404, 500, 501}]

Pending(t)    == stage[t] \in {"waiting", "woken"}
Unanswered(t) == Pending(t) /\ ~isSet[t]
WaiterOf(t)   == [dp |-> request[t].dp, xid |-> request[t].xid, thread |-> t]

(***************************************************************************)
(* self.waiters has exactly one entry for each thread that waits for an    *)
(* answer and has not got the last part, under the datapath and the xid it *)
(* asked with: no entry is left behind or taken over, and the deletion of  *)
(* a thread that gives up never meets one that a handler has deleted.      *)
(***************************************************************************)
WaitersAreWaiting == waiters = {WaiterOf(t) : t \in {u \in Threads : Unanswered(u)}}

-----------------------------------------------------------------------------
(* What WaitersAreWaiting needs to be inductive *)

ThreadTypes ==
    /\ dpset \subseteq Datapaths
    /\ lastXid \in [Datapaths -> Nat]
    /\ stage \in [Threads -> {"idle", "waiting", "woken", "done"}]
    /\ request \in [Threads -> [dp : Datapaths, xid : Nat, kind : Kinds] \cup {NoRequest}]
    /\ isSet \in [Threads -> BOOLEAN]

\* A thread that has asked nothing has no lock that could be set.
IdleIsUnset == \A t \in Threads : stage[t] = "idle" => ~isSet[t]

\* The xid of a pending thread has been taken, and by it alone.
XidsTaken ==
    \A t \in Threads : Pending(t) =>
        /\ request[t].dp \in Datapaths
        /\ request[t].xid <= lastXid[request[t].dp]

XidsUnique ==
    \A t, u \in Threads :
        /\ Pending(t) /\ Pending(u)
        /\ request[t].dp = request[u].dp
        /\ request[t].xid = request[u].xid
        => t = u

RestInv == ThreadTypes /\ IdleIsUnset /\ XidsTaken /\ XidsUnique /\ WaitersAreWaiting

-----------------------------------------------------------------------------
\* The first n parts of one answer to thread t.
InOrder(t) ==
    \A i \in DOMAIN msgs[t] :
        /\ msgs[t][i].part = i
        /\ msgs[t][i].xid = request[t].xid
        /\ msgs[t][i].kind = request[t].kind
        /\ msgs[t][i].last => i = Len(msgs[t])

(***************************************************************************)
(* A thread holds the parts of the answer to its own request, in order and *)
(* none missing, and its lock is set exactly when it holds the last one:   *)
(* what a response is made of is an answer, or the beginning of one if the *)
(* thread gave up.  No timeout lets parts of two answers get mixed.        *)
(***************************************************************************)
WholeAnswer ==
    \A t \in Threads :
        /\ InOrder(t)
        /\ isSet[t] <=> \E i \in DOMAIN msgs[t] : msgs[t][i].last

(***************************************************************************)
(* Every request for statistics is answered, though the switch may be      *)
(* silent, stop between two parts or go away.                              *)
(***************************************************************************)
EveryRequestAnswered ==
    \A t \in Threads : stage[t] = "waiting" ~> stage[t] = "done"

=============================================================================
