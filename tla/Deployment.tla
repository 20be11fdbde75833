------------------------------ MODULE Deployment ------------------------------
(***************************************************************************)
(* How a network comes up.  network.py writes two files, the domains of    *)
(* the VNFs and the configuration of libpaxos, then runs one container a   *)
(* controller and one a VNF without knowing what address each gets.  (At   *)
(* the modelled commit main calls exit() between the two; the module has   *)
(* what the methods of Network do when main goes on.)                      *)
(*                                                                         *)
(* controller.sh and vnf-manager.sh are the same script.  Every container  *)
(* runs ryu-manager in the background, which reads in the domain file what *)
(* VNF to connect to, and vnf-manager.py in the foreground, which reads    *)
(* there what controllers it manages.  So it is the address that makes a   *)
(* container a controller or a VNF; where vnf-manager.py finds no          *)
(* controller for its address it ends, and the container with it.          *)
(*                                                                         *)
(* Ctrl-C on the terminal of a container, a controller's or a VNF's, ends  *)
(* vnf-manager.py, and so the container: its address is free for one that  *)
(* starts later.                                                           *)
(*                                                                         *)
(* Docker is external: it starts the containers in any order and gives     *)
(* each the lowest address that no running container has.  Containers      *)
(* being alike, each is named by its address, host h of 172.17.0.0/24.     *)
(***************************************************************************)
EXTENDS Domain, Sequences, SequencesExt, Functions

CONSTANTS
    MaxCtls, MaxVnfs,   \* bounds on the arguments of network.py
    MaxInterrupts       \* bound: containers where Ctrl-C is pressed

ASSUME DeploymentAssumption ==
    MaxCtls \in Nat \ {0} /\ MaxVnfs \in Nat \ {0} /\ MaxInterrupts \in Nat

VARIABLES
    numCtls, numVnfs,   \* arguments of network.py
    main,               \* where network.py is
    file,               \* the lines of the file `domain'
    launched,           \* calls of docker run
    started,            \* containers that Docker has started
    phase,              \* phase[h]: how far vnf-manager.py of host h is, or "off"
    toVnf,              \* toVnf[h]: self.vnf of ryu-manager on host h
    connected,          \* connected[h]: it has connected to that VNF
    domain,             \* domain[h]: self.domain of vnf-manager.py on host h
    acceptor,           \* acceptor[h]: the id the acceptor was started with
    ended,              \* hosts whose container has ended by itself
    interrupted,        \* hosts where Ctrl-C was pressed
    interrupts          \* how many times it was

net  == <<numCtls, numVnfs, main, file, launched>>
ends == <<ended, interrupted, interrupts>>
vars == <<net, started, phase, toVnf, connected, domain, acceptor, ends>>

Hosts  == CtlHostBase .. CtlHostBase + MaxCtls + MaxVnfs - 1
NoHost == 0
NoId   == -1

Init ==
    /\ numCtls \in 1 .. MaxCtls
    /\ numVnfs \in 1 .. MaxVnfs
    /\ main = "print"
    /\ file = <<>>
    /\ launched = 0
    /\ started = 0
    /\ phase = [h \in Hosts |-> "off"]
    /\ toVnf = [h \in Hosts |-> NoHost]
    /\ connected = [h \in Hosts |-> FALSE]
    /\ domain = [h \in Hosts |-> {}]
    /\ acceptor = [h \in Hosts |-> NoId]
    /\ ended = {}
    /\ interrupted = {}
    /\ interrupts = 0

Running(h) == phase[h] # "off"

-----------------------------------------------------------------------------
(* network.py *)

\* The lines of VNF i.
LinesOf(i) ==
    LET first == CtlHostBase + SliceStart(numCtls, numVnfs, i)
    IN  [n \in 1 .. Cardinality(SubDomain(numCtls, numVnfs, i)) |->
            [vnf |-> VnfHost(numCtls, i), ctl |-> first + n - 1]]

\* print_domain() goes through a dictionary, in whatever order it has.
PrintDomain ==
    /\ main = "print"
    /\ \E order \in [1 .. numVnfs -> VnfIds(numVnfs)] :
          /\ IsInjective(order)
          /\ file' = FlattenSeq([n \in 1 .. numVnfs |-> LinesOf(order[n])])
    /\ main' = "running"
    /\ UNCHANGED <<numCtls, numVnfs, launched, started, phase, toVnf, connected,
                   domain, acceptor, ends>>

\* Mutant of ToLaunch: one container more than there are addresses.
OneMore == numCtls + numVnfs + 1

ToLaunch == numCtls + numVnfs

\* run_controllers(), then run_paxos(): the next docker run.
RunContainer ==
    /\ main = "running"
    /\ launched < ToLaunch
    /\ launched' = launched + 1
    /\ UNCHANGED <<numCtls, numVnfs, main, file, started, phase, toVnf, connected,
                   domain, acceptor, ends>>

\* What a host loses with its containers.
Clear(gone) ==
    /\ phase' = [h \in Hosts |-> IF h \in gone THEN "off" ELSE phase[h]]
    /\ toVnf' = [h \in Hosts |-> IF h \in gone THEN NoHost ELSE toVnf[h]]
    /\ connected' = [h \in Hosts |-> h \notin gone /\ connected[h]]
    /\ domain' = [h \in Hosts |-> IF h \in gone THEN {} ELSE domain[h]]
    /\ acceptor' = [h \in Hosts |-> IF h \in gone THEN NoId ELSE acceptor[h]]

\* stop_network(), on SIGINT: the containers that there are stop; one that
\* Docker has not started yet still may.
StopNetwork ==
    /\ main = "running"
    /\ main' = "interrupted"
    /\ Clear(Hosts)
    /\ interrupted' = {}
    /\ UNCHANGED <<numCtls, numVnfs, file, launched, started, ended, interrupts>>

\* Docker starts a container.
LowestFree ==
    CHOOSE h \in Hosts : ~Running(h) /\ \A g \in CtlHostBase .. h - 1 : Running(g)

StartContainer ==
    /\ started < launched
    /\ started' = started + 1
    /\ phase' = [phase EXCEPT ![LowestFree] = "started"]
    /\ UNCHANGED <<net, toVnf, connected, domain, acceptor, ends>>

-----------------------------------------------------------------------------
(* ryu-manager, on host h. *)

\* get_vnf(): the loop breaks at the first line of the host; without one it
\* leaves the VNF of the last line.
LastController(h) == file[Len(file)].ctl
LastVnf(h)        == file[Len(file)].vnf
ReadVnf(h) ==
    IF \E n \in DOMAIN file : file[n].ctl = h
    THEN LET n == CHOOSE n \in DOMAIN file :
                      file[n].ctl = h /\ \A m \in 1 .. n - 1 : file[m].ctl # h
         IN  file[n].vnf
    ELSE LastVnf(h)

FindVnf(h) ==
    /\ Running(h)
    /\ toVnf[h] = NoHost
    /\ toVnf' = [toVnf EXCEPT ![h] = ReadVnf(h)]
    /\ UNCHANGED <<net, started, phase, connected, domain, acceptor, ends>>

\* The loop of __init__(), until a client listens at the VNF's address.
Connect(h) ==
    /\ Running(h)
    /\ toVnf[h] # NoHost
    /\ ~connected[h]
    /\ phase[toVnf[h]] = "client"
    /\ connected' = [connected EXCEPT ![h] = TRUE]
    /\ UNCHANGED <<net, started, phase, toVnf, domain, acceptor, ends>>

-----------------------------------------------------------------------------
(* vnf-manager.py, on host h. *)

\* The controllers on the lines of a VNF.
VnfsOf(h)  == { file[n].vnf : n \in { m \in DOMAIN file : file[m].ctl = h } }
HostsOf(h) == { file[n].ctl : n \in { m \in DOMAIN file : file[m].vnf = h } }

\* get_domain(): range(min, max + 1).
UpToLast(hosts) == { g \in ControllerHosts(numCtls) : \E a, b \in hosts : a <= g /\ g < b }
Span(hosts)     == { g \in ControllerHosts(numCtls) : \E a, b \in hosts : a <= g /\ g <= b }

FindDomain(h) ==
    /\ phase[h] = "started"
    /\ HostsOf(h) # {}
    /\ domain' = [domain EXCEPT ![h] = Span(HostsOf(h))]
    /\ phase' = [phase EXCEPT ![h] = "listening"]
    /\ UNCHANGED <<net, started, toVnf, connected, acceptor, ends>>

\* ... where min() raises ValueError, the script ends and Docker stops the
\* container, ryu-manager included.
NoDomain(h) ==
    /\ phase[h] = "started"
    /\ HostsOf(h) = {}
    /\ Clear({h})
    /\ ended' = ended \cup {h}
    /\ UNCHANGED <<net, started, interrupted, interrupts>>

\* create_paxos_conf() writes one line per VNF, in order; execute_roles()
\* keeps the id of the line where its loop breaks, or of the last line.
LastId(h)     == numVnfs - 1
AcceptorId(h) ==
    IF \E i \in VnfIds(numVnfs) : VnfHost(numCtls, i) = h
    THEN CHOOSE i \in VnfIds(numVnfs) : VnfHost(numCtls, i) = h
    ELSE LastId(h)

\* execute_roles(): acceptor and learner, and the proposer on the first VNF.
RunServers(h) ==
    /\ phase[h] = "listening"
    /\ acceptor' = [acceptor EXCEPT ![h] = AcceptorId(h)]
    /\ phase' = [phase EXCEPT ![h] = "servers"]
    /\ UNCHANGED <<net, started, toVnf, connected, domain, ends>>

\* ... and a second later the client.
RunClient(h) ==
    /\ phase[h] = "servers"
    /\ phase' = [phase EXCEPT ![h] = "client"]
    /\ UNCHANGED <<net, started, toVnf, connected, domain, acceptor, ends>>

-----------------------------------------------------------------------------
(* Ctrl-C on the terminal of host h.  vnf-manager.py and the roles, which  *)
(* are one process group, get SIGINT; ryu-manager, in the background, does *)
(* not.  The first thing that terminate() kills is vnf-manager.py itself:  *)
(* the roles get nothing from it.                                          *)

Interrupt(h) ==
    /\ Running(h)
    /\ h \notin interrupted
    /\ interrupts < MaxInterrupts
    /\ interrupts' = interrupts + 1
    /\ interrupted' = interrupted \cup {h}
    /\ UNCHANGED <<net, started, phase, toVnf, connected, domain, acceptor, ended>>

\* handle_sigint() of client-paxos-vnf.c.
ClientEnds(h) ==
    /\ h \in interrupted
    /\ phase[h] = "client"
    /\ phase' = [phase EXCEPT ![h] = "servers"]
    /\ UNCHANGED <<net, started, toVnf, connected, domain, acceptor, ends>>

\* handle_sigint() of acceptor.c.
AcceptorEnds(h) ==
    /\ h \in interrupted
    /\ acceptor[h] # NoId
    /\ acceptor' = [acceptor EXCEPT ![h] = NoId]
    /\ UNCHANGED <<net, started, phase, toVnf, connected, domain, ends>>

\* Mutant of ContainerEnds: the script waits for ryu-manager, which ends only
\* where it has not come up.
ScriptWaitsForRyu(h) ==
    /\ h \in interrupted
    /\ toVnf[h] = NoHost
    /\ Clear({h})
    /\ interrupted' = interrupted \ {h}
    /\ UNCHANGED <<net, started, ended, interrupts>>

\* The script was waiting for vnf-manager.py: the container ends, and its
\* address is free.
ContainerEnds(h) ==
    /\ h \in interrupted
    /\ Clear({h})
    /\ interrupted' = interrupted \ {h}
    /\ UNCHANGED <<net, started, ended, interrupts>>

-----------------------------------------------------------------------------
ManagerNext(h) ==
    /\ h \notin interrupted
    /\ FindDomain(h) \/ NoDomain(h) \/ RunServers(h) \/ RunClient(h)

Next ==
    \/ PrintDomain \/ RunContainer \/ StopNetwork \/ StartContainer
    \/ \E h \in Hosts :
          \/ FindVnf(h) \/ Connect(h) \/ ManagerNext(h)
          \/ Interrupt(h) \/ ClientEnds(h) \/ AcceptorEnds(h) \/ ContainerEnds(h)

Spec == Init /\ [][Next]_vars

\* network.py, Docker and the script of a container run on until they wait.
\* Nobody has to stop the network or press Ctrl-C, and where somebody does
\* nothing is asked of the roles: the signal may be for vnf-manager.py alone.
Fairness ==
    /\ WF_vars(PrintDomain \/ RunContainer) /\ WF_vars(StartContainer)
    /\ \A h \in Hosts : WF_vars(ManagerNext(h) \/ ContainerEnds(h))

FairSpec == Spec /\ Fairness

-----------------------------------------------------------------------------
(* Properties. *)

VnfHosts == { VnfHost(numCtls, i) : i \in VnfIds(numVnfs) }

\* Type invariant.
TypeOK ==
    /\ numCtls \in 1 .. MaxCtls /\ numVnfs \in 1 .. MaxVnfs
    /\ main \in {"print", "running", "interrupted"}
    /\ \A n \in DOMAIN file :
          file[n].vnf \in VnfHosts /\ file[n].ctl \in ControllerHosts(numCtls)
    /\ launched \in 0 .. ToLaunch /\ started \in 0 .. launched
    /\ phase \in [Hosts -> {"off", "started", "listening", "servers", "client"}]
    /\ toVnf \in [Hosts -> VnfHosts \cup {NoHost}]
    /\ connected \in [Hosts -> BOOLEAN]
    /\ domain \in [Hosts -> SUBSET ControllerHosts(numCtls)]
    /\ acceptor \in [Hosts -> VnfIds(numVnfs) \cup {NoId}]
    /\ ended \subseteq Hosts /\ interrupted \subseteq Hosts
    /\ interrupts \in Cardinality(interrupted) .. MaxInterrupts

\* The two readers of the domain file agree, whatever the order of its lines:
\* a controller sends its requests to the VNF whose manager posts its rules,
\* and to no other.
PairedUp ==
    \A h \in ControllerHosts(numCtls), v \in VnfHosts :
        toVnf[h] # NoHost /\ domain[v] # {} => (toVnf[h] = v <=> h \in domain[v])

\* build_domain() gives each controller to one VNF, and no VNF two more
\* controllers than another.
EvenlyDivided ==
    main # "print" =>
        /\ \A h \in ControllerHosts(numCtls) :
              Cardinality({ n \in DOMAIN file : file[n].ctl = h }) = 1
        /\ \A v, w \in VnfHosts : Cardinality(HostsOf(v)) <= Cardinality(HostsOf(w)) + 1

\* paxos.conf.example: "Ids must start from 0 and must be unique."  Acceptors
\* that run at the same time have different ids, whatever containers have
\* ended and had their addresses given to others.
UniqueAcceptors ==
    \A g, h \in Hosts : acceptor[g] # NoId /\ acceptor[g] = acceptor[h] => g = h

\* Network.__init__() works out the addresses of all containers, and
\* print_domain() and create_paxos_conf() write them down, before there is
\* one.  None ever has another address, whatever containers have ended and
\* been stopped: there are never more at a time than it has run.
AddressesForeseen ==
    \A h \in Hosts : Running(h) => h \in ControllerHosts(numCtls) \cup VnfHosts

\* Where there is a controller for each VNF, a container that runs at the
\* address of a VNF, the first there or one that got it from another, comes to
\* run its client unless Ctrl-C ends it first: again and again no such container
\* is without, and none has ended by itself.  That there is such a container is
\* not claimed: each may be given the address of a controller, end there and
\* free it for the next one.
RunningVnfsServe ==
    []<> (numVnfs <= numCtls /\ main # "interrupted" =>
             \A h \in VnfHosts : h \notin ended /\ (Running(h) => phase[h] = "client"))

\* terminate(): "On Keyboard Interrupt, kill remaining processes."  It gets no
\* further than itself; yet no acceptor or client is left for good, to vote or
\* to take connections without a manager: again and again there is none.
NoneLeftBehind ==
    []<> (\A h \in interrupted : acceptor[h] = NoId /\ phase[h] # "client")

\* run_controllers(): "Create a docker container for each controller and
\* execute them."  The container of a controller does not end by itself.
ControllersStay == ended \cap ControllerHosts(numCtls) = {}
=============================================================================
