------------------------------- MODULE Domain -------------------------------
(***************************************************************************)
(* How the controllers are divided among the VNFs.                         *)
(*                                                                         *)
(* network.py (class Network) numbers the containers by the last octet of  *)
(* their address in 172.17.0.0/24: the controllers come first, from host   *)
(* 2, the VNFs follow.  build_domain() cuts the list of controllers into   *)
(* consecutive slices, print_domain() writes one line "vnf controller" per *)
(* pair to the file `domain', and the two readers of that file are         *)
(* get_vnf() in a controller and get_domain() in a VNF manager.            *)
(*                                                                         *)
(* nc and nv are the numbers of controllers and of VNFs given on the       *)
(* command line.  A VNF is named by its index 0 .. nv-1 in Network.vnfs.   *)
(***************************************************************************)
EXTENDS Integers, FiniteSets

CtlHostBase == 2

\* Last octets of Network.controllers and of Network.vnfs.
ControllerHosts(nc) == CtlHostBase .. nc + 1
VnfHost(nc, i)      == nc + 2 + i
VnfIds(nv)          == 0 .. nv - 1

\* The same without the controllers that the division leaves over.
WholeSlices(nc, nv, i) == i * (nc \div nv)

\* First index of slice i: i * num_conn + min(i, remainder_conn).
SliceStart(nc, nv, i) ==
    i * (nc \div nv) + (IF i <= nc % nv THEN i ELSE nc % nv)

\* sub_domains[i], as the set of hosts of its controllers.
SubDomain(nc, nv, i) ==
    CtlHostBase + SliceStart(nc, nv, i) .. CtlHostBase + SliceStart(nc, nv, i + 1) - 1

(***************************************************************************)
(* The lines of the file `domain'.  print_domain() walks a Python 2        *)
(* dictionary, so the order of the VNFs in the file is arbitrary; a        *)
(* controller is on one line, so the set of lines decides what a reader    *)
(* that finds its own line gets.                                           *)
(***************************************************************************)
DomainFile(nc, nv) ==
    { l \in VnfIds(nv) \X ControllerHosts(nc) : l[2] \in SubDomain(nc, nv, l[1]) }

\* get_vnf(): the VNFs a host can be sent to.  The loop leaves `vnf' at the
\* last line when no line names the host, and that line is any VNF's.
GetVnf(nc, nv, host) ==
    LET own == { l[1] : l \in { k \in DomainFile(nc, nv) : k[2] = host } }
    IN  IF own # {} THEN own ELSE { l[1] : l \in DomainFile(nc, nv) }

\* get_domain(): range(min(vnf_domain), max(vnf_domain) + 1).  With no line
\* for the VNF, min() raises ValueError: HasDomain tells the two apart.
HasDomain(nc, nv, i) == \E l \in DomainFile(nc, nv) : l[1] = i

GetDomain(nc, nv, i) ==
    LET hosts == { l[2] : l \in { k \in DomainFile(nc, nv) : k[1] = i } }
    IN  { h \in ControllerHosts(nc) : \E a, b \in hosts : a <= h /\ h <= b }
=============================================================================
