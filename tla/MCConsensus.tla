----------------------------- MODULE MCConsensus -----------------------------
(* Model values for the runs of Consensus. *)
EXTENDS Consensus
CONSTANTS A, B

TwoMacs == {A, B}
OneDpid == {1}
Ports   == {1, 2}
WidePorts == {1, 2, 10}

\* A talks to B and B to A: the second packet is the first to a known address.
AtoB == [dpid |-> 1, in_port |-> 1, src |-> A, dst |-> B]
BtoA == [dpid |-> 1, in_port |-> 2, src |-> B, dst |-> A]
Talk == {AtoB, BtoA}

\* B may also be at a port of two digits.
WideTalk == Talk \cup {[BtoA EXCEPT !.in_port = 10]}

\* A station that tests its link sends frames to its own address: each makes
\* the controller ask for a rule.
Loopback == {[dpid |-> 1, in_port |-> 1, src |-> A, dst |-> A]}
=============================================================================
