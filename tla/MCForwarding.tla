----------------------------- MODULE MCForwarding -----------------------------
(* Values for the run of Forwarding: two switches, a link between their    *)
(* ports 2, and a third port on the first that a host can move to.         *)
EXTENDS Forwarding
CONSTANTS a, b

TwoHosts    == {a, b}
TwoSwitches == {1, 2}
ThreePorts  == 1 .. 3

LinkOfTwo ==
    [s \in TwoSwitches |-> [p \in ThreePorts |->
        IF p = 2 THEN [sw |-> 3 - s, port |-> 2] ELSE NoPeer]]
OneEach   == [h \in TwoHosts |-> [sw |-> IF h = a THEN 1 ELSE 2, port |-> 1]]
Straight  == [s \in TwoSwitches |-> [h \in TwoHosts |-> IF OneEach[h].sw = s THEN 1 ELSE 2]]
BothWays  == {<<a, b>>, <<b, a>>, <<b, Lldp>>}
OnlyB     == {b}
AllApps   == {"consensus", "simple", "cbench"}
=============================================================================
