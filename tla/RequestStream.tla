---------------------------- MODULE RequestStream ----------------------------
(***************************************************************************)
(* What the connections between the controllers and the libpaxos client of *)
(* a VNF promise: whatever TCP does to the bytes, the client submits to    *)
(* the proposer, for each connection, the requests written to it, whole,   *)
(* each once and in the order they were written.  A connection may stop    *)
(* anywhere; what was not received by then is lost.                        *)
(***************************************************************************)
EXTENDS Naturals, Sequences, FiniteSets

CONSTANTS Conns,      \* the connections a client has accepted
          Payloads    \* the requests that may be written

VARIABLES sent,       \* sent[c]: the requests written to connection c
          received    \* the requests submitted, with their connections

vars == <<sent, received>>

NumReceived(c) == Cardinality({ j \in DOMAIN received : received[j].conn = c })

Init ==
    /\ sent = [c \in Conns |-> <<>>]
    /\ received = <<>>

Write(c) ==
    /\ \E p \in Payloads : sent' = [sent EXCEPT ![c] = Append(@, p)]
    /\ UNCHANGED received

Receive(c) ==
    /\ NumReceived(c) < Len(sent[c])
    /\ received' = Append(received,
                          [conn |-> c, value |-> sent[c][NumReceived(c) + 1]])
    /\ UNCHANGED sent

Next == \E c \in Conns : Write(c) \/ Receive(c)

Spec == Init /\ [][Next]_vars
=============================================================================
