----------------------------- MODULE OrderedRules -----------------------------
(***************************************************************************)
(* What the consensus of the VNFs promises to the controllers.             *)
(*                                                                         *)
(* The rules that the controllers ask for are put into one sequence, each  *)
(* controller's in the order it asked for them and none left out.  Every   *)
(* VNF manager goes through that same sequence, and the one manager in     *)
(* charge of the controller that asked for a rule posts it, once, to that  *)
(* controller.                                                             *)
(***************************************************************************)
EXTENDS Naturals, Sequences

CONSTANTS Ctls,       \* controllers
          Vnfs,       \* VNFs
          InCharge,   \* InCharge[c]: the VNF that manages controller c
          Rules,      \* rules a controller may ask for
          Statuses    \* answers a controller may give to a post

VARIABLES requests,   \* requests[c]: what c asked for, in order
          log,        \* the sequence agreed on
          applied,    \* applied[v]: what manager v has gone through
          posted      \* posted[v]: what manager v has posted

vars == <<requests, log, applied, posted>>

Init ==
    /\ requests = [c \in Ctls |-> <<>>]
    /\ log = <<>>
    /\ applied = [v \in Vnfs |-> <<>>]
    /\ posted = [v \in Vnfs |-> {}]

Request(c) ==
    /\ \E r \in Rules :
          requests' = [requests EXCEPT
              ![c] = Append(@, [rule |-> r, host |-> c, seq |-> Len(@) + 1])]
    /\ UNCHANGED <<log, applied, posted>>

InLog(m) == \E i \in DOMAIN log : log[i] = m

\* The first request of c that is not in the log enters it.
Decide(c) ==
    /\ \E n \in DOMAIN requests[c] :
          /\ ~ InLog(requests[c][n])
          /\ n > 1 => InLog(requests[c][n - 1])
          /\ log' = Append(log, requests[c][n])
    /\ UNCHANGED <<requests, applied, posted>>

Apply(v) ==
    /\ Len(applied[v]) < Len(log)
    /\ applied' = [applied EXCEPT ![v] = Append(@, log[Len(@) + 1])]
    /\ UNCHANGED <<requests, log, posted>>

\* The last rule applied is posted, before the next one is looked at.
Post(v) ==
    LET i == Len(applied[v])
    IN  /\ i > 0
        /\ InCharge[log[i].host] = v
        /\ \A e \in posted[v] : e.iid # i
        /\ \E s \in Statuses :
              posted' = [posted EXCEPT
                  ![v] = @ \cup {[iid |-> i, host |-> log[i].host, status |-> s]}]
        /\ UNCHANGED <<requests, log, applied>>

Next ==
    \/ \E c \in Ctls : Request(c) \/ Decide(c)
    \/ \E v \in Vnfs : Apply(v) \/ Post(v)

Spec == Init /\ [][Next]_vars
=============================================================================
