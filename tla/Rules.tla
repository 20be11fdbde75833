-------------------------------- MODULE Rules --------------------------------
(***************************************************************************)
(* A request for consensus, from the controller that builds it to the VNF  *)
(* manager that reads it back.                                             *)
(*                                                                         *)
(* _packet_in_handler() sends  rule # host,  where rule is the text made   *)
(* by build_rule() and host the last octet of the controller's address.    *)
(* Only the numbers in that text vary in width: two port numbers and the   *)
(* host (a MAC address is always 17 characters, and build_rule() never     *)
(* writes a dpid of two digits).  submit_manager() in the learner forwards *)
(* the first FrameSize bytes of a delivered value, whatever its length.    *)
(* What the manager reads is therefore decided by lengths, and those are   *)
(* modelled; the text is not.                                              *)
(***************************************************************************)
EXTENDS Integers

CONSTANTS Macs,      \* the MAC addresses that occur
          PortNos,   \* the OpenFlow port numbers that occur
          Dpids      \* the datapath identifiers that occur

ASSUME RulesAssumption ==
    /\ PortNos \subseteq 1 .. 65535
    /\ Dpids \subseteq Nat

\* Width of "%d" for the numbers that occur (a port has at most 5 digits).
Digits(n) ==
    IF n < 10 THEN 1 ELSE IF n < 100 THEN 2
    ELSE IF n < 1000 THEN 3 ELSE IF n < 10000 THEN 4 ELSE 5

\* build_rule() replaces a datapath id of two or more digits by 1.
RuleDpid(dpid) == IF Digits(dpid) >= 2 THEN 1 ELSE dpid

Rule == [dpid : Dpids \cup {1}, in_port : PortNos, dl_dst : Macs, out_port : PortNos]

BuildRule(dpid, inPort, outPort, dst) ==
    [dpid |-> RuleDpid(dpid), in_port |-> inPort, dl_dst |-> dst, out_port |-> outPort]

\* Characters of rule#host that do not depend on the numbers: the literals
\* of build_rule(), its quotes, the MAC address, the one digit of the dpid
\* and the '#'.
FixedPart == 176

MessageLength(rule, host) ==
    FixedPart + Digits(rule.in_port) + Digits(rule.out_port) + Digits(host)

\* submit_manager() writes 179 bytes and mainloop() reads 179 bytes.
FrameWithoutHost == 178
FrameSize        == 179

\* How many characters of rule#host the learner leaves out.
Cut(rule, host) == MessageLength(rule, host) - FrameSize

\* The host of a frame whose text cannot be split into a rule and a number.
NoHost == -1

(***************************************************************************)
(* What handle_request() finds after the '#' of a frame: the leading       *)
(* digits of the host that are left; split() or int() raises ValueError    *)
(* when none is.                                                           *)
(***************************************************************************)
FrameHost(rule, host) ==
    IF Cut(rule, host) >= Digits(host) THEN NoHost
    ELSE IF Cut(rule, host) = 0 THEN host
    ELSE IF Cut(rule, host) = 1 THEN host \div 10 ELSE host \div 100

(***************************************************************************)
(* command_method() reads the body of POST /stats/flowentry/add with       *)
(* ast.literal_eval().  The text of build_rule() is enclosed in single     *)
(* quotes, which handle_request() passes on, so the value is a string and  *)
(* body.get raises AttributeError outside of any try: status 500.          *)
(***************************************************************************)
QuotedByBuildRule == TRUE
LiteralEvalKind   == IF QuotedByBuildRule THEN "str" ELSE "dict"
FlowAddStatus     == IF LiteralEvalKind = "dict" THEN 200 ELSE 500
=============================================================================
