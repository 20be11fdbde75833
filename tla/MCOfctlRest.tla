----------------------------- MODULE MCOfctlRest -----------------------------
(* Model values for the run of OfctlRest. *)
EXTENDS OfctlRest
CONSTANTS t1, t2, d1, d2

TwoThreads  == {t1, t2}
TwoSwitches  == {d1, d2}

\* controller.py asks for OpenFlow 1.0; ofctl_rest.py alone accepts up to 1.5.
OldAndNew == [d \in TwoSwitches |-> IF d = d1 THEN 10 ELSE 15]

LacksIn10 ==
    {"get_flow_desc", "get_table_features", "get_queue_desc", "get_meter_features",
     "get_meter_config", "get_meter_desc", "get_meter_stats", "get_group_features",
     "get_group_desc", "get_group_stats", "mod_meter_entry", "mod_group_entry",
     "set_role"}

Lacking ==
    [d \in TwoSwitches |-> IF d = d1 THEN LacksIn10 ELSE {"get_queue_config"}]

Get(res, args, d) ==
    [method |-> "GET", resource |-> res, args |-> args, dpid |-> d, body |-> "none",
     cmd |-> "none", port |-> "none", value |-> "good"]

Post(res, cmd, d, body) ==
    [method |-> "POST", resource |-> res, args |-> 0, dpid |-> d, body |-> body,
     cmd |-> cmd, port |-> "known", value |-> "good"]

\* Requests that reach a switch: some in one part, some in several.
Accepted ==
    {Get("port", 1, d1), Get("portdesc", 0, d1), Get("queue", 2, d2),
     Post("flow", "none", d2, "dict"),
     Post("flowentry", "add", d1, "dict"), Post("portdesc", "modify", d2, "dict"),
     [Get("flowentry/clear", 0, d2) EXCEPT !.method = "DELETE"]}

\* At least one for each way to be answered without a switch.
Refused ==
    {Get("switches", 0, NoDpid), Get("port", 2, d1), Get("flow", 0, UnknownDpid),
     Get("desc", 0, BadDpid), Get("meter", 0, d1), Post("flow", "none", d1, "other"),
     Post("flowentry", "add", d1, "value"), Post("flowentry", "add", NoDpid, "dict"),
     Post("meterentry", "modify_strict", d2, "dict"),
     [Post("portdesc", "modify", d1, "dict") EXCEPT !.port = "unknown"],
     [Get("port", 1, d1) EXCEPT !.value = "bad"]}

Mixed == Accepted \cup Refused
=============================================================================
