-------------------------- MODULE MCEventScheduler --------------------------
(* A recurring event with the 60-second period of cleanup_tklines scaled   *)
(* down to 6, a recurring event of period 2 and a one-shot event whose    *)
(* handler cancels it.                                                     *)
EXTENDS EventScheduler

MCEvents == {"cleanup", "often", "once"}
MCPeriod == [cleanup |-> 6, often |-> 2, once |-> 1]
MCOneshot == [cleanup |-> FALSE, often |-> FALSE, once |-> TRUE]
MCCancels == [cleanup |-> {}, often |-> {}, once |-> {"often"}]
====
