---------------------------- MODULE MCExpiryLoop ----------------------------
(***************************************************************************)
(* One server and one connection slot; the store may gain a temporary      *)
(* K-line that bans the client and a temporary D-line that does not.  The  *)
(* cleanup event has its 60-second period scaled down to 3 (2 or 3 after  *)
(* jitter); a recurring event and a one-shot event, both of period 2,    *)
(* share the list with it.  The one-shot handler cancels the recurring    *)
(* event; the recurring handler cancels itself (which event_run undoes).   *)
(***************************************************************************)
EXTENDS ExpiryLoop

MCServers == {"s1"}
MCClients == {"c1"}
MCHome == [c \in MCClients |-> "s1"]
MCIdent ==
  [c1 |-> [user |-> "alice", host |-> "a.example", sockhost |-> "ip4-1",
           ip |-> [fam |-> "inet", addr |-> 1], info |-> "bot", nick |-> "alice", exempt |-> FALSE]]

NoNet == [fam |-> "inet", addr |-> 0, bits |-> 0]
UStar == [text |-> "*", kind |-> "host", net |-> NoNet, matches |-> {"alice"}, nonwild |-> 0, wild |-> TRUE]
HIp4 == [text |-> "ip4-*", kind |-> "host", net |-> NoNet, matches |-> {"ip4-1"}, nonwild |-> 4, wild |-> TRUE]
D21 == [text |-> "2/1", kind |-> "ipv4", net |-> [fam |-> "inet", addr |-> 2, bits |-> 1],
        matches |-> {}, nonwild |-> 5, wild |-> FALSE]

MCUserMasks == {UStar}
MCHostMasks == {HIp4, D21}
MCKlineReqs == {<<UStar, HIp4>>}
MCDlineReqs == {D21}
MCMinCidr == [f \in Families |-> 1]

MCEvents == {"cleanup", "often", "once"}
MCPeriod == [cleanup |-> 3, often |-> 2, once |-> 2]
MCOneshot == [cleanup |-> FALSE, often |-> FALSE, once |-> TRUE]
MCCancels == [cleanup |-> {}, often |-> {"often"}, once |-> {"often"}]
=============================================================================
