--------------------------- MODULE MCStatsReporter ---------------------------
(***************************************************************************)
(* One server, a client c1 without umode +o and an operator c2, a store    *)
(* that may gain permanent and temporary K- and D-lines (none of which     *)
(* bans c1 or c2, so that both keep asking), STATS requests of the K, k,   *)
(* D, d and X letters and an empty one, and a clock that may be stepped    *)
(* back by a second.  The set-back run keeps only c1 and a fixed store.    *)
(***************************************************************************)
EXTENDS StatsReporter

MCServers == {"s1"}
MCClients == {"c1", "c2"}
MCHome == [c \in MCClients |-> "s1"]
MCOpers == {"c2"}
MCLetters == {"K", "k", "D", "d", "X", "nul"}
MCSetBackClients == {"c1"}

Ip(f, a) == [fam |-> f, addr |-> a]
MCIdent ==
  [c1 |-> [user |-> "alice", host |-> "a.example", sockhost |-> "ip4-1",
           ip |-> Ip("inet", 1), info |-> "human", nick |-> "alice", exempt |-> FALSE],
   c2 |-> [user |-> "bob", host |-> "b.example", sockhost |-> "ip4-2",
           ip |-> Ip("inet", 2), info |-> "human", nick |-> "bob", exempt |-> FALSE]]

NoNet == [fam |-> "inet", addr |-> 0, bits |-> 0]
Wild(t, m, n, w) ==
  [text |-> t, kind |-> "host", net |-> NoNet, matches |-> m, nonwild |-> n, wild |-> w]
CidrMask(t, f, a, b, n) ==
  [text |-> t, kind |-> IF f = "inet" THEN "ipv4" ELSE "ipv6",
   net |-> [fam |-> f, addr |-> a, bits |-> b], matches |-> {}, nonwild |-> n, wild |-> FALSE]

UAlice == Wild("alice", {"alice"}, 5, FALSE)
HOther == Wild("c.example", {"c.example"}, 9, FALSE)
MCUserMasks == {UAlice}
MCHostMasks == {HOther, CidrMask("3/2", "inet", 3, 2, 5)}
MCKlineReqs == {<<UAlice, HOther>>}
MCDlineReqs == {CidrMask("3/2", "inet", 3, 2, 5)}
MCGecosMasks == {Wild("*bot*", {"bot", "*bot*"}, 3, TRUE)}
MCResvNames == {"nick"}
MCInitResvs == {[name |-> "nick", indb |-> TRUE]}
MCMinCidr == [f \in Families |-> 1]
=============================================================================
