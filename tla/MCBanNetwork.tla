---------------------------- MODULE MCBanNetwork ----------------------------
(***************************************************************************)
(* Three servers linked in a line s1 - s2 - s3, one client on s1.  s3     *)
(* does not advertise DLN, so D-lines stop at s2; s2 trusts s1 for every  *)
(* command, s3 trusts s1 for K-lines and UNRESV only.  s1 has cluster{}    *)
(* blocks sending K-lines to s2 and s3 and UNRESV to s3.                   *)
(***************************************************************************)
EXTENDS BanNetwork

MCServers == {"s1", "s2", "s3"}
MCLinks == {{"s1", "s2"}, {"s2", "s3"}}
MCClients == {"c1"}
MCHome == [c \in MCClients |-> "s1"]
MCIdent ==
  [c1 |-> [user |-> "alice", host |-> "a.example", sockhost |-> "ip4-1",
           ip |-> [fam |-> "inet", addr |-> 1], info |-> "bot",
           nick |-> "alice", exempt |-> FALSE]]

NoNet == [fam |-> "inet", addr |-> 0, bits |-> 0]
Wild(t, m, n, w) ==
  [text |-> t, kind |-> "host", net |-> NoNet, matches |-> m, nonwild |-> n, wild |-> w]
CidrMask(t, f, a, b, n) ==
  [text |-> t, kind |-> IF f = "inet" THEN "ipv4" ELSE "ipv6",
   net |-> [fam |-> f, addr |-> a, bits |-> b], matches |-> {}, nonwild |-> n, wild |-> FALSE]

UStar == Wild("*", {"alice"}, 0, TRUE)
HIp4 == Wild("ip4-*", {"ip4-1"}, 4, TRUE)
HStar == Wild("*", {"a.example", "ip4-1"}, 0, TRUE)
D01 == CidrMask("0/1", "inet", 0, 1, 5)
NickAlice == Wild("alice", {}, 5, FALSE)   \* a nick: parse_netmask says HM_HOST

MCUserMasks == {UStar}
MCHostMasks == {HIp4, HStar, D01}
MCKlineReqs == {<<UStar, HIp4>>, <<UStar, HStar>>}
MCDlineReqs == {D01, NickAlice}
MCGecosMasks == {Wild("*bot*", {"bot", "*bot*"}, 3, TRUE)}
MCResvNames == {"nick"}
MCInitResvs == {[name |-> "nick", indb |-> TRUE]}
MCMinCidr == [f \in Families |-> 1]

All == {"s1", "s2", "s3"}
MCTargets == {{"s3"}, All}
MCCapabOf == [s1 |-> {"KLN", "DLN", "CLUSTER"}, s2 |-> {"KLN", "DLN", "CLUSTER"},
              s3 |-> {"KLN", "CLUSTER"}]
(* s2 advertises CLUSTER but not KLN (an older or differently built peer). *)
MCCapabNoKln == [s1 |-> {"KLN", "DLN", "CLUSTER"}, s2 |-> {"DLN", "CLUSTER"},
                 s3 |-> {"KLN", "CLUSTER"}]
MCShared ==
  [s1 |-> {},
   s2 |-> {[server |-> "s1", cmd |-> c] : c \in Cmds},
   s3 |-> {[server |-> "s1", cmd |-> "KLINE"], [server |-> "s1", cmd |-> "UNRESV"]}]
MCCluster ==
  [s1 |-> {[target |-> All, cmd |-> "KLINE"], [target |-> {"s3"}, cmd |-> "UNRESV"]},
   s2 |-> {}, s3 |-> {}]
=============================================================================
