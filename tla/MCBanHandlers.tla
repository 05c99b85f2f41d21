---------------------------- MODULE MCBanHandlers ----------------------------
(***************************************************************************)
(* One server with three connection slots, checked against K-, D- and      *)
(* X-line commands and UNRESV.  Addresses are 2-bit numbers of two         *)
(* families; the masks are chosen so that CIDR nesting, family mismatch,   *)
(* host-name vs textual-address matching, wildcard minimums and duplicate  *)
(* refusal all occur.                                                      *)
(***************************************************************************)
EXTENDS BanHandlers

MCServers == {"s1"}
MCClients == {"c1", "c2"}
MCHome == [c \in MCClients |-> "s1"]

Ip(f, a) == [fam |-> f, addr |-> a]
MCIdent ==
  [c1 |-> [user |-> "alice", host |-> "a.example", sockhost |-> "ip4-1",
           ip |-> Ip("inet", 1), info |-> "bot", nick |-> "alice", exempt |-> FALSE],
   c2 |-> [user |-> "bob", host |-> "b.example", sockhost |-> "ip6-1",
           ip |-> Ip("inet6", 1), info |-> "human", nick |-> "bob", exempt |-> FALSE]]

(* Mask constructors: wildcard masks and CIDR masks.                       *)
NoNet == [fam |-> "inet", addr |-> 0, bits |-> 0]
Wild(t, m, n, w) ==
  [text |-> t, kind |-> "host", net |-> NoNet, matches |-> m, nonwild |-> n, wild |-> w]
CidrMask(t, f, a, b, n) ==
  [text |-> t, kind |-> IF f = "inet" THEN "ipv4" ELSE "ipv6",
   net |-> [fam |-> f, addr |-> a, bits |-> b], matches |-> {}, nonwild |-> n, wild |-> FALSE]

MCUserMasks == {Wild("*", {"alice", "bob"}, 0, TRUE), Wild("bob", {"bob"}, 3, FALSE)}
MCHostMasks ==
  { Wild("a.example", {"a.example"}, 9, FALSE),
    Wild("*", {"a.example", "b.example", "ip4-1", "ip4-2", "ip6-1"}, 0, TRUE),
    Wild("ip4-*", {"ip4-1", "ip4-2"}, 4, TRUE),
    CidrMask("0/1", "inet", 0, 1, 5),     \* covers inet 0 and 1
    CidrMask("0/2", "inet", 0, 2, 5),     \* covers inet 0 only
    CidrMask("0/0", "inet6", 0, 0, 5) }   \* the whole inet6 family
MCGecosMasks ==
  { Wild("*bot*", {"bot", "*bot*"}, 3, TRUE),
    Wild("*", {"bot", "human", "*bot*", "*"}, 0, TRUE) }
MCResvNames == {"#chan", "nick"}
MCInitResvs == {[name |-> "#chan", indb |-> FALSE], [name |-> "nick", indb |-> TRUE]}
MCConfKlines ==
  {[user |-> Wild("bob", {"bob"}, 3, FALSE), host |-> Wild("a.example", {"a.example"}, 9, FALSE),
    until |-> 0, indb |-> FALSE]}
UStar == Wild("*", {"alice", "bob"}, 0, TRUE)
UBob  == Wild("bob", {"bob"}, 3, FALSE)
MCKlineReqs ==
  { <<UStar, Wild("ip4-*", {"ip4-1", "ip4-2"}, 4, TRUE)>>,
    <<UBob, CidrMask("0/0", "inet6", 0, 0, 5)>> }
MCDlineReqs ==
  { CidrMask("0/1", "inet", 0, 1, 5), CidrMask("0/2", "inet", 0, 2, 5),
    Wild("a.example", {"a.example"}, 9, FALSE) }
MCMinCidr == [f \in Families |-> 1]
=============================================================================
