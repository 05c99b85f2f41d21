-------------------------------- MODULE Cidr --------------------------------
(***************************************************************************)
(* Address masks of the ban core (spec section 4.1, AddressMatcher): an    *)
(* address of one family, and a network = address plus prefix length.     *)
(* match_ipv4/match_ipv6 (hostmask.c, not part of this source tree) are    *)
(* modelled from the spec: the top `bits' bits of the two addresses are    *)
(* equal and the families agree; bits = 0 matches the whole family.        *)
(* Addresses are AddrWidth-bit numbers so that prefix arithmetic is real.  *)
(***************************************************************************)
EXTENDS Naturals, Bitwise

CONSTANT AddrWidth

ASSUME AddrWidth \in Nat \ {0}

Families == {"inet", "inet6"}
AddrVals == 0 .. (2^AddrWidth - 1)
Ips      == [fam : Families, addr : AddrVals]
Nets     == [fam : Families, addr : AddrVals, bits : 0 .. AddrWidth]

(* match_ipv4 / match_ipv6: compare the addresses shifted right by the     *)
(* number of host bits.                                                    *)
MatchIp(ip, net) ==
  /\ ip.fam = net.fam
  /\ shiftR(ip.addr, AddrWidth - net.bits) = shiftR(net.addr, AddrWidth - net.bits)

(* The addresses a network covers.                                         *)
NetRange(net) == {ip \in Ips : MatchIp(ip, net)}

=============================================================================
