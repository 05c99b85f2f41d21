----------------------------- MODULE BanNetwork -----------------------------
(***************************************************************************)
(* Propagation of KLINE, DLINE, XLINE and UNRESV across a tree of linked   *)
(* servers: the operator handlers mo_kline, mo_dline, mo_xline, mo_unresv  *)
(* and the server handlers ms_kline, ms_dline, ms_xline, ms_unresv, each   *)
(* composed with the store handler of BanHandlers it ends in.              *)
(*                                                                         *)
(* sendto_match_servs, cluster_distribute and shared_find (send.c,         *)
(* conf_cluster.c, conf_shared.c: not in this source tree) are modelled    *)
(* from the spec.  Each directed link is a FIFO channel.  A link may split *)
(* (at most MaxSplits times, and it stays down): what is queued on it in  *)
(* either direction is lost, nothing is re-sent (spec 5: fire-and-forget), *)
(* and the servers beyond it leave the server list sendto_match_servs     *)
(* walks.  A target mask is represented by the                             *)
(* set of server names it matches.  Every command is issued by a local     *)
(* operator holding the privilege for it (the refusal without it changes   *)
(* nothing); no server in the tree is a services server.                   *)
(***************************************************************************)
EXTENDS BanHandlers, Sequences, FiniteSetsExt

CONSTANTS
  Links,        \* the server links: a set of two-element sets forming a tree
  CapabOf,      \* Servers -> capabilities the server advertises on its links
  Shared,       \* Servers -> set of [server, cmd] its shared{} blocks accept
  Cluster,      \* Servers -> set of [target, cmd] of its cluster{} blocks
  Targets,      \* the target-server masks (sets of server names) opers use
  NoTarget,     \* a command given without ON <server>
  MaxCmds,      \* bound on the number of operator commands
  MaxSplits     \* bound on the number of link splits

Cmds == {"KLINE", "DLINE", "XLINE", "UNRESV"}

(* The capability each handler passes to sendto_match_servs when relaying. *)
RelayCap == [KLINE |-> "KLN", DLINE |-> "DLN", XLINE |-> "CLUSTER", UNRESV |-> "CLUSTER"]

(* The capability each mo_ handler passes to cluster_distribute.           *)
ClusterCap == [KLINE |-> "KLN", DLINE |-> "DLN", XLINE |-> "CLUSTER", UNRESV |-> "KLN"]

VARIABLES
  chan,     \* chan[<<s, t>>]: messages sent by s to t, not yet read by t
  floods,   \* history: every flood started by an operator command
  got,      \* history: got[s] = ids of the floods s has read
  ncmd,     \* number of operator commands issued so far
  down      \* the links that have split

netVars == <<chan, floods, got, ncmd, down>>
allVars == <<vars, chan, floods, got, ncmd, down>>

Channels == {<<s, t>> \in Servers \X Servers : {s, t} \in Links}

(* The neighbors of s over the links in L, and the servers reached from s  *)
(* through neighbor n over them (n's side of the tree).                    *)
NeighborsIn(L, s) == {t \in Servers : {s, t} \in L}
BehindIn(L, s, n) ==
  LET RECURSIVE Grow(_)
      Grow(S) == LET S2 == S \cup UNION {NeighborsIn(L, u) \ {s} : u \in S}
                 IN IF S2 = S THEN S ELSE Grow(S2)
  IN Grow({n})

(* The links that are up: the server list holds the servers they reach.   *)
Neighbors(s) == NeighborsIn(Links \ down, s)
Behind(s, n) == BehindIn(Links \ down, s, n)

-----------------------------------------------------------------------------
(* sendto_match_servs(source_p, mask, cap, ...) at server s for a message  *)
(* that came in from `from': every link except the one it came in on,      *)
(* whose far side has a server matching the mask and whose neighbor        *)
(* advertises the capability, gets one copy.                               *)
MatchServs(ch, s, from, mask, cap, m) ==
  [l \in Channels |->
     IF /\ l[1] = s /\ l[2] # from /\ l[2] \in Neighbors(s)
        /\ cap \in CapabOf[l[2]]
        /\ Behind(s, l[2]) \cap mask # {}
     THEN Append(ch[l], m) ELSE ch[l]]

(* cluster_distribute: one sendto_match_servs per cluster{} block of s     *)
(* that covers the command, with the block's server mask as target.        *)
ClusterEntries(s, cmd) == {e \in Cluster[s] : e.cmd = cmd}

(* A copy that does not carry the target mask it is sent towards.         *)
FloodNoTarget(m, t) == [m EXCEPT !.id = <<m.id, t>>]

(* The copy of command m sent towards target mask t, tagged as one flood.  *)
Flood(m, t) == [m EXCEPT !.target = t, !.id = <<m.id, t>>]

ClusterDistribute(ch, s, cap, m) ==
  FoldSet(LAMBDA e, acc : MatchServs(acc, s, s, e.target, cap, Flood(m, e.target)),
          ch, ClusterEntries(s, m.cmd))

(* shared_find(type, server, user, host)                                   *)
SharedFind(s, cmd, origin) == [server |-> origin, cmd |-> cmd] \in Shared[s]

(* The store handler a command ends in.                                    *)
Apply(s, service, m) ==
  CASE m.cmd = "KLINE"  -> KlineHandle(s, service, m.req.user, m.req.host, m.dur)
    [] m.cmd = "DLINE"  -> DlineHandle(s, service, m.req.host, m.dur)
    [] m.cmd = "XLINE"  -> XlineHandle(s, service, m.req.mask, m.dur)
    [] m.cmd = "UNRESV" -> ResvRemove(s, m.req.name)

Untouched == UNCHANGED <<now, kline, dline, xline, resv, status>>

-----------------------------------------------------------------------------
(* The DLINE nick form in mo_dline: find_chasing, then the client must be  *)
(* local and not exempt; its numeric address becomes the mask.             *)
ByNick(host) == {c \in Clients : Ident[c].nick = host.text /\ status[c] = "registered"}

MoDlineLocal(s, m) ==
  \/ IsCidr(m.req.host) /\ Apply(s, FALSE, m)
  \/ /\ ~IsCidr(m.req.host)
     /\ \/ \E c \in ByNick(m.req.host) :
             /\ Home[c] = s /\ ~Ident[c].exempt
             /\ DlineHandle(s, FALSE, IpMask(c), m.dur)
        \/ /\ \A c \in ByNick(m.req.host) : Home[c] # s \/ Ident[c].exempt
           /\ Untouched

(* mo_kline, mo_dline, mo_xline, mo_unresv: with a target, flood it and    *)
(* apply locally only if this server matches; without one, distribute to  *)
(* the cluster{} blocks and apply locally.                                 *)
MoCommand(s, m) ==
  LET Local == IF m.cmd = "DLINE" THEN MoDlineLocal(s, m) ELSE Apply(s, FALSE, m)
  IN /\ \/ /\ m.target # NoTarget
           /\ chan' = MatchServs(chan, s, s, m.target, RelayCap[m.cmd], Flood(m, m.target))
           /\ floods' = floods \cup {Flood(m, m.target)}
           /\ IF s \in m.target THEN Local ELSE Untouched
        \/ /\ m.target = NoTarget
           /\ chan' = ClusterDistribute(chan, s, ClusterCap[m.cmd], m)
           /\ floods' = floods \cup {Flood(m, e.target) : e \in ClusterEntries(s, m.cmd)}
           /\ Local
     /\ ncmd' = ncmd + 1
     /\ UNCHANGED <<got, down>>

(* A server handler that relays as if the command were its own, to every  *)
(* link including the one it came in on.                                   *)
MsCommandRelayAll(n, s) ==
  /\ chan[<<n, s>>] # <<>>
  /\ LET m == Head(chan[<<n, s>>])
     IN /\ chan' = MatchServs([chan EXCEPT ![<<n, s>>] = Tail(@)], s, s, m.target, RelayCap[m.cmd], m)
        /\ got' = [got EXCEPT ![s] = @ \cup {m.id}]
        /\ IF s \in m.target /\ SharedFind(s, m.cmd, m.origin)
             THEN Apply(s, FALSE, m) ELSE Untouched
  /\ UNCHANGED <<floods, ncmd, down>>

(* A server handler that tests the target against its own name first and  *)
(* returns before relaying when it does not match.                         *)
MsCommandMatchFirst(n, s) ==
  /\ chan[<<n, s>>] # <<>>
  /\ LET m == Head(chan[<<n, s>>])
     IN /\ got' = [got EXCEPT ![s] = @ \cup {m.id}]
        /\ IF s \in m.target
             THEN /\ chan' = MatchServs([chan EXCEPT ![<<n, s>>] = Tail(@)], s, n, m.target, RelayCap[m.cmd], m)
                  /\ IF SharedFind(s, m.cmd, m.origin) THEN Apply(s, FALSE, m) ELSE Untouched
             ELSE chan' = [chan EXCEPT ![<<n, s>>] = Tail(@)] /\ Untouched
  /\ UNCHANGED <<floods, ncmd, down>>

(* ms_kline, ms_dline, ms_xline, ms_unresv at s for the next message from  *)
(* neighbor n: relay it onwards, then apply it if s matches the target and *)
(* a shared{} block accepts the origin.                                    *)
MsCommand(n, s) ==
  /\ chan[<<n, s>>] # <<>>
  /\ LET m == Head(chan[<<n, s>>])
     IN /\ chan' = MatchServs([chan EXCEPT ![<<n, s>>] = Tail(@)], s, n, m.target, RelayCap[m.cmd], m)
        /\ got' = [got EXCEPT ![s] = @ \cup {m.id}]
        /\ IF s \in m.target /\ SharedFind(s, m.cmd, m.origin)
             THEN Apply(s, FALSE, m) ELSE Untouched
  /\ UNCHANGED <<floods, ncmd, down>>

(* The handlers, one per command, sharing the structure above.            *)
Cmd(s, cmd, target, dur, req) ==
  [cmd |-> cmd, id |-> ncmd + 1, target |-> target, origin |-> s, dur |-> dur, req |-> req]

MoKline(s, target, user, host, dur) ==
  MoCommand(s, Cmd(s, "KLINE", target, dur, [user |-> user, host |-> host]))
MoDline(s, target, host, dur) == MoCommand(s, Cmd(s, "DLINE", target, dur, [host |-> host]))
MoXline(s, target, mask, dur) == MoCommand(s, Cmd(s, "XLINE", target, dur, [mask |-> mask]))
MoUnresv(s, target, name) == MoCommand(s, Cmd(s, "UNRESV", target, 0, [name |-> name]))

NextIs(n, s, cmd) == chan[<<n, s>>] # <<>> /\ Head(chan[<<n, s>>]).cmd = cmd

MsKline(n, s)  == NextIs(n, s, "KLINE") /\ MsCommand(n, s)
MsDline(n, s)  == NextIs(n, s, "DLINE") /\ MsCommand(n, s)
MsXline(n, s)  == NextIs(n, s, "XLINE") /\ MsCommand(n, s)
MsUnresv(n, s) == NextIs(n, s, "UNRESV") /\ MsCommand(n, s)

-----------------------------------------------------------------------------
(* The payloads parse_aline hands the handlers.                            *)
Payloads ==
  {[user |-> r[1], host |-> r[2]] : r \in KlineReqs} \cup {[host |-> h] : h \in DlineReqs}
    \cup {[mask |-> g] : g \in GecosMasks} \cup {[name |-> n] : n \in ResvNames}

Msgs == [cmd : Cmds, id : Nat \X Targets, target : Targets,
         origin : Servers, dur : Durations, req : Payloads]

NetInit ==
  /\ Init
  /\ chan = [l \in Channels |-> <<>>]
  /\ floods = {}
  /\ got = [s \in Servers |-> {}]
  /\ ncmd = 0
  /\ down = {}

(* An operator on server s issues a command.                               *)
Issue(s) ==
  /\ ncmd < MaxCmds
  /\ \E target \in Targets \cup {NoTarget} :
       \/ \E r \in KlineReqs, dur \in Durations : MoKline(s, target, r[1], r[2], dur)
       \/ \E host \in DlineReqs, dur \in Durations : MoDline(s, target, host, dur)
       \/ \E mask \in GecosMasks, dur \in Durations : MoXline(s, target, mask, dur)
       \/ \E name \in ResvNames : MoUnresv(s, target, name)

(* Server s reads the next command from neighbor n.                        *)
Receive(n, s) == MsKline(n, s) \/ MsDline(n, s) \/ MsXline(n, s) \/ MsUnresv(n, s)

(* A link splits: both ends close it, and every command queued on it in   *)
(* either direction is lost; the stores are left as they are.              *)
Split(l) ==
  /\ l \notin down
  /\ Cardinality(down) < MaxSplits
  /\ down' = down \cup {l}
  /\ chan' = [c \in Channels |-> IF {c[1], c[2]} = l THEN <<>> ELSE chan[c]]
  /\ UNCHANGED <<floods, got, ncmd>> /\ Untouched

NetNext ==
  \/ \E s \in Servers : Issue(s)
  \/ \E l \in Links : Split(l)
  \/ \E l \in Channels : Receive(l[1], l[2])
  \/ \E s \in Servers : ExpireTklines(s) /\ UNCHANGED netVars
  \/ Connections /\ UNCHANGED netVars
  \/ Tick /\ UNCHANGED netVars

NetSpec == NetInit /\ [][NetNext]_allVars

-----------------------------------------------------------------------------
(* The servers after o on the tree path from o to t, as linked at start.   *)
RECURSIVE PathFrom(_, _)
PathFrom(o, t) ==
  IF o = t THEN {}
  ELSE LET n == CHOOSE n \in NeighborsIn(Links, o) : t \in BehindIn(Links, o, n)
       IN {n} \cup PathFrom(n, t)

(* A split link lies between o and t.                                      *)
Severed(o, t) ==
  \E l \in down : \E a, b \in l : a # b /\ t \in BehindIn(Links, a, b) /\ o \notin BehindIn(Links, a, b)

(* The servers a flood should reach: those its target names, other than    *)
(* the origin, whose path from the origin crosses only links whose far     *)
(* side advertises the capability the command's relays use.                *)
Expected(f) ==
  {t \in f.target \ {f.origin} : \A u \in PathFrom(f.origin, t) : RelayCap[f.cmd] \in CapabOf[u]}

Quiet == \A l \in Channels : chan[l] = <<>>

NetTypeOK ==
  /\ TypeOK
  /\ chan \in [Channels -> Seq(Msgs)]
  /\ floods \subseteq Msgs
  /\ got \in [Servers -> SUBSET (Nat \X Targets)]
  /\ ncmd \in 0 .. MaxCmds
  /\ down \subseteq Links

(* The flood follows the spanning tree: no server reads the same flood     *)
(* twice, neither already read nor queued on two of its links or twice on *)
(* one (sendto_match_servs skips the link a command arrived on).           *)
NoDuplicateDelivery ==
  \A s \in Servers :
    LET queued == UNION {{<<l, i>> : i \in 1 .. Len(chan[l])} : l \in {l \in Channels : l[2] = s}}
    IN /\ \A q \in queued : chan[q[1]][q[2]].id \notin got[s]
       /\ \A q, r \in queued : q # r => chan[q[1]][q[2]].id # chan[r[1]][r[2]].id

(* Once no command is in flight, every flood has been read by every server *)
(* its target names that a chain of capable links leads to, whether or not *)
(* the servers in between match the target (ms_* relays before it checks   *)
(* the target against its own name), unless a split cut that server off   *)
(* from the origin: a split loses commands only for the servers beyond it, *)
(* even when it empties a link in the middle of a relay.                   *)
DeliveryComplete ==
  Quiet => \A f \in floods : \A t \in Expected(f) :
             ~Severed(f.origin, t) => f.id \in got[t]

(* Spec 7: a command that fails validation (too few non-wildcard           *)
(* characters) is surfaced to the issuing operator only and never          *)
(* forwarded to a peer; spec 3: a D-line's pattern is an address.  So a    *)
(* KLINE on a link passes valid_wild_card, and a DLINE on a link names an  *)
(* address, not the nick mo_dline resolves only after flooding the command *)
(* (a peer's dline_handle drops a host-type mask without a word).          *)
ForwardedOnlyIfValid ==
  \A l \in Channels : \A i \in 1 .. Len(chan[l]) :
    LET m == chan[l][i] IN
    /\ m.cmd = "KLINE" => ValidWildCard(m.req.user.nonwild + m.req.host.nonwild)
    /\ m.cmd = "DLINE" => IsCidr(m.req.host)
=============================================================================
