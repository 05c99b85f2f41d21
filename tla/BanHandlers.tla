----------------------------- MODULE BanHandlers -----------------------------
(***************************************************************************)
(* The ban store of each server and the handlers that change it:          *)
(* kline_handle (m_kline.c), dline_handle (m_dline.c), xline_handle        *)
(* (m_xline.c) and resv_remove (m_unresv.c), with the enforcement sweeps   *)
(* kline_check, dline_check and xline_check that each successful insertion *)
(* runs over the local connections.                                        *)
(*                                                                         *)
(* The store operations the handlers call (find_conf_by_address,           *)
(* add_conf_by_address, gecos_find, resv_find, the expiry sweep) and the   *)
(* connection layer (accept, registration check, exit) live outside this   *)
(* source tree and are modelled from the spec.                             *)
(*                                                                         *)
(* Data is abstracted: a mask is a record carrying the text it was given   *)
(* as, what parse_netmask makes of it (kind and network), the set of       *)
(* texts it matches, its count of non-wildcard characters and whether it   *)
(* contains a wildcard.  Notices, logging and reason formatting are left   *)
(* out.                                                                    *)
(***************************************************************************)
EXTENDS Naturals, FiniteSets, Cidr

CONSTANTS
  Servers,               \* the servers whose stores are modelled
  Clients,               \* local connection slots
  Home,                  \* Clients -> Servers: the server a slot is local to
  Ident,                 \* Clients -> [user, host, sockhost, ip, info, nick, exempt]
  UserMasks, HostMasks, GecosMasks, ResvNames,
  KlineReqs,             \* the <<user, host>> mask pairs a K-line command may carry
  DlineReqs,             \* the masks a D-line command may carry
  Durations,             \* durations (seconds) a command may carry
  TimeWidth,             \* width of uintmax_t in the model
  MaxTime,               \* bound on CurrentTime
  MinNonWildcard,        \* ConfigGeneral.min_nonwildcard
  MinNonWildcardSimple,  \* ConfigGeneral.min_nonwildcard_simple
  KlineMinCidr,          \* Families -> kline_min_cidr / kline_min_cidr6
  DlineMinCidr,          \* Families -> dline_min_cidr / dline_min_cidr6
  ConfKlines, ConfDlines, ConfXlines, \* records from ircd.conf (not in database)
  InitResvs              \* resv records present at startup

Times == 0 .. (2^TimeWidth - 1)

ASSUME MaxTime \in Times /\ Durations \subseteq Times

(* parse_netmask: HM_IPV4, HM_IPV6 or HM_HOST.                             *)
IsCidr(m) == m.kind \in {"ipv4", "ipv6"}
NetIp(net) == [fam |-> net.fam, addr |-> net.addr]

(* The mask parse_netmask makes of a client's numeric address, as          *)
(* getnameinfo(NI_NUMERICHOST) prints it: a full-length prefix with no     *)
(* wildcard (a numeric address has at least 7 non-wildcard characters).   *)
IpMask(c) ==
  [text |-> Ident[c].sockhost, kind |-> IF Ident[c].ip.fam = "inet" THEN "ipv4" ELSE "ipv6",
   net |-> [fam |-> Ident[c].ip.fam, addr |-> Ident[c].ip.addr, bits |-> AddrWidth],
   matches |-> {Ident[c].sockhost}, nonwild |-> 7, wild |-> FALSE]

KlineRecs == [user : UserMasks, host : HostMasks, until : Times, indb : BOOLEAN]
DlineRecs == [host : HostMasks \cup {IpMask(c) : c \in Clients}, until : Times, indb : BOOLEAN]
XlineRecs == [mask : GecosMasks, until : Times, indb : BOOLEAN]
ResvRecs  == [name : ResvNames, indb : BOOLEAN]

(* Connection states: a slot is free, an unregistered connection           *)
(* (unknown_list), a registered local client (local_client_list), or dead  *)
(* (IsDead: exit scheduled).                                               *)
Statuses == {"free", "unknown", "registered", "dead"}
Live == {"unknown", "registered"}

VARIABLES
  now,      \* CurrentTime
  kline,    \* kline[s]: the K-lines in the address table of server s
  dline,    \* dline[s]: the D-lines
  xline,    \* xline[s]: the gecos (X-line) list
  resv,     \* resv[s]: the channel/nick reservations
  status    \* status[c]: state of connection slot c

storeVars == <<kline, dline, xline, resv>>
vars == <<now, kline, dline, xline, resv, status>>

LocalTo(s) == {c \in Clients : Home[c] = s}

-----------------------------------------------------------------------------
(* Matching a record against a connection (the loop bodies of the checks). *)

(* kline_check: username wildcard, then by mask type: CIDR against the     *)
(* address of the same family, or the host mask against the host name or  *)
(* the textual address (sockhost).                                         *)
KlineMatches(k, c) ==
  /\ Ident[c].user \in k.user.matches
  /\ IF IsCidr(k.host)
       THEN MatchIp(Ident[c].ip, k.host.net)
       ELSE Ident[c].host \in k.host.matches \/ Ident[c].sockhost \in k.host.matches

(* dline_check: CIDR against the address of the same family; a host-type   *)
(* mask matches nothing.                                                   *)
DlineMatches(d, c) == IsCidr(d.host) /\ MatchIp(Ident[c].ip, d.host.net)

(* xline_check: the gecos mask against the client's info field.            *)
XlineMatches(x, c) == Ident[c].info \in x.mask.matches

Banned(s, c) ==
  \/ \E k \in kline[s] : KlineMatches(k, c)
  \/ \E d \in dline[s] : DlineMatches(d, c)
  \/ \E x \in xline[s] : XlineMatches(x, c)

(* conf_try_ban on every connection of `hits': its exit is scheduled.    *)
(* DLINK_FOREACH_SAFE makes the scan a pass over a snapshot, so it is one  *)
(* function update.                                                        *)
ConfTryBan(hits) == [c \in Clients |-> IF c \in hits THEN "dead" ELSE status[c]]

(* A K-line sweep that compares a host mask with the host name only, not  *)
(* with the textual address.                                                *)
KlineCheckHostOnly(s, k) ==
  ConfTryBan({c \in LocalTo(s) :
                /\ status[c] = "registered" /\ Ident[c].user \in k.user.matches
                /\ IF IsCidr(k.host) THEN MatchIp(Ident[c].ip, k.host.net)
                                     ELSE Ident[c].host \in k.host.matches})

KlineCheck(s, k) ==
  ConfTryBan({c \in LocalTo(s) : status[c] = "registered" /\ KlineMatches(k, c)})

DlineCheck(s, d) ==
  ConfTryBan({c \in LocalTo(s) : status[c] \in Live /\ DlineMatches(d, c)})

XlineCheck(s, x) ==
  ConfTryBan({c \in LocalTo(s) : status[c] = "registered" /\ XlineMatches(x, c)})

-----------------------------------------------------------------------------
(* Store lookups used for the duplicate checks (modelled from the spec's   *)
(* findByAddress; the calls pass the new mask's address, not its prefix).  *)

(* find_conf_by_address(host, piphost, CONF_KLINE, aftype, user, NULL, 0): *)
(* literal user and host-name compare; for a CIDR mask, an existing CIDR   *)
(* K-line containing the new mask's address.                               *)
KlineFind(s, user, host) ==
  {k \in kline[s] :
     /\ k.user.text = user.text
     /\ IF IsCidr(host)
          THEN IsCidr(k.host) /\ MatchIp(NetIp(host.net), k.host.net)
          ELSE k.host.text = host.text}

(* find_conf_by_address(NULL, &daddr, CONF_DLINE, aftype, NULL, NULL, 1)   *)
DlineFind(s, host) == {d \in dline[s] : MatchIp(NetIp(host.net), d.host.net)}

(* gecos_find(mask, match): an X-line whose mask matches the new mask text *)
XlineFind(s, mask) == {x \in xline[s] : mask.text \in x.mask.matches}

(* resv_find(mask, irccmp)                                                 *)
ResvFind(s, name) == {r \in resv[s] : r.name = name}

(* valid_wild_card(n, ...): the non-wildcard characters of all the parts, *)
(* counted together, reach min_nonwildcard.                                *)
ValidWildCard(nonwild) == nonwild >= MinNonWildcard

(* valid_wild_card_simple: enough non-wildcard characters, or no wildcard. *)
ValidWildCardSimple(m) == m.nonwild >= MinNonWildcardSimple \/ ~m.wild

(* conf->until = CurrentTime + duration, in uintmax_t arithmetic.          *)
Until(dur) == IF dur = 0 THEN 0 ELSE (now + dur) % (2^TimeWidth)

-----------------------------------------------------------------------------
(* kline_handle without the find_conf_by_address lookup for an existing   *)
(* K-line.                                                                 *)
KlineRefusedNoDup(s, service, user, host) ==
  \/ ~service /\ ~ValidWildCard(user.nonwild + host.nonwild)
  \/ ~service /\ IsCidr(host) /\ host.net.bits < KlineMinCidr[host.net.fam]

(* kline_handle: the refusals in the order the code tests them.            *)
KlineRefused(s, service, user, host) ==
  \/ ~service /\ ~ValidWildCard(user.nonwild + host.nonwild)
  \/ ~service /\ IsCidr(host) /\ host.net.bits < KlineMinCidr[host.net.fam]
  \/ KlineFind(s, user, host) # {}

(* kline_handle with the user and host parts stored the wrong way round.   *)
KlineHandleSwapped(s, service, user, host, dur) ==
  \/ /\ ~KlineRefused(s, service, user, host)
     /\ LET k == [user |-> host, host |-> user, until |-> Until(dur), indb |-> TRUE]
        IN /\ kline' = [kline EXCEPT ![s] = @ \cup {k}]
           /\ status' = KlineCheck(s, k)
     /\ UNCHANGED <<now, dline, xline, resv>>
  \/ /\ KlineRefused(s, service, user, host)
     /\ UNCHANGED <<now, kline, dline, xline, resv, status>>

KlineHandle(s, service, user, host, dur) ==
  \/ /\ ~KlineRefused(s, service, user, host)
     /\ LET k == [user |-> user, host |-> host,
                  until |-> Until(dur), indb |-> TRUE]
        IN /\ kline' = [kline EXCEPT ![s] = @ \cup {k}]
           /\ status' = KlineCheck(s, k)
     /\ UNCHANGED <<now, dline, xline, resv>>
  \/ /\ KlineRefused(s, service, user, host)
     /\ UNCHANGED <<now, kline, dline, xline, resv, status>>

(* dline_handle; a host-type mask returns silently.                        *)
DlineRefused(s, service, host) ==
  \/ ~service /\ ~ValidWildCard(host.nonwild)
  \/ ~IsCidr(host)
  \/ ~service /\ host.net.bits < DlineMinCidr[host.net.fam]
  \/ DlineFind(s, host) # {}

DlineHandle(s, service, host, dur) ==
  \/ /\ ~DlineRefused(s, service, host)
     /\ LET d == [host |-> host, until |-> Until(dur), indb |-> TRUE]
        IN /\ dline' = [dline EXCEPT ![s] = @ \cup {d}]
           /\ status' = DlineCheck(s, d)
     /\ UNCHANGED <<now, kline, xline, resv>>
  \/ /\ DlineRefused(s, service, host)
     /\ UNCHANGED <<now, kline, dline, xline, resv, status>>

(* xline_handle                                                            *)
XlineRefused(s, service, mask) ==
  \/ ~service /\ ~ValidWildCardSimple(mask)
  \/ XlineFind(s, mask) # {}

XlineHandle(s, service, mask, dur) ==
  \/ /\ ~XlineRefused(s, service, mask)
     /\ LET x == [mask |-> mask, until |-> Until(dur), indb |-> TRUE]
        IN /\ xline' = [xline EXCEPT ![s] = @ \cup {x}]
           /\ status' = XlineCheck(s, x)
     /\ UNCHANGED <<now, kline, dline, resv>>
  \/ /\ XlineRefused(s, service, mask)
     /\ UNCHANGED <<now, kline, dline, xline, resv, status>>

(* resv_remove: only a database entry can be removed online.               *)
ResvRemove(s, name) ==
  \/ /\ \E r \in ResvFind(s, name) : r.indb /\ resv' = [resv EXCEPT ![s] = @ \ {r}]
     /\ UNCHANGED <<now, kline, dline, xline, status>>
  \/ /\ \A r \in ResvFind(s, name) : ~r.indb
     /\ UNCHANGED <<now, kline, dline, xline, resv, status>>

-----------------------------------------------------------------------------
(* The connection layer and the expiry task (outside this source tree,     *)
(* modelled from the spec).                                                *)

(* A new connection enters unknown_list.                                   *)
Accept(c) ==
  /\ status[c] = "free"
  /\ status' = [status EXCEPT ![c] = "unknown"]
  /\ UNCHANGED <<now, kline, dline, xline, resv>>

(* Registration looks the connection up in the store: a match rejects it, *)
(* otherwise it moves to local_client_list.                                *)
Register(c) ==
  /\ status[c] = "unknown"
  /\ status' = [status EXCEPT ![c] = IF Banned(Home[c], c) THEN "dead" ELSE "registered"]
  /\ UNCHANGED <<now, kline, dline, xline, resv>>

(* The connection closes: a scheduled exit completes, or the peer leaves.  *)
Exit(c) ==
  /\ status[c] # "free"
  /\ status' = [status EXCEPT ![c] = "free"]
  /\ UNCHANGED <<now, kline, dline, xline, resv>>

Expired(r) == r.until # 0 /\ r.until <= now

(* cleanup_tklines: sweepExpired(now) over the three record lists.         *)
ExpireTklines(s) ==
  /\ \E r \in kline[s] \cup dline[s] \cup xline[s] : Expired(r)
  /\ kline' = [kline EXCEPT ![s] = {r \in @ : ~Expired(r)}]
  /\ dline' = [dline EXCEPT ![s] = {r \in @ : ~Expired(r)}]
  /\ xline' = [xline EXCEPT ![s] = {r \in @ : ~Expired(r)}]
  /\ UNCHANGED <<now, resv, status>>

(* The clock advances (set_time).                                          *)
Tick ==
  /\ now < MaxTime
  /\ now' = now + 1
  /\ UNCHANGED <<kline, dline, xline, resv, status>>

-----------------------------------------------------------------------------
Init ==
  /\ now = 0
  /\ kline = [s \in Servers |-> ConfKlines]
  /\ dline = [s \in Servers |-> ConfDlines]
  /\ xline = [s \in Servers |-> ConfXlines]
  /\ resv = [s \in Servers |-> InitResvs]
  /\ status = [c \in Clients |-> "free"]

(* A command reaching the handler of server s, issued with or without the  *)
(* service flag (the command wrappers are in BanNetwork).                  *)
Handle(s) ==
  \E service \in BOOLEAN, dur \in Durations :
    \/ \E req \in KlineReqs : KlineHandle(s, service, req[1], req[2], dur)
    \/ \E host \in DlineReqs : DlineHandle(s, service, host, dur)
    \/ \E mask \in GecosMasks : XlineHandle(s, service, mask, dur)
    \/ \E name \in ResvNames : ResvRemove(s, name)

Connections ==
  \E c \in Clients : Accept(c) \/ Register(c) \/ Exit(c)

Next ==
  \/ \E s \in Servers : Handle(s) \/ ExpireTklines(s)
  \/ Connections
  \/ Tick

Spec == Init /\ [][Next]_vars

-----------------------------------------------------------------------------
(* The refinement mapping onto BanStore: a MaskItem (K-, D-line), a        *)
(* GecosItem (X-line) or a ResvItem becomes a record of its type whose     *)
(* pattern is the mask text(s) it was added with, with its until (a RESV   *)
(* added online carries none here) and its in_database flag.               *)
AbsBans(K, D, X, R) ==
     {[type |-> "kline", pattern |-> <<k.user.text, k.host.text>>, until |-> k.until, persisted |-> k.indb] : k \in K}
  \cup {[type |-> "dline", pattern |-> <<d.host.text>>, until |-> d.until, persisted |-> d.indb] : d \in D}
  \cup {[type |-> "xline", pattern |-> <<x.mask.text>>, until |-> x.until, persisted |-> x.indb] : x \in X}
  \cup {[type |-> "resv", pattern |-> <<r.name>>, until |-> 0, persisted |-> r.indb] : r \in R}

AbsPatterns ==
  [kline |-> {<<u.text, h.text>> : u \in UserMasks, h \in HostMasks},
   dline |-> {<<h.text>> : h \in HostMasks \cup {IpMask(c) : c \in Clients}},
   xline |-> {<<g.text>> : g \in GecosMasks},
   resv  |-> {<<n>> : n \in ResvNames}]

Store == INSTANCE BanStore WITH
           Types <- {"kline", "dline", "xline", "resv"},
           Patterns <- AbsPatterns,
           InitBans <- [s \in Servers |-> AbsBans(ConfKlines, ConfDlines, ConfXlines, InitResvs)],
           bans <- [s \in Servers |-> AbsBans(kline[s], dline[s], xline[s], resv[s])]

-----------------------------------------------------------------------------
TypeOK ==
  /\ now \in 0 .. MaxTime
  /\ \A s \in Servers :
       /\ kline[s] \subseteq KlineRecs
       /\ dline[s] \subseteq DlineRecs
       /\ xline[s] \subseteq XlineRecs
       /\ resv[s] \subseteq ResvRecs
  /\ status \in [Clients -> Statuses]

(* A connection registered on a server is never matched by any K-line,    *)
(* D-line or X-line of that server's store: registration checks it, and    *)
(* every insertion sweeps the registered clients (kline_check,             *)
(* dline_check, xline_check) before any later step.                        *)
EnforcementSound ==
  \A c \in Clients : status[c] = "registered" => ~Banned(Home[c], c)

(* Spec 4.4: an insertion of a K-, D- or X-line scans the not-yet-         *)
(* registered connections as well as the registered clients and schedules *)
(* the exit of every live one it matches.                                  *)
InsertSweepsUnregistered ==
  [][\A s \in Servers : \A c \in LocalTo(s) :
       /\ status[c] = "unknown"
       /\ \/ \E k \in kline'[s] \ kline[s] : KlineMatches(k, c)
          \/ \E d \in dline'[s] \ dline[s] : DlineMatches(d, c)
          \/ \E x \in xline'[s] \ xline[s] : XlineMatches(x, c)
       => status'[c] = "dead"]_vars

(* The store handlers, the expiry sweep and the clock together implement  *)
(* the store of spec 3: no insertion duplicates a pattern of its type, a   *)
(* temporary record expires after its insertion, only persisted RESVs are  *)
(* removed online and only expired records are swept.                      *)
RefinesBanStore == Store!StoreSpec

(* Spec 3: a ban record's expiry time, when present, lies after the time   *)
(* it was created; a temporary ban added now expires in the future.        *)
NewBanExpiresLater ==
  [][\A s \in Servers :
       \A r \in (kline'[s] \ kline[s]) \cup (dline'[s] \ dline[s]) \cup (xline'[s] \ xline[s]) :
         r.until = 0 \/ r.until > now]_vars
=============================================================================
