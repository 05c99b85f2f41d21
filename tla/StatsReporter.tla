---------------------------- MODULE StatsReporter ----------------------------
(***************************************************************************)
(* The STATS command of m_stats.c over the ban store of BanHandlers: the   *)
(* pacing of m_stats on its static last_used, the dispatch of do_stats     *)
(* through stats_tab with its required user modes, and the listings of the *)
(* ban records: report_Klines / stats_klines / stats_tklines (K, k),       *)
(* stats_deny / stats_tdeny (D, d), stats_gecos (X, x), stats_resv (Q, q). *)
(*                                                                         *)
(* A reply is abstracted to the set of records it lists (one numeric per   *)
(* record), or to the single numeric RPL_LOAD2HI / ERR_NOPRIVILEGES /      *)
(* RPL_ENDOFSTATS alone.  The other report functions of m_stats.c print    *)
(* configuration and counters and are not modelled.                        *)
(*                                                                         *)
(* set_time (ircd.c, outside this tree) may find the system clock stepped  *)
(* back; it then lowers CurrentTime.  `elapsed' is the real time that has  *)
(* passed, which the clock no longer tells after such a step.              *)
(***************************************************************************)
EXTENDS BanHandlers

CONSTANTS
  Opers,        \* the clients with UMODE_OPER (served by ms_stats)
  PaceWait,     \* ConfigGeneral.pace_wait
  KOperOnly,    \* ConfigGeneral.stats_k_oper_only (0, 1 or 2)
  MaxBack,      \* largest backward clock step set_time reports
  MaxElapsed,   \* bound on the real time that passes
  Never         \* last_used's initial 0, far in the past of any CurrentTime

ASSUME PaceWait \in Nat \ {0} /\ KOperOnly \in 0 .. 2

(* The letters stats_tab maps to a ban listing; "other" stands for a       *)
(* letter stats_map has no entry for and "nul" for an empty argument.      *)
ListLetters == {"K", "k", "D", "d", "X", "x", "Q", "q"}
Letters == ListLetters \cup {"other", "nul"}

(* required_modes of stats_tab: UMODE_OPER for all ban listings but K/k.   *)
RequiresOper(letter) == letter \in ListLetters \ {"K", "k"}

VARIABLES
  lastUsed,     \* the static last_used of m_stats
  elapsed,      \* real time passed (history)
  served,       \* <<previous, latest>> real times of the m_stats requests served (history)
  reply         \* the latest reply sent

statsVars == <<lastUsed, elapsed, served, reply>>
allVars == <<vars, statsVars>>

Reply(c, kind, letter, lines) ==
  [to |-> c, kind |-> kind, letter |-> letter, lines |-> lines, at |-> elapsed]

Temporary(r) == r.until # 0

-----------------------------------------------------------------------------
(* report_Klines(source_p, tkline): every K-line of the address table,     *)
(* skipping temporary ones for K and permanent ones for k.                 *)
ReportKlines(s, tkline) == {k \in kline[s] : Temporary(k) = tkline}

(* find_conf_by_address(host, &ip, CONF_KLINE, aftype, username, NULL,     *)
(* do_match) for a local client (modelled from the spec's findByAddress):  *)
(* the K-lines whose user part equals (irccmp) or matches (match) the      *)
(* username and whose host part covers the address or the host name.  The *)
(* precedence among several is left open: any of them may be returned.     *)
KlineCandidates(s, c, doMatch) ==
  {k \in kline[s] :
     /\ IF doMatch THEN Ident[c].user \in k.user.matches ELSE k.user.text = Ident[c].user
     /\ IF IsCidr(k.host) THEN MatchIp(Ident[c].ip, k.host.net)
                          ELSE Ident[c].host \in k.host.matches}

(* stats_klines (tkline = FALSE, do_match 0) and stats_tklines (tkline =   *)
(* TRUE, do_match 1): the possible replies.  With stats_k_oper_only 1 a    *)
(* non-oper is shown the record found for them, unless its permanence is  *)
(* the other one.                                                          *)
StatsKlines(c, letter, tkline) ==
  IF c \notin Opers /\ KOperOnly = 2 THEN {Reply(c, "noprivs", letter, {})}
  ELSE IF c \notin Opers /\ KOperOnly = 1
    THEN LET cand == KlineCandidates(Home[c], c, tkline)
         IN IF cand = {} THEN {Reply(c, "list", letter, {})}
            ELSE {Reply(c, "list", letter, IF Temporary(k) = tkline THEN {k} ELSE {}) : k \in cand}
    ELSE {Reply(c, "list", letter, ReportKlines(Home[c], tkline))}

(* stats_deny (D) and stats_tdeny (d): the D-lines of the address table,   *)
(* skipping temporary ones for D and permanent ones for d.                 *)
StatsDeny(c, letter, tdeny) ==
  Reply(c, "list", letter, {d \in dline[Home[c]] : Temporary(d) = tdeny})

(* stats_gecos: every X-line, whichever of X and x was asked; the expiry   *)
(* only chooses the letter printed on each line.                           *)
StatsGecos(c, letter) == Reply(c, "list", letter, xline[Home[c]])

(* stats_resv: every reservation, whichever of Q and q was asked.          *)
StatsResv(c, letter) == Reply(c, "list", letter, resv[Home[c]])

(* do_stats: the possible replies to a request of `letter' by c: an empty  *)
(* letter or one stats_map has no handler for ends the reply at once; a    *)
(* handler is refused without its required mode.                           *)
DoStats(c, letter) ==
  CASE letter \in {"nul", "other"} -> {Reply(c, "end", letter, {})}
    [] RequiresOper(letter) /\ c \notin Opers -> {Reply(c, "noprivs", letter, {})}
    [] letter = "K" -> StatsKlines(c, letter, FALSE)
    [] letter = "k" -> StatsKlines(c, letter, TRUE)
    [] letter = "D" -> {StatsDeny(c, letter, FALSE)}
    [] letter = "d" -> {StatsDeny(c, letter, TRUE)}
    [] letter \in {"X", "x"} -> {StatsGecos(c, letter)}
    [] letter \in {"Q", "q"} -> {StatsResv(c, letter)}

-----------------------------------------------------------------------------
(* m_stats must refuse: the previous request was served less than          *)
(* pace_wait seconds ago by CurrentTime.                                   *)
Paced == lastUsed # Never /\ lastUsed + PaceWait > now

(* m_stats that stamps last_used with the time the next request may come.  *)
MStatsStampAhead(c, letter, remote) ==
  /\ status[c] = "registered" /\ c \notin Opers
  /\ \/ /\ Paced
        /\ reply' = Reply(c, "load2hi", letter, {})
        /\ UNCHANGED <<lastUsed, served>>
     \/ /\ ~Paced
        /\ lastUsed' = now + PaceWait
        /\ served' = <<served[2], elapsed>>
        /\ IF remote THEN UNCHANGED reply ELSE reply' \in DoStats(c, letter)
  /\ UNCHANGED <<vars, elapsed>>

(* m_stats that serves a request without stamping last_used.               *)
MStatsNoStamp(c, letter, remote) ==
  /\ status[c] = "registered" /\ c \notin Opers
  /\ \/ /\ Paced
        /\ reply' = Reply(c, "load2hi", letter, {})
        /\ UNCHANGED <<lastUsed, served>>
     \/ /\ ~Paced
        /\ served' = <<served[2], elapsed>>
        /\ IF remote THEN UNCHANGED reply ELSE reply' \in DoStats(c, letter)
        /\ UNCHANGED lastUsed
  /\ UNCHANGED <<vars, elapsed>>

(* m_stats, the handler for a registered client without umode +o: refuse   *)
(* within pace_wait of the last served request; otherwise stamp last_used, *)
(* and either forward the request (hunt_server: it names another server)   *)
(* or answer it by do_stats.                                               *)
MStats(c, letter, remote) ==
  /\ status[c] = "registered" /\ c \notin Opers
  /\ \/ /\ Paced
        /\ reply' = Reply(c, "load2hi", letter, {})
        /\ UNCHANGED <<lastUsed, served>>
     \/ /\ ~Paced
        /\ lastUsed' = now
        /\ served' = <<served[2], elapsed>>
        /\ IF remote THEN UNCHANGED reply ELSE reply' \in DoStats(c, letter)
  /\ UNCHANGED <<vars, elapsed>>

(* ms_stats, the handler for an operator: no pacing.                       *)
MsStats(c, letter) ==
  /\ status[c] = "registered" /\ c \in Opers
  /\ reply' \in DoStats(c, letter)
  /\ UNCHANGED <<vars, lastUsed, elapsed, served>>

(* The clock advances with real time.                                      *)
StatsTick ==
  /\ Tick
  /\ elapsed < MaxElapsed
  /\ elapsed' = elapsed + 1
  /\ UNCHANGED <<lastUsed, served, reply>>

(* set_time: the system clock was stepped back by `by' seconds.            *)
SetBack(by) ==
  /\ by <= now
  /\ now' = now - by
  /\ UNCHANGED <<kline, dline, xline, resv, status, statsVars>>

-----------------------------------------------------------------------------
StatsInit ==
  /\ Init
  /\ lastUsed = Never
  /\ elapsed = 0
  /\ served = <<Never, Never>>
  /\ reply = [to |-> "none", kind |-> "none", letter |-> "nul", lines |-> {}, at |-> 0]

StatsNext ==
  \/ \E s \in Servers : (Handle(s) \/ ExpireTklines(s)) /\ UNCHANGED statsVars
  \/ Connections /\ UNCHANGED statsVars
  \/ StatsTick
  \/ \E by \in 1 .. MaxBack : SetBack(by)
  \/ \E c \in Clients, letter \in Letters :
       \/ \E remote \in BOOLEAN : MStats(c, letter, remote)
       \/ MsStats(c, letter)

StatsSpec == StatsInit /\ [][StatsNext]_allVars

-----------------------------------------------------------------------------
StatsTypeOK ==
  /\ lastUsed \in {Never} \cup (0 .. MaxTime)
  /\ elapsed \in 0 .. MaxElapsed
  /\ served \in ({Never} \cup (0 .. MaxElapsed)) \X ({Never} \cup (0 .. MaxElapsed))
  /\ reply.kind \in {"none", "load2hi", "noprivs", "end", "list"}
  /\ reply.letter \in Letters
  /\ reply.lines \subseteq KlineRecs \cup DlineRecs \cup XlineRecs \cup ResvRecs

(* m_stats lets non-operators through at most once per pace_wait seconds  *)
(* of real time, across clock steps back as well: the static last_used    *)
(* is stamped before the request is forwarded or answered.                 *)
StatsPaced ==
  served[1] # Never => served[2] - served[1] >= PaceWait

(* m_stats refuses a non-operator only when it served a request less than  *)
(* pace_wait seconds of real time before.                                  *)
RefusedOnlyWhenPaced ==
  reply.kind = "load2hi" => served[2] # Never /\ reply.at - served[2] < PaceWait
=============================================================================
