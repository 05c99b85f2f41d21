# TLA+ models of the ircd-hybrid ban core

This directory holds TLA+ models of the ban-enforcement core of ircd-hybrid:
the KLINE, DLINE, XLINE and UNRESV commands (`src/modules/m_kline.c`,
`m_dline.c`, `m_xline.c`, `m_unresv.c`), the sweeps that disconnect matching
clients, propagation of the commands between linked servers, and the timer
event list that drives periodic work (`src/src/event.c`), and the STATS
command's listings of the ban store and its pacing (`m_stats.c`). Every module is
checked with TLC by the configurations listed below. `PROJECT.json` records
the runs, the source lines each definition models (`map`), the findings and
the hazards.

## The system and its parts

| Part | Code | State | Operations |
|---|---|---|---|
| Ban record store | `kline_handle`, `dline_handle`, `xline_handle`, `resv_remove`. The store itself (`find_conf_by_address`, `add_conf_by_address`, `gecos_find`, `resv_find`) is outside `src/`. | Per server: the K-lines, D-lines, X-lines and RESVs. A record has its masks, `until` (0 means permanent) and an in-database flag. | Add with validation and duplicate refusal, remove a RESV, expire. |
| Enforcement sweeper | `kline_check`, `dline_check`, `xline_check` | The state of each connection slot: free, unknown (`unknown_list`), registered (`local_client_list`), or dead (`IsDead`, exit pending). | After every insertion, mark matching live connections dead. |
| Address matcher | `match_ipv4`/`match_ipv6` (outside `src/`) | none | Prefix comparison. |
| Propagation router | `mo_*`, `ms_*`; `sendto_match_servs`, `cluster_distribute` and `shared_find` are outside `src/` | The messages queued on each server link. | A targeted flood along the spanning tree, gated by link capability. Cluster distribution. Trust check on receipt. |
| Connection layer | outside `src/` | The slot states above. | Accept, registration lookup, exit. |
| Expiry | `cleanup_tklines`, outside `src/` | none | Drop records whose `until` has passed. |
| Event scheduler | `event.c` | `event_list`, and for each event `next`, `active` and `when`. The `static last` of `event_run`. | add, addish (jitter), delete, run, set back. |
| Stats reporter | `m_stats`, `ms_stats`, `do_stats`, `stats_tab`, `report_Klines`, `stats_klines`, `stats_tklines`, `stats_deny`, `stats_tdeny`, `stats_gecos`, `stats_resv` | `static last_used` of `m_stats` | Pacing of non-operator requests; the K/k, D/d, X/x and Q/q listings of the store. |
| Channel structures | `channel.h` | none used by the ban core | Out of scope. |

How the parts interact:
- An operator command (`mo_*`) first propagates. It floods to a target mask, or sends to the `cluster{}` blocks when no target is given. Then it applies the command locally through the store handler.
- A peer command (`ms_*`) first relays onwards. It applies locally only if this server's name matches the target and a `shared{}` block trusts the origin.
- Each successful insertion runs its sweep at once, in the same step.
- The connection layer looks the store up when a client registers.
- STATS reads the store without changing it. Non-operators are paced through one server-wide `last_used`, compared with `CurrentTime`.
- The periodic `cleanup_tklines` event removes expired records. The event list in `event.c` drives it.

The hard behaviours:
- Commands of several operators interleave with relays on several links and with client connections.
- Relays are ordered per link (FIFO).
- The validation of a mask, the duplicate lookup and the flood run in an order the spec constrains.
- Clock arithmetic wraps in `uintmax_t`, and the clock can be set back (`set_time`).
- Jitter can change an event's period for good.

## Modules

- **`BanStore`** is the abstract store that spec §3 and §4.1 describe. It is not a model of code; it states what the store promises.
  - Per server, `bans` is a set of records `[type, pattern, until, persisted]`.
  - `Add` refuses a record whose type and pattern are already present. A temporary record must expire strictly after `now`, and every added record is persisted.
  - `Remove` takes only a persisted record. `SweepExpired` drops every expired record. `AdvanceClock` moves `now`.
  - Nothing else changes a store.
- **`Cidr`** models address families, addresses of `AddrWidth` bits and networks (address plus prefix length).
  - `MatchIp` is `match_ipv4`/`match_ipv6`: a shifted comparison.
  - The code is outside `src/`, so the module is modelled from spec §4.1.
- **`BanHandlers`** is the store and the sweeps of every server.
  - Variables:
    - `now` is `CurrentTime`.
    - `kline`, `dline`, `xline` and `resv` hold each server's records.
    - `status` holds the connection slots.
  - Masks are abstracted to records that carry:
    - the text they were given as;
    - the kind `parse_netmask` gives (ipv4, ipv6 or host);
    - the network;
    - the set of texts they match;
    - the count of non-wildcard characters, and whether they contain a wildcard.
  - Each handler is one action with the refusals in code order. It is split into two disjuncts: accept (add the record and run the sweep) and refuse (nothing changes; the notice is not modelled). The refusals are:
    - `valid_wild_card` / `valid_wild_card_simple`, skipped for services;
    - the minimum CIDR prefix;
    - for DLINE, a host-type mask;
    - the duplicate lookup, with the arguments the code passes. For DLINE that is the base address with `do_match` 1.
  - `Until` computes `CurrentTime + duration` modulo `2^TimeWidth`.
  - `ConfTryBan` applies the sweep as a single update over a snapshot, as `DLINK_FOREACH_SAFE` and the deferred exit make it.
  - `Accept`, `Register`, `Exit`, `ExpireTklines` and `Tick` model the collaborators outside `src/`.
  - `AbsBans` is the refinement mapping: each `MaskItem` (and each RESV) becomes a `BanStore` record. Its pattern is the text of its masks, and `persisted` is its in-database flag. `Store == INSTANCE BanStore WITH ...` applies the mapping to every server, and `RefinesBanStore` is `Store!StoreSpec`.
- **`BanNetwork`** (EXTENDS `BanHandlers`) models a tree of servers (`Links`).
  - `chan[<<s, t>>]` is the FIFO queue of messages from `s` to `t`.
  - Actions `MoKline`, `MoDline`, `MoXline` and `MoUnresv` share `MoCommand`, which models the code's sequence:
    - propagate with `MatchServs` (`sendto_match_servs`), or with `ClusterDistribute` when there is no target;
    - then apply locally.
  - Actions `MsKline`, `MsDline`, `MsXline` and `MsUnresv` share `MsCommand`: relay, then apply if the target matches and `SharedFind` trusts the origin.
  - `RelayCap` and `ClusterCap` give the capability each call site passes.
  - `MoDlineLocal` is the nick form of `mo_dline`: `find_chasing`, then the local and exemption checks, then `getnameinfo`.
  - `Split` is a link failure: both directions of one link are emptied, so what was queued on it is lost. The link is added to `down` and stays down. `Neighbors` and `Behind` range over the links that are up, because `sendto_match_servs` walks the server list, and the servers beyond a split leave that list. Nothing is re-sent (spec §5: fire-and-forget). `MaxSplits` bounds the splits.
  - `floods` (the floods started) and `got` (the floods each server has read) are history variables used only by the properties. `ncmd` bounds the number of operator commands.
- **`EventScheduler`** models `event_list` as a sequence of event ids.
  - Each event has `next`, `active` and `when`. `fired` counts the handler calls in the latest `event_run`.
  - `Add` models `event_add`: delete first, then insert before the first event with a strictly later `next`.
  - `RunLoop` is the bounded loop of `event_run`. It reads the head again after every handler and stops when the list is empty.
  - `Handler` is the call of `ev->handler`. A handler is opaque except for the `event_delete` calls it makes on the events in `Cancels[ev]`. The handler is called between `event_run`'s own `event_delete(ev)` and its re-add of a recurring event.
  - `EventRun` is the whole of `event_run`: it returns at once when `last` equals `CurrentTime`, and otherwise `RunDue` stamps `last` and runs the loop.
  - `SetBackEvents` models `set_time` stepping the clock back, followed by `event_set_back_events`. The subtraction is modulo `2^TimeWidth`, as in `uintmax_t`.
  - `ran` records that `event_run` was called since the clock last moved. The main loop calls `set_time` once per iteration (in `comm_select`) and `event_run` once. So `Tick` and `SetBackEvents` require `ran`, and both reset it.
- **`ExpiryLoop`** (EXTENDS `BanHandlers`, and `Ev == INSTANCE EventScheduler`) composes the store with the event list that drives its expiry. The two share `now`, which is `CurrentTime`.
  - `CleanupTklines` is `cleanup_tklines`: sweep the expired K-, D- and X-lines of every store.
  - `LoopEventRun` is `Ev!EventRun`, followed by the sweep when that call fired the cleanup event.
  - `LoopInit` registers the cleanup task at startup, with or without jitter, as the only listed event. `OtherEvents` adds, jitters and deletes the other events; the cleanup event is never deleted.
  - The store handlers, connections, `Ev!Tick` and `Ev!SetBackEvents` complete `LoopNext`. The clock moves only through the scheduler's actions, once per main-loop iteration.
  - The properties of `EventScheduler` are restated over the composed variables (`EvTypeOK`, `ListWellFormed`, ...). The action properties use the step predicates `Ev!RunFiresDue` and `Ev!ClockLeavesNoDue`.
- **`StatsReporter`** (EXTENDS `BanHandlers`) adds the STATS command over the store.
  - Variables:
    - `lastUsed` is the static `last_used` of `m_stats`. `Never` stands for its initial 0, which is far in the past of any real `CurrentTime`.
    - `reply` is the latest reply: the records it lists, or a lone `RPL_LOAD2HI`, `ERR_NOPRIVILEGES` or `RPL_ENDOFSTATS`.
    - `elapsed` and `served` (the real times of the last two requests served) are history variables for the properties.
  - `MStats` is `m_stats`: refuse while `last_used + pace_wait > CurrentTime`; otherwise stamp `last_used`, then either forward the request (`hunt_server`) or answer it with `DoStats`.
  - `MsStats` is `ms_stats`, the operator handler, which has no pacing.
  - `DoStats` models the `stats_tab` dispatch with its required modes. `StatsKlines`, `StatsDeny`, `StatsGecos` and `StatsResv` are the listings.
  - `KlineCandidates` is `find_conf_by_address` as the non-operator path of `stats_klines`/`stats_tklines` calls it. It is modelled from the spec, and the precedence among several matches is left open.
  - `SetBack` is `set_time` lowering `CurrentTime`. `StatsTick` advances the clock together with real time.
- **MC modules** (`MCBanHandlers`, `MCStatsReporter`, `MCDlineCover`, `MCBanNetwork`, `MCEventScheduler`, `MCExpiryLoop`) give the constants. `MCDlineCover` adds an observer variable `asked`: the D-line masks that passed validation.

## Runs

| Run | Module / cfg | Expect | What it shows |
|---|---|---|---|
| handlers | MCBanHandlers / MCBanHandlers.cfg | pass | `RefinesBanStore`: every behaviour of the handlers, sweeps, expiry and clock is, under `AbsBans`, a behaviour of `BanStore`. So no store ever holds two records of one type and pattern, and records leave only by removal of a persisted RESV or by expiry. The run's durations keep `now + duration` below `2^TimeWidth`, so here no temporary record is added already expired. That clause of `BanStore`'s `Add` does not hold of the code in general: `until_wrap` shows a peer-supplied duration making `until` wrap, and then the handlers do not refine `BanStore`. `EnforcementSound`: no registered client is ever matched by a ban of its server. |
| kline_sweep_unregistered | MCBanHandlers / MCBanSweep.cfg | violation | `kline_check` does not scan `unknown_list`, against spec §4.4. |
| until_wrap | MCBanHandlers / MCBanWrap.cfg | violation | `CurrentTime + duration` wraps, so the new ban is already expired. |
| dline_wider_refused | MCDlineCover / MCDlineCover.cfg | violation | A wider D-line is refused when a narrower one contains its base address. |
| events | MCExpiryLoop / MCExpiryLoop.cfg | pass | The composed store and event loop. `ExpiredSweptWithinPeriod`: while a temporary K-, D- or X-line is in a store, `CurrentTime` is less than its expiry plus the period of the cleanup event. This holds with other events in the list, with jitter at registration and across set-backs. `ListWellFormed`: the list stays sorted by `next` and duplicate-free, and holds exactly the active events. `EventRunComplete`: an effective `event_run` fires each due event at most once, misses none that no handler cancelled, and leaves none due. `HandlerCancelHolds`: a handler's `event_delete` of another event holds after the `event_run` that called it. This is so even when the cancelled event was due later in the same pass, or had already run and been re-added in it. `NoDueEventLeftWhenClockMoves`: whenever the clock moves, forward or back, no active event is due at the second it leaves. This covers the static `last` after a set-back. `ListedWithinPeriod`: no listed event is more than `MaxPeriod` seconds ahead, so `ev->next -= by` never wraps. |
| event_jitter | MCEventScheduler / MCEventJitter.cfg | violation | `event_addish` schedules beyond the nominal period, against spec §4.5. |
| network | MCBanNetwork / MCBanNetwork.cfg | pass | `NoDuplicateDelivery`: no server reads a flood twice. `DeliveryComplete`: once no command is in flight, every targeted server behind capable links has read the flood, including through hops that do not match the target. The only exception is a server that a link split has cut off from the origin: a split loses commands only beyond it. |
| forward_before_validation | MCBanNetwork / MCNetForwardInvalid.cfg | violation | An invalid K-line is flooded to peers before it is rejected locally, against spec §7. A D-line given as a nick is flooded as the nick and resolved to an address only on the issuing server. Peers drop it without a word, against spec §3. |
| unresv_cluster_capab | MCBanNetwork / MCNetUnresvCap.cfg | violation | A cluster-mode UNRESV is gated on `CAPAB_KLN`, so it misses a server reachable by `CAPAB_CLUSTER` links. |
| stats | MCStatsReporter / MCStatsReporter.cfg | pass | `StatsPaced`: two requests that `m_stats` serves, answered or forwarded, are at least `pace_wait` seconds of real time apart, across clock step-backs too. |
| stats_clock_setback | MCStatsReporter / MCStatsSetBack.cfg | violation | After `set_time` steps the clock back, `m_stats` keeps refusing non-operators beyond `pace_wait` seconds of real time, because nothing lowers `last_used`. |

Each property of a passing run has a mutant in `PROJECT.json`. A mutant is an operator defined next to the definition it replaces, and it models a plausible coding slip. Each one is caught:
- K-line user and host swapped;
- `kline_check` comparing a host mask with the host name only;
- `kline_handle` without its duplicate lookup;
- `event_addish` jittering periods below 3;
- `event_set_back_events` adding the step instead of subtracting it;
- `event_run` returning unless `CurrentTime` is past `last`;
- `event_add` without its leading `event_delete`;
- `event_add` scheduling one second after `CurrentTime + when`;
- `event_run` breaking at `next >= now`;
- `event_run` iterating over a copy of the events due on entry;
- a cluster copy without its target;
- a relay that also sends back down its arrival link;
- a relay that checks its own name before relaying;
- `m_stats` stamping `last_used` with the next allowed time, or not stamping it.

## Bounds and why they are enough

- **MCBanHandlers** has one server and two connection slots.
  - The two slots have different families, hosts and gecos.
  - Durations are {0, 1}, `MaxTime` is 2 and `TimeWidth` is 2.
  - The masks make these cases occur:
    - a CIDR nested inside another;
    - a family mismatch;
    - a host-name match against a `sockhost` match;
    - a too-wide mask refused by the minimum prefix;
    - wildcard minimums;
    - duplicates;
    - a non-database RESV next to a database RESV.
  - Both connections can be in every state when any ban arrives.
  - The run reaches about 128 000 states. Checking the refinement takes it to about two and a half minutes.
- **MCBanWrap** adds duration 3, so `now + dur` wraps at `TimeWidth` 2.
- **MCExpiryLoop** (the events run) has one server, one client, and a temporary K-line (which bans the client) and D-line of duration 2.
  - The cleanup event has its 60-second period scaled to 3: 2 or 3 after jitter at registration. A recurring event and a one-shot event, both of period 2, share the list.
  - The one-shot handler cancels the recurring event, and the recurring handler cancels itself. Both can be due in the same pass in either order, so a cancel before and after the cancelled event's turn both occur.
  - The clock runs from 1 to 4, with one-second set-backs. `TimeWidth` is 4 and `MaxPeriod` is 4. A ban added at 1 or 2 expires and is swept within the bound, and the cleanup event fires at least once with and without jitter.
  - Bans are added at every time, expire while other events are due, and are swept by runs that also fire other events. So every interleaving of the sweep with the list operations occurs.
  - The run reaches about 1.1 M states in under a minute and a half.
- **MCEventScheduler** (the jitter run) has three events: the cleanup task with its period scaled to 6, a period-2 event and a one-shot event.
  - Jitter is {0, 999}: the two extremes of `genrand_int32() % 1000`.
  - The clock runs to 5. `TimeWidth` is 4, above `MaxTime + MaxPeriod`.
  - The cleanup event's period may grow up to `MaxPeriod` = 7 through repeated `event_addish`.
- **MCBanNetwork** has three servers in a line.
  - With a line, a relay through a non-matching hop, the arrival-link exclusion and capability gating at the first and the second hop all occur.
  - s3 lacks DLN. s1 has cluster blocks for KLINE (all servers) and UNRESV (s3).
  - s2 trusts s1 for every command. s3 trusts s1 for KLINE and UNRESV.
  - Targets are {s3} and all servers. There is one client on s1, for DLINE by nick.
  - Two operator commands are allowed (`MaxCmds`), so two floods can interleave.
  - One link may split (`MaxSplits` 1), at any point: while a flood is queued before or after the relay hop, or before a command is issued.
  - The run reaches about 930 000 states in under two minutes.
- **MCStatsReporter** has one server, a client c1 without umode +o, and an operator c2.
  - The store may gain a permanent and a temporary K-line and D-line, none of which bans c1 or c2. So both keep asking, and temporary records are listed, expire and are swept.
  - The letters are K, k, D, d, X and an empty one. So every `do_stats` branch occurs: an empty letter, a refusal for lack of umode +o, and the K/k, D/d and X listings.
  - The clock runs to 2 with one-second step-backs, real time runs to 3, and `pace_wait` is 2. So serving, refusing, serving after a full wait, and a step-back between two served requests all occur.
  - The run reaches about 1.4 M states in under two minutes.
  - The set-back run keeps only c1, and its store does not change.

## Fairness

No fairness is assumed, and no liveness property is checked. The one candidate, that the network links drain, holds by construction: every read consumes a command, and floods follow a finite tree. Every property checked is a safety property, including the bound on how late the expiry sweep runs (`ExpiredSweptWithinPeriod`), which `ExpiryLoop` derives from the scheduler itself.

## Not modelled, and why

- **Exact texts:** wildcard `match()`, reason strings, notices and logging. The properties are about which connections and records a mask selects, not about text.
- **Operator privilege refusals and malformed peer commands:** the `parc` and empty-reason drops change no state.
- **Services servers:** the service flag is exercised in `BanHandlers` (`Handle` with `service` TRUE), but no services server is part of the network tree.
- **Re-links:** a split link stays down. On a re-link, the code re-sends no bans, so the stores of the two sides stay diverged. A property about that would only restate the missing burst.
- **The other reports of `m_stats.c`** (links, ports, memory, classes, operators, uptime and so on) only print configuration and counters.
- **`hunt_server`'s routing** of a STATS request that names another server: it is modelled only as "forwarded", which is what matters for pacing.
- **`channel.h`:** the ban core uses none of it.
- **Ban exemptions in the sweep** (`conf_try_ban` skipping an exempt client): the code is outside `src/`, and the spec does not describe it. Only the exemption test of `mo_dline`'s nick form, which is in `src/`, is modelled.
- **Clock jumps of more than one second:** `Tick` advances `CurrentTime` by one per main-loop iteration, which is the cadence `comm_select`'s one-second timeout gives. A longer stall of the process would let STATS E show overdue events, and it would delay the sweep by more than a period. For that reason `stats_events` (STATS E) is not modelled: with one-second steps it can only print what `ListedWithinPeriod` and `NoDueEventLeftWhenClockMoves` already bound.
- **The iteration of the sweeps:** `kline_check`, `dline_check` and `xline_check` are one update over a snapshot of the client lists. That is what `DLINK_FOREACH_SAFE` together with the deferred exit of `conf_try_ban` gives. The iteration itself is not modelled.
- **Observed but not given a run:**
  - `stats_gecos` and `stats_resv` list every entry for both letters of their pair and only print x/X (q/Q) per entry. Spec §5 describes reporting as filtered by a permanent/temporary flag, which holds for K/k and D/d by `report_Klines`'s skip test.

## Plan

1. Done in this sitting:
   - `Cidr`;
   - `BanHandlers` (store, handlers, sweeps);
   - `EventScheduler`;
   - `BanNetwork` (all eight `mo_`/`ms_` handlers over a tree with cluster and shared blocks).
2. Done in this sitting: `StatsReporter` (pacing and the ban listings).
   - Left: the non-operator STATS K/k path under `stats_k_oper_only` 1 is modelled, but in these configurations it can only return nothing. A registered local client is never matched by a K-line of its own server (`EnforcementSound`). It becomes interesting for remote requesters and exempt clients. That needs a second server in the stats model and the `exempt` handling of `conf_try_ban`.
3. Done: the DLINE-by-nick path (in `ForwardedOnlyIfValid`).
   - Left: convergence of the stores of trusted targets, and the service origin in the tree.
4. Done: the abstract store `BanStore`, refined by `BanHandlers` (`RefinesBanStore`).
   - The D-line duplicate divergence (`dline_wider_refused`) refuses more than `BanStore` does. A refusal is allowed by the abstract `Add`, so it does not break the refinement, and it keeps its own run.
5. Done: `ExpiryLoop` composes the cleanup event of `EventScheduler` with the store.
   - Event-loop order: an earlier version let the clock step back twice without an `event_run` between. It then reported a skipped second at `event.c:95`, which the real main loop cannot produce. `ran` now enforces one clock step per `event_run`.
6. Done: link splits in `BanNetwork`, covered by `DeliveryComplete`. Handler cancels in `EventScheduler` (`HandlerCancelHolds`).
7. Next: convergence of the stores of trusted targets in `BanNetwork`, and a services server in the tree.
