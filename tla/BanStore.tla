------------------------------ MODULE BanStore ------------------------------
(***************************************************************************)
(* What the ban record store promises (spec section 3 and the store        *)
(* operations of section 4): per server, a set of ban records, each of a   *)
(* type, with a normalized pattern, an expiry time (0: permanent) and a    *)
(* persisted flag.  The pattern of a record is unique per type within a    *)
(* store; a temporary record expires after the time it was added; only a  *)
(* persisted record can be removed online; the expiry sweep drops every    *)
(* record whose time has passed.  Nothing else changes a store.            *)
(***************************************************************************)
EXTENDS Naturals

CONSTANTS
  Servers,
  Types,        \* the record variants
  Patterns,     \* Types -> the normalized patterns of that type
  Times,        \* the values an expiry time can take
  MaxTime,      \* bound on the clock
  InitBans      \* Servers -> the records present at startup (ircd.conf, databases)

VARIABLES now, bans

(* A well-formed record: its pattern is one of its type.                  *)
IsRec(r) ==
  /\ r.type \in Types
  /\ r.pattern \in Patterns[r.type]
  /\ r.until \in Times
  /\ r.persisted \in BOOLEAN

SamePattern(a, b) == a.type = b.type /\ a.pattern = b.pattern

Expired(r) == r.until # 0 /\ r.until <= now

StoreInit == now = 0 /\ bans = InitBans

(* add: refused when a record of the same type and pattern is present;     *)
(* a temporary record must expire strictly after it is added.              *)
Add(s, r) ==
  /\ IsRec(r)
  /\ \A b \in bans[s] : ~SamePattern(b, r)
  /\ r.until = 0 \/ r.until > now
  /\ r.persisted
  /\ bans' = [bans EXCEPT ![s] = @ \cup {r}]
  /\ UNCHANGED now

(* remove: a record that is persisted (a configuration record is not).     *)
Remove(s, r) ==
  /\ r.persisted
  /\ bans' = [bans EXCEPT ![s] = @ \ {r}]
  /\ UNCHANGED now

(* sweepExpired(now)                                                       *)
SweepExpired(s) ==
  /\ bans' = [bans EXCEPT ![s] = {r \in @ : ~Expired(r)}]
  /\ UNCHANGED now

AdvanceClock ==
  /\ now < MaxTime
  /\ now' = now + 1
  /\ UNCHANGED bans

StoreNext ==
  \/ \E s \in Servers :
       \/ \E r \in bans'[s] \ bans[s] : Add(s, r)   \* the record added, if any
       \/ \E r \in bans[s] \ bans'[s] : Remove(s, r)   \* the record removed, if any
       \/ SweepExpired(s)
  \/ AdvanceClock

StoreSpec == StoreInit /\ [][StoreNext]_<<now, bans>>
=============================================================================
