--------------------------- MODULE EventScheduler ---------------------------
(***************************************************************************)
(* The timer-based event list of src/src/event.c: event_add,               *)
(* event_addish, event_delete, event_run and event_set_back_events.        *)
(*                                                                         *)
(* event_list is a sequence of event ids kept ordered by next fire time.   *)
(* Each event has the fields the code reads and writes: when (period,      *)
(* rewritten by event_addish), next, active and the oneshot flag (a        *)
(* constant).  A handler is an opaque call: `fired' counts its             *)
(* invocations in the latest event_run; the only effect on the list a     *)
(* handler has is the event_delete calls it makes (Cancels).               *)
(* The clock (CurrentTime) is driven by set_time in the main loop, which  *)
(* calls event_run once per loop iteration.                                *)
(***************************************************************************)
EXTENDS Naturals, Sequences, SequencesExt, Functions

CONSTANTS
  Events,     \* the struct event instances
  Period,     \* Events -> the initial ev->when
  Oneshot,    \* Events -> ev->oneshot
  Jitters,    \* values genrand_int32() % 1000 may take
  MaxTime,    \* bound on CurrentTime
  MaxBack,    \* largest backward clock step set_time reports
  MaxPeriod,  \* bound on a period event_addish may produce
  TimeWidth,  \* bits of the uintmax_t times (scaled down)
  Cancels     \* Events -> the events the handler passes to event_delete

ASSUME Jitters \subseteq 0 .. 999
ASSUME MaxTime + MaxPeriod < 2^TimeWidth

VARIABLES
  now,        \* CurrentTime
  last,       \* the static `last' of event_run
  evlist,     \* event_list
  next,       \* ev->next
  active,     \* ev->active
  when,       \* ev->when
  fired,      \* handler invocations per event in the latest event_run
  ran         \* event_run has been called since the clock last moved

vars == <<now, last, evlist, next, active, when, fired, ran>>

-----------------------------------------------------------------------------
(* The list operations on a snapshot st = [list, next, active, fired].     *)

(* event_delete                                                            *)
Delete(st, ev) ==
  IF ~st.active[ev] THEN st
  ELSE [st EXCEPT !.list = Remove(@, ev), !.active[ev] = FALSE]

(* event_add without the leading event_delete.                             *)
AddNoDelete(st, ev, w) ==
  LET st2 == [st EXCEPT !.next[ev] = now + w, !.active[ev] = TRUE]
      pos == SelectInSeq(st2.list, LAMBDA e : st2.next[e] > st2.next[ev])
  IN [st2 EXCEPT !.list = IF pos = 0 THEN Append(@, ev) ELSE InsertAt(@, pos, ev)]

(* event_add scheduling one second after CurrentTime + ev->when.          *)
AddLate(st, ev, w) ==
  LET st1 == Delete(st, ev)
      st2 == [st1 EXCEPT !.next[ev] = now + w + 1, !.active[ev] = TRUE]
      pos == SelectInSeq(st2.list, LAMBDA e : st2.next[e] > st2.next[ev])
  IN [st2 EXCEPT !.list = IF pos = 0 THEN Append(@, ev) ELSE InsertAt(@, pos, ev)]

(* event_add: delete, set next and active, then insert before the first   *)
(* event firing strictly later, or at the tail.                            *)
Add(st, ev, w) ==
  LET st1 == Delete(st, ev)
      st2 == [st1 EXCEPT !.next[ev] = now + w, !.active[ev] = TRUE]
      pos == SelectInSeq(st2.list, LAMBDA e : st2.next[e] > st2.next[ev])
  IN [st2 EXCEPT !.list = IF pos = 0 THEN Append(@, ev) ELSE InsertAt(@, pos, ev)]

(* The handler of ev, called by event_run: it runs, and event_deletes     *)
(* the events it cancels.                                                  *)
Handler(st, ev) ==
  FoldSet(LAMBDA e, acc : Delete(acc, e), [st EXCEPT !.fired[ev] = @ + 1], Cancels[ev])

(* The loop with its break at `next >= now': an event due this very       *)
(* second is left for later.                                               *)
RECURSIVE RunLoopStopAtDue(_, _)
RunLoopStopAtDue(len, st) ==
  IF len = 0 \/ st.list = <<>> THEN st
  ELSE LET ev == Head(st.list)
       IN IF st.next[ev] >= now THEN st
          ELSE LET st1 == Handler(Delete(st, ev), ev)
               IN RunLoopStopAtDue(len - 1, IF Oneshot[ev] THEN st1 ELSE Add(st1, ev, when[ev]))

(* A loop over the events due on entry, taken as a copy of the list: a   *)
(* handler's event_delete does not stop a later event of the copy.        *)
RECURSIVE RunDueCopy(_, _)
RunDueCopy(due, st) ==
  IF due = <<>> THEN st
  ELSE LET ev == Head(due)
           st1 == Handler(Delete(st, ev), ev)
       IN RunDueCopy(Tail(due), IF Oneshot[ev] THEN st1 ELSE Add(st1, ev, when[ev]))

RunLoopOverCopy(len, st) ==
  RunDueCopy(SelectSeq(SubSeq(st.list, 1, len), LAMBDA e : st.next[e] <= now), st)

(* The loop of event_run: at most len iterations; stop at the first event *)
(* not yet due; otherwise delete it, run its handler and re-add it unless  *)
(* it is a one-shot event.  It reads the head again after every handler    *)
(* and stops when the list is empty, so a handler may delete events.       *)
RECURSIVE RunLoop(_, _)
RunLoop(len, st) ==
  IF len = 0 \/ st.list = <<>> THEN st
  ELSE LET ev == Head(st.list)
       IN IF st.next[ev] > now THEN st
          ELSE LET st1 == Handler(Delete(st, ev), ev)
               IN RunLoop(len - 1, IF Oneshot[ev] THEN st1 ELSE Add(st1, ev, when[ev]))

Snapshot == [list |-> evlist, next |-> next, active |-> active, fired |-> fired]

Store(st) ==
  /\ evlist' = st.list
  /\ next' = st.next
  /\ active' = st.active

-----------------------------------------------------------------------------
EventAdd(ev) ==
  /\ Store(Add(Snapshot, ev, when[ev]))
  /\ UNCHANGED <<now, last, when, fired, ran>>

(* event_addish that applies the jitter to every period.                  *)
EventAddishNoMinimum(ev, r) ==
  LET twoThird == (2 * when[ev]) \div 3
      w == twoThird + (r * twoThird) \div 1000
  IN /\ w <= MaxPeriod
     /\ when' = [when EXCEPT ![ev] = w]
     /\ Store(Add(Snapshot, ev, w))
     /\ UNCHANGED <<now, last, fired, ran>>

(* The period event_addish gives an event of period w for the draw r:     *)
(* a period of 3 or more is replaced by two_third + (r * two_third) / 1000. *)
AddishPeriod(w, r) ==
  LET twoThird == (2 * w) \div 3
  IN IF w >= 3 THEN twoThird + (r * twoThird) \div 1000 ELSE w

(* event_addish: the period is replaced for good; then event_add.          *)
EventAddish(ev, r) ==
  LET w == AddishPeriod(when[ev], r)
  IN /\ w <= MaxPeriod
     /\ when' = [when EXCEPT ![ev] = w]
     /\ Store(Add(Snapshot, ev, w))
     /\ UNCHANGED <<now, last, fired, ran>>

EventDelete(ev) ==
  /\ active[ev]
  /\ Store(Delete(Snapshot, ev))
  /\ UNCHANGED <<now, last, when, fired, ran>>

(* The loop of event_run, stamping `last' and running the due events.      *)
RunDue ==
  /\ last' = now
  /\ LET st == RunLoop(Len(evlist), [Snapshot EXCEPT !.fired = [e \in Events |-> 0]])
     IN /\ Store(st)
        /\ fired' = st.fired

(* event_run returning early unless CurrentTime is past `last'.            *)
EventRunMonotonic ==
  /\ ran' = TRUE
  /\ \/ last >= now /\ UNCHANGED <<last, evlist, next, active, fired>>
     \/ last < now /\ RunDue
  /\ UNCHANGED <<now, when>>

(* event_run: returns at once when already called at this CurrentTime.     *)
EventRun ==
  /\ ran' = TRUE
  /\ \/ last = now /\ UNCHANGED <<last, evlist, next, active, fired>>
     \/ last # now /\ RunDue
  /\ UNCHANGED <<now, when>>

(* The main loop calls event_run once per iteration and set_time once     *)
(* (in comm_select); the clock moves only after event_run was called.      *)
Tick ==
  /\ ran
  /\ now < MaxTime
  /\ now' = now + 1
  /\ ran' = FALSE
  /\ UNCHANGED <<last, evlist, next, active, when, fired>>

(* event_set_back_events adding the step instead of subtracting it.        *)
SetBackEventsAdd(by) ==
  /\ ran
  /\ by <= now
  /\ now' = now - by
  /\ next' = [e \in Events |-> IF e \in ToSet(evlist) THEN (next[e] + by) % 2^TimeWidth ELSE next[e]]
  /\ ran' = FALSE
  /\ UNCHANGED <<last, evlist, active, when, fired>>

(* set_time saw the clock go back by `by' seconds: CurrentTime is reset    *)
(* and event_set_back_events subtracts `by' from every listed next, in    *)
(* uintmax_t arithmetic.                                                   *)
SetBackEvents(by) ==
  /\ ran
  /\ by <= now
  /\ now' = now - by
  /\ next' = [e \in Events |-> IF e \in ToSet(evlist) THEN (next[e] - by) % 2^TimeWidth ELSE next[e]]
  /\ ran' = FALSE
  /\ UNCHANGED <<last, evlist, active, when, fired>>

-----------------------------------------------------------------------------
Init ==
  /\ now = 1
  /\ last = 0
  /\ evlist = <<>>
  /\ next = [e \in Events |-> 0]
  /\ active = [e \in Events |-> FALSE]
  /\ when = Period
  /\ fired = [e \in Events |-> 0]
  /\ ran = FALSE

Next ==
  \/ \E ev \in Events :
       \/ EventAdd(ev)
       \/ \E r \in Jitters : EventAddish(ev, r)
       \/ EventDelete(ev)
  \/ EventRun
  \/ Tick
  \/ \E by \in 1 .. MaxBack : SetBackEvents(by)

Spec == Init /\ [][Next]_vars

-----------------------------------------------------------------------------
TypeOK ==
  /\ now \in 0 .. MaxTime
  /\ evlist \in Seq(Events)
  /\ next \in [Events -> 0 .. 2^TimeWidth - 1]
  /\ active \in [Events -> BOOLEAN]
  /\ when \in [Events -> 1 .. MaxPeriod]
  /\ fired \in [Events -> Nat]
  /\ ran \in BOOLEAN

(* event_list holds each active event exactly once, and only active        *)
(* events, in nondecreasing order of next fire time; event_run's early     *)
(* break at the first event not yet due relies on this order.              *)
ListWellFormed ==
  /\ IsInjective(evlist)
  /\ ToSet(evlist) = {e \in Events : active[e]}
  /\ IsSorted(evlist, LAMBDA a, b : next[a] <= next[b])

(* A step after which event_run, if it did its work, had fired only       *)
(* events due on entry, each once, every other due one unless a handler   *)
(* cancelled it, and left none due.                                        *)
RunFiresDue ==
  last' # last =>
       /\ \A e \in Events : fired'[e] \in 0 .. 1
       /\ \A e \in Events : fired'[e] = 1 => active[e] /\ next[e] <= now
       /\ \A e \in Events : active[e] /\ next[e] <= now /\ fired'[e] = 0 =>
            \E c \in Events : fired'[c] = 1 /\ e \in Cancels[c]
       /\ \A e \in Events : active'[e] => next'[e] > now

(* An event_run that does its work runs the handler of every event that   *)
(* was active and due on entry at most once, of no other event, misses    *)
(* none that no handler cancelled, and leaves no active event due.         *)
EventRunComplete == [][RunFiresDue]_vars

(* Spec 4.5: a recurring task is rescheduled at most its nominal period    *)
(* ahead, jitter staying within the final third of that period.           *)
ScheduledWithinPeriod ==
  \A e \in Events : active[e] => next[e] <= now + Period[e]

(* A step after which event_run, if it did its work, left every event a    *)
(* handler it ran cancelled out of the list, other than that handler's own *)
(* event (event_run re-adds a recurring one after the handler returns).    *)
CancelSticks ==
  last' # last =>
       \A c \in Events : fired'[c] = 1 => \A e \in Cancels[c] \ {c} : ~active'[e]

(* A step that moves the clock leaves no active event due behind it.      *)
ClockLeavesNoDue == now' # now => \A e \in Events : active[e] => next[e] > now

(* event_run compares `last' with CurrentTime for equality, so it runs    *)
(* again when set_time has stepped the clock back: whenever the clock      *)
(* moves, forward or back, no listed event is due at the second it leaves. *)
NoDueEventLeftWhenClockMoves == [][ClockLeavesNoDue]_vars

(* event_set_back_events keeps every listed event the same distance ahead  *)
(* of the clock: `ev->next -= by' never wraps, since event_run has left no *)
(* event due, and no event is ever further ahead than the longest period. *)
ListedWithinPeriod ==
  \A e \in ToSet(evlist) : next[e] <= now + MaxPeriod
====
