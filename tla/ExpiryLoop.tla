------------------------------ MODULE ExpiryLoop ------------------------------
(***************************************************************************)
(* The expiry of ban records as the event loop drives it: cleanup_tklines  *)
(* (outside this source tree, modelled from spec 4.5) is the handler of a  *)
(* recurring event of event.c, and each time event_run fires it, it sweeps *)
(* the expired K-, D- and X-lines of the store.  The ban store and its     *)
(* handlers (BanHandlers) and the event list (EventScheduler) share        *)
(* CurrentTime; set_time moves it once per main-loop iteration, forward or *)
(* back, and event_run is called once per iteration.  Other events of the  *)
(* list are added, jittered, deleted and run with opaque handlers.         *)
(***************************************************************************)
EXTENDS BanHandlers

CONSTANTS
  Events, Period, Oneshot, Jitters, MaxBack, MaxPeriod, Cancels,
  Cleanup       \* the event whose handler is cleanup_tklines

VARIABLES last, evlist, next, active, when, fired, ran

Ev == INSTANCE EventScheduler

evVars == <<last, evlist, next, active, when, fired, ran>>
banVars == <<kline, dline, xline, resv, status>>
loopVars == <<now, banVars, evVars>>

(* cleanup_tklines: sweepExpired(CurrentTime) over every store.            *)
CleanupTklines ==
  /\ kline' = [s \in Servers |-> {r \in kline[s] : ~Expired(r)}]
  /\ dline' = [s \in Servers |-> {r \in dline[s] : ~Expired(r)}]
  /\ xline' = [s \in Servers |-> {r \in xline[s] : ~Expired(r)}]
  /\ UNCHANGED <<resv, status>>

(* event_run; the handler of the cleanup event runs when this call fired   *)
(* it (CurrentTime does not change during the call).                       *)
LoopEventRun ==
  /\ Ev!EventRun
  /\ IF last' # last /\ fired'[Cleanup] > 0 THEN CleanupTklines ELSE UNCHANGED banVars

(* Startup: CurrentTime is 1, far after the static last's 0; the store     *)
(* holds the configuration records; the recurring cleanup task is         *)
(* registered, with or without jitter, and is the only event listed.       *)
LoopInit ==
  /\ now = 1
  /\ kline = [s \in Servers |-> ConfKlines]
  /\ dline = [s \in Servers |-> ConfDlines]
  /\ xline = [s \in Servers |-> ConfXlines]
  /\ resv = [s \in Servers |-> InitResvs]
  /\ status = [c \in Clients |-> "free"]
  /\ last = 0
  /\ when \in {[Period EXCEPT ![Cleanup] = w] :
                 w \in {Period[Cleanup]} \cup {Ev!AddishPeriod(Period[Cleanup], r) : r \in Jitters}}
  /\ evlist = <<Cleanup>>
  /\ next = [e \in Events |-> IF e = Cleanup THEN now + when[Cleanup] ELSE 0]
  /\ active = [e \in Events |-> e = Cleanup]
  /\ fired = [e \in Events |-> 0]
  /\ ran = FALSE

(* The cleanup event is never deleted or re-added; the others may be.     *)
OtherEvents(ev) ==
  /\ ev # Cleanup
  /\ \/ Ev!EventAdd(ev)
     \/ \E r \in Jitters : Ev!EventAddish(ev, r)
     \/ Ev!EventDelete(ev)
  /\ UNCHANGED banVars

LoopNext ==
  \/ \E s \in Servers : Handle(s) /\ UNCHANGED evVars
  \/ Connections /\ UNCHANGED evVars
  \/ \E ev \in Events : OtherEvents(ev)
  \/ LoopEventRun
  \/ Ev!Tick /\ UNCHANGED banVars
  \/ \E by \in 1 .. MaxBack : Ev!SetBackEvents(by) /\ UNCHANGED banVars

LoopSpec == LoopInit /\ [][LoopNext]_loopVars

-----------------------------------------------------------------------------
(* The properties of the event list, over the composed system.             *)

(* The event list's variables keep their types.                            *)
EvTypeOK == Ev!TypeOK

(* event_list stays duplicate-free, sorted by next, and holds exactly the  *)
(* active events.                                                          *)
ListWellFormed == Ev!ListWellFormed

(* No listed event is further ahead than the longest period, so a clock   *)
(* set-back never wraps ev->next.                                          *)
ListedWithinPeriod == Ev!ListedWithinPeriod

(* An effective event_run fires exactly the due events and leaves none due. *)
EventRunComplete == [][Ev!RunFiresDue]_loopVars
(* A handler's event_delete of another event holds past the event_run    *)
(* that called it: event_run re-reads the head of event_list after every  *)
(* handler, so a due event cancelled by an earlier handler is neither run *)
(* nor re-added, and one run earlier in the same pass stays deleted.      *)
HandlerCancelHolds == [][Ev!CancelSticks]_loopVars
(* Whenever the clock moves, forward or back, no active event is due at    *)
(* the second it leaves (the static last is compared for equality).        *)
NoDueEventLeftWhenClockMoves == [][Ev!ClockLeavesNoDue]_loopVars

(* Spec 4.5: an expired K-, D- or X-line is swept within one period of    *)
(* the cleanup event, whatever other events share the list, however the   *)
(* clock has been set back, and whenever the ban was added: while it is   *)
(* in a store, CurrentTime is less than its expiry plus the period.        *)
ExpiredSweptWithinPeriod ==
  \A s \in Servers : \A r \in kline[s] \cup dline[s] \cup xline[s] :
    r.until # 0 => now < r.until + when[Cleanup]
=============================================================================
