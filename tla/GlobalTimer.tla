----------------------------- MODULE GlobalTimer -----------------------------
(***************************************************************************)
(* Common/GlobalTimer.c, compiled in with GLOBAL_TIMING: scanners add the  *)
(* bytes they scanned to a counter each, a thread of its own takes the     *)
(* counters every interval and keeps one rate per scanner and interval,    *)
(* and everyone logs events in an array of fixed size. A rate is kept as   *)
(* the bytes it was made from.                                             *)
(***************************************************************************)
EXTENDS Integers, Sequences

CONSTANTS
  NumScanners,
  MaxEvents,     (* MAX_NUM_OF_EVENTS                                      *)
  MaxIntervals   (* bound on the intervals of a run: how long it lasts     *)

ASSUME TimerAssumption ==
  /\ NumScanners \in Nat \ {0}
  /\ MaxEvents \in Nat /\ MaxIntervals \in Nat

VARIABLES
  bytes_processed,   (* per scanner: added since the last collection       *)
  lists,             (* per scanner: the rates, one per interval           *)
  intervals,
  timer_stopped,     (* gtimer->stopped                                    *)
  tpc, ti, bytes,    (* the timer thread: where it is, its locals i, bytes *)
  results,           (* of global_timer_get_results                        *)
  evt_id, events     (* the next event's place; the places filled          *)

timerVars == <<bytes_processed, lists, intervals, timer_stopped, tpc, ti, bytes, results>>
eventVars == <<evt_id, events>>

Scanners == 0 .. NumScanners - 1
None     == [s \in Scanners |-> 0]
NoResult == [s \in Scanners |-> <<>>]

(* global_timer_init *)
TimerInit ==
  /\ bytes_processed = None /\ lists = NoResult /\ intervals = 0
  /\ timer_stopped = FALSE /\ tpc = "off" /\ ti = 0 /\ bytes = 0
  /\ results = NoResult
  /\ evt_id = 0 /\ events = {}

(* global_timer_start *)
global_timer_start ==
  /\ tpc' = "test" /\ timer_stopped' = FALSE
  /\ UNCHANGED <<bytes_processed, lists, intervals, ti, bytes, results>>

(* An atomic addition. *)
global_timer_set(s, n) ==
  /\ bytes_processed' = [bytes_processed EXCEPT ![s] = @ + n]
  /\ UNCHANGED <<lists, intervals, timer_stopped, tpc, ti, bytes, results>>

global_timer_end ==
  /\ timer_stopped' = TRUE
  /\ UNCHANGED <<bytes_processed, lists, intervals, tpc, ti, bytes, results>>

(* The test of the thread's loop, then nanosleep and the first scanner.    *)
TestStopped ==
  /\ tpc = "test"
  /\ IF timer_stopped THEN tpc' = "gone" ELSE tpc' = "sleep"
  /\ UNCHANGED <<bytes_processed, lists, intervals, timer_stopped, ti, bytes, results>>

Sleep ==
  /\ tpc = "sleep"
  /\ intervals < MaxIntervals \/ timer_stopped
  /\ tpc' = "collect" /\ ti' = 0
  /\ UNCHANGED <<bytes_processed, lists, intervals, timer_stopped, bytes, results>>

(* A bug: the counter is read and not zeroed.                              *)
ReadBytes ==
  /\ tpc = "collect"
  /\ bytes' = bytes_processed[ti]
  /\ tpc' = "keep"
  /\ UNCHANGED <<bytes_processed, lists, intervals, timer_stopped, ti, results>>

(* An atomic exchange with 0. *)
Collect ==
  /\ tpc = "collect"
  /\ bytes' = bytes_processed[ti]
  /\ bytes_processed' = [bytes_processed EXCEPT ![ti] = 0]
  /\ tpc' = "keep"
  /\ UNCHANGED <<lists, intervals, timer_stopped, ti, results>>

Keep ==
  /\ tpc = "keep"
  /\ lists' = [lists EXCEPT ![ti] = Append(@, bytes)]
  /\ bytes' = 0 /\ ti' = ti + 1
  /\ tpc' = IF ti + 1 < NumScanners THEN "collect" ELSE "count"
  /\ UNCHANGED <<bytes_processed, intervals, timer_stopped, results>>

CountInterval ==
  /\ tpc = "count"
  /\ intervals' = intervals + 1
  /\ tpc' = "test"
  /\ UNCHANGED <<bytes_processed, lists, timer_stopped, ti, bytes, results>>

TimerStep == TestStopped \/ Sleep \/ Collect \/ Keep \/ CountInterval

(* global_timer_get_results: a rate per interval of every list, in order;  *)
(* the process exits if a list has fewer.                                  *)
RatesMissing == \E s \in Scanners : Len(lists[s]) < intervals

global_timer_get_results ==
  /\ ~ RatesMissing
  /\ results' = [s \in Scanners |-> SubSeq(lists[s], 1, intervals)]
  /\ lists' = [s \in Scanners |-> SubSeq(lists[s], intervals + 1, Len(lists[s]))]
  /\ UNCHANGED <<bytes_processed, intervals, timer_stopped, tpc, ti, bytes>>

-----------------------------------------------------------------------------
(* global_timer_set_event takes a place by an atomic addition ...          *)
TakePlace == evt_id' = evt_id + 1 /\ UNCHANGED events

(* A bug: it is stored at the last place taken.                            *)
StoreLast(id) == events' = events \union {evt_id - 1} /\ UNCHANGED evt_id

(* ... and stores its event there later.                                   *)
StoreEvent(id) == events' = events \union {id} /\ UNCHANGED evt_id

(* global_timer_get_events: the events before the first empty place.       *)
EventCount ==
  CHOOSE n \in 0 .. MaxEvents :
    (\A id \in 0 .. n - 1 : id \in events) /\ (n < MaxEvents => n \notin events)
=============================================================================
