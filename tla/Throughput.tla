------------------------------ MODULE Throughput ------------------------------
(***************************************************************************)
(* What the system reports of its own speed: the bytes each scanner counts *)
(* as scanned (bytes_scanned, bytes_scanned_since_alert) and the time line *)
(* of the global timer, while packets are scanned, transferred and taken   *)
(* over, and the manager switches alert mode on and stops the run.         *)
(*                                                                         *)
(* The build is one with GLOBAL_TIMING and EXTRA_EVENTS; the manager's     *)
(* event for every look at the rates is left out.                          *)
(*                                                                         *)
(* Scanners below NumDedicated become dedicated. What the threads do with  *)
(* the packets besides counting them is Mca2; here a scanner takes some    *)
(* packet, or one of the heavy ones passed on. The counters are unsigned   *)
(* long, here they may go below zero: a wrapped counter is a negative one. *)
(***************************************************************************)
EXTENDS GlobalTimer, Functions, FiniteSets

CONSTANTS
  NumDedicated,
  PacketsToSteal,
  Sizes,        (* the sizes of packets                                    *)
  ReportEvery,  (* GLOBAL_TIMER_SCANNER_REPORT_INTERVAL; the manager is    *)
                (* updated, and num_total reset, at the same packets       *)
  MaxPackets    (* bound on the packets of a list; all lists have the same *)

ASSUME ThroughputAssumption ==
  /\ NumDedicated \in 0 .. NumScanners - 1
  /\ Sizes \subseteq Nat \ {0} /\ Sizes # {}
  /\ PacketsToSteal \in Nat
  /\ ReportEvery \in Nat \ {0} /\ MaxPackets \in Nat

VARIABLES
  pc, after, place,           (* per actor; where it goes when its event is   *)
                              (* logged; its id in global_timer_set_event    *)
  logged,                     (* per scanner: what it has logged already     *)
  packet,                     (* per scanner: packet->size, last_idx_in_root *)
                              (* and whether it came from the own list       *)
  left,                       (* packets in the scanner's list               *)
  heavy,                      (* the heavy packets passed on                 *)
  isTableMachine, alert_mode_active, done,
  stopped,                    (* manager->stopped                            *)
  bytes_scanned, bytes_scanned_since_alert,
  bytes_scanned_recently, num_total,
  main,
  begun,      (* history: bytes of the packets taken from lists and counted  *)
  skipped     (* history: per scanner, bytes taken off for having been       *)
              (* scanned before the packet was passed on                     *)

packets  == <<packet, left, heavy>>
modes    == <<isTableMachine, alert_mode_active>>
stopping == <<done, stopped>>
counts   == <<bytes_scanned, bytes_scanned_since_alert, bytes_scanned_recently, num_total>>
history  == <<begun, skipped>>
threads == <<pc, after, place, logged>>
vars == <<timerVars, eventVars, threads, packets, modes, stopping, counts, main, history>>

Manager == NumScanners
Actors  == Scanners \union {Manager}
NoPacket == [size |-> 0, last |-> 0, own |-> TRUE]

Goto(a, label) ==
  pc' = [pc EXCEPT ![a] = label] /\ UNCHANGED <<after, place, logged>>

(* global_timer_set_event, and on to label.                                *)
EventThen(a, label) ==
  /\ pc' = [pc EXCEPT ![a] = "event"] /\ after' = [after EXCEPT ![a] = label]
  /\ UNCHANGED <<place, logged>>

(* The scanners' events, each of them logged once.                         *)
EventOnce(s, kind, label) ==
  IF kind \in logged[s] THEN Goto(s, label)
  ELSE /\ pc' = [pc EXCEPT ![s] = "event"] /\ after' = [after EXCEPT ![s] = label]
       /\ logged' = [logged EXCEPT ![s] = @ \union {kind}]
       /\ UNCHANGED place

Plus(f, s, n)  == [f EXCEPT ![s] = @ + n]

Init ==
  /\ TimerInit
  /\ pc = [a \in Actors |-> IF a = Manager THEN "event" ELSE "loop"]
  /\ after = [a \in Actors |-> IF a = Manager THEN "watch" ELSE "loop"]
  /\ logged = [s \in Scanners |-> {}]
  /\ place = [a \in Actors |-> 0]
  /\ packet = [s \in Scanners |-> NoPacket]
  /\ left \in {[s \in Scanners |-> n] : n \in 0 .. MaxPackets}
  /\ heavy = <<>>
  /\ isTableMachine = [s \in Scanners |-> TRUE]
  /\ alert_mode_active = [s \in Scanners |-> FALSE]
  /\ done = [s \in Scanners |-> FALSE] /\ stopped = FALSE
  /\ bytes_scanned = None /\ bytes_scanned_since_alert = None
  /\ bytes_scanned_recently = None /\ num_total = None
  /\ main = "start"
  /\ begun = 0 /\ skipped = None

-----------------------------------------------------------------------------
(* The scanners run once main has started them.                            *)
Running == main # "start"

(* Lines 192-283: a packet of the own list, or for a dedicated scanner a   *)
(* heavy one if there is any. All lists are done before the scanners run:  *)
(* an empty one ends a table machine's thread; a dedicated one polls on.   *)
TakeOwn(s) ==
  /\ left[s] > 0
  /\ isTableMachine[s] \/ heavy = <<>>
  /\ left' = Plus(left, s, -1)
  /\ \E z \in Sizes : packet' = [packet EXCEPT ![s] = [size |-> z, last |-> 0, own |-> TRUE]]
  /\ Goto(s, "count")
  /\ UNCHANGED heavy

TakeHeavy(s) ==
  /\ ~ isTableMachine[s] /\ heavy # <<>>
  /\ packet' = [packet EXCEPT ![s] = Head(heavy)]
  /\ heavy' = Tail(heavy)
  /\ EventOnce(s, "First packet from the cyclic queue", "count")
  /\ UNCHANGED left

QueueIsEmpty(s) ==
  /\ isTableMachine[s] /\ left[s] = 0
  /\ EventOnce(s, "Queue is empty", "gone")
  /\ UNCHANGED packets

Stopping(s) ==
  /\ done[s]
  /\ \/ Goto(s, "gone")
     \/ ~ isTableMachine[s] /\ left[s] = 0 /\ heavy = <<>>
        /\ EventOnce(s, "Dedicated thread is stopping", "gone")
  /\ UNCHANGED packets

Take(s) ==
  /\ Running /\ pc[s] = "loop"
  /\ \/ Stopping(s)
     \/ ~ done[s] /\ (TakeOwn(s) \/ TakeHeavy(s) \/ QueueIsEmpty(s))
  /\ UNCHANGED <<timerVars, eventVars, modes, stopping, counts, main, history>>

(* A bug: the bytes scanned before are never taken off.                    *)
NothingScanned(s) == 0

(* Lines 335-346: what was scanned before is taken off only in alert mode. *)
ScannedBefore(s) == IF alert_mode_active[s] /\ ~ stopped THEN packet[s].last ELSE 0

(* Lines 291 and 333-351. *)
Count(s) ==
  /\ pc[s] = "count"
  /\ IF done[s] THEN Goto(s, "gone") /\ UNCHANGED <<counts, history>>
     ELSE /\ bytes_scanned' = Plus(bytes_scanned, s, packet[s].size - ScannedBefore(s))
          /\ bytes_scanned_since_alert' = Plus(bytes_scanned_since_alert, s,
                 IF alert_mode_active[s] /\ ~ stopped
                   THEN packet[s].size - ScannedBefore(s) ELSE 0)
          /\ bytes_scanned_recently' = Plus(bytes_scanned_recently, s, packet[s].size)
          /\ num_total' = Plus(num_total, s, 1)
          /\ begun' = begun + (IF packet[s].own THEN packet[s].size ELSE 0)
          /\ skipped' = Plus(skipped, s, ScannedBefore(s))
          /\ Goto(s, "scan")
  /\ UNCHANGED <<timerVars, eventVars, packets, modes, stopping, main>>

Finish(s) ==
  /\ packet' = [packet EXCEPT ![s] = NoPacket]
  /\ Goto(s, "report")
  /\ UNCHANGED <<left, heavy, counts>>

(* A bug: the bytes since the alert are not taken back.                    *)
TakeBackAll(s, n) ==
  /\ bytes_scanned' = Plus(bytes_scanned, s, - n)
  /\ bytes_scanned_recently' = Plus(bytes_scanned_recently, s, - n)
  /\ UNCHANGED bytes_scanned_since_alert

(* Lines 452-459 *)
TakeBack(s, n) ==
  /\ bytes_scanned' = Plus(bytes_scanned, s, - n)
  /\ bytes_scanned_since_alert' = Plus(bytes_scanned_since_alert, s, - n)
  /\ bytes_scanned_recently' = Plus(bytes_scanned_recently, s, - n)

(* Lines 482-500: packets taken in exchange from the list of d.            *)
Steal(s, d) ==
  LET n == IF left[d] < PacketsToSteal THEN left[d] ELSE PacketsToSteal
  IN /\ left' = Plus(Plus(left, d, - n), s, n)
     /\ IF n > 0 THEN EventOnce(s, "First packet from a foreign queue", "report")
                 ELSE Goto(s, "report")

(* Lines 452-501: the table machine's scan finds the packet heavy; the     *)
(* bytes from the last visit to the root on are left to a dedicated thread.*)
PassOn(s) ==
  /\ isTableMachine[s] /\ NumDedicated > 0 /\ alert_mode_active[s]
  /\ \E last \in 0 .. packet[s].size - 1 :
       /\ TakeBack(s, packet[s].size - last)
       /\ heavy' = Append(heavy, [size |-> packet[s].size, last |-> last, own |-> FALSE])
  /\ \E d \in 0 .. NumDedicated - 1 : Steal(s, d)
  /\ packet' = [packet EXCEPT ![s] = NoPacket]
  /\ UNCHANGED num_total

Scan(s) ==
  /\ pc[s] = "scan"
  /\ Finish(s) \/ PassOn(s)
  /\ UNCHANGED <<timerVars, eventVars, modes, stopping, main, history>>

(* Lines 541-552 *)
Report(s) ==
  /\ pc[s] = "report"
  /\ IF num_total[s] % ReportEvery = 0
       THEN /\ global_timer_set(s, bytes_scanned_recently[s])
            /\ bytes_scanned_recently' = [bytes_scanned_recently EXCEPT ![s] = 0]
            /\ num_total' = [num_total EXCEPT ![s] = 0]
       ELSE UNCHANGED <<timerVars, bytes_scanned_recently, num_total>>
  /\ Goto(s, "loop")
  /\ UNCHANGED <<eventVars, packets, modes, stopping,
                 bytes_scanned, bytes_scanned_since_alert, main, history>>

-----------------------------------------------------------------------------
(* An event takes two steps.                                               *)
LogEvent(a) ==
  /\ Running /\ pc[a] = "event"
  /\ place' = [place EXCEPT ![a] = evt_id]
  /\ TakePlace
  /\ pc' = [pc EXCEPT ![a] = "store"]
  /\ UNCHANGED <<timerVars, after, logged, packets, modes, stopping, counts, main, history>>

Store(a) ==
  /\ pc[a] = "store"
  /\ StoreEvent(place[a])
  /\ pc' = [pc EXCEPT ![a] = after[a]]
  /\ after' = [after EXCEPT ![a] = "loop"] /\ place' = [place EXCEPT ![a] = 0]
  /\ UNCHANGED <<timerVars, logged, packets, modes, stopping, counts, main, history>>

-----------------------------------------------------------------------------
(* The manager, lines 270-299. Alert mode may begin, with an event, ...    *)
managerOthers == <<timerVars, eventVars, packets, counts, main, history>>

Gone == {s \in Scanners : pc[s] = "gone"}

EndWatch ==
  /\ pc[Manager] = "watch"
  /\ stopped \/ Gone = Scanners
  /\ stopped' = TRUE
  /\ Goto(Manager, "gone")
  /\ UNCHANGED <<managerOthers, modes, done>>

Alert ==
  /\ pc[Manager] = "watch" /\ ~ stopped
  /\ EventThen(Manager, "switch_type")
  /\ UNCHANGED <<managerOthers, modes, stopping>>

(* ... the scanners are switched one after the other, type and then mode.  *)
(* A scanner whose mode is not on yet is the next.                         *)
NextToSwitch(s) == ~ alert_mode_active[s] /\ \A t \in 0 .. s - 1 : alert_mode_active[t]

SwitchType ==
  /\ pc[Manager] = "switch_type"
  /\ \E s \in Scanners :
       /\ NextToSwitch(s)
       /\ isTableMachine' = [isTableMachine EXCEPT ![s] = s >= NumDedicated]
  /\ Goto(Manager, "switch_mode")
  /\ UNCHANGED <<managerOthers, alert_mode_active, stopping>>

SwitchMode ==
  /\ pc[Manager] = "switch_mode"
  /\ \E s \in Scanners :
       /\ NextToSwitch(s)
       /\ alert_mode_active' = [alert_mode_active EXCEPT ![s] = TRUE]
  /\ Goto(Manager, IF \A s \in Scanners : alert_mode_active'[s] THEN "alert" ELSE "switch_type")
  /\ UNCHANGED <<managerOthers, isTableMachine, stopping>>

(* Lines 153-156 *)
RegularsDone ==
  /\ pc[Manager] = "alert"
  /\ done' = IF Cardinality(Gone) = NumScanners - NumDedicated
               THEN [s \in Scanners |-> done[s] \/ s < NumDedicated] ELSE done
  /\ Goto(Manager, "inputs")
  /\ UNCHANGED <<managerOthers, modes, stopped>>

(* Lines 166-175 and 202 *)
InputsEmpty ==
  /\ pc[Manager] = "inputs"
  /\ IF \A s \in NumDedicated .. NumScanners - 1 : left[s] = 0
       THEN EventThen(Manager, "stop")
       ELSE IF stopped THEN EventThen(Manager, "gone") ELSE Goto(Manager, "alert")
  /\ UNCHANGED <<managerOthers, modes, stopping>>

Stop ==
  /\ pc[Manager] = "stop"
  /\ stopped' = TRUE
  /\ Goto(Manager, "stop_scanners")
  /\ UNCHANGED <<managerOthers, modes, done>>

(* Lines 178-180, and the event at 220 *)
StopScanners ==
  /\ pc[Manager] = "stop_scanners"
  /\ done' = [s \in Scanners |-> TRUE]
  /\ EventThen(Manager, "gone")
  /\ UNCHANGED <<managerOthers, modes, stopped>>

-----------------------------------------------------------------------------
(* inspectDumpFile, from the start of the timer on.                        *)
mainOnly == <<eventVars, threads, packets, modes, done, counts, history>>

StartTimer ==
  /\ main = "start"
  /\ global_timer_start
  /\ main' = "join_scanners"
  /\ UNCHANGED <<stopped, mainOnly>>

EndTimer ==
  /\ main = "join_scanners"
  /\ \A s \in Scanners : pc[s] = "gone"
  /\ global_timer_end
  /\ main' = "stop_manager"
  /\ UNCHANGED <<stopped, mainOnly>>

StopManager ==
  /\ main = "stop_manager"
  /\ stopped' = TRUE
  /\ main' = "join"
  /\ UNCHANGED <<timerVars, mainOnly>>

JoinBoth ==
  /\ main = "join"
  /\ pc[Manager] = "gone" /\ tpc = "gone"
  /\ main' = "results"
  /\ UNCHANGED <<timerVars, stopped, mainOnly>>

GetResults ==
  /\ main = "results"
  /\ global_timer_get_results
  /\ main' = "done"
  /\ UNCHANGED <<stopped, mainOnly>>

Timer ==
  /\ TimerStep
  /\ UNCHANGED <<main, stopped, mainOnly>>

ScannerStep(s) == Take(s) \/ Count(s) \/ Scan(s) \/ Report(s)
EventStep(a)   == LogEvent(a) \/ Store(a)
ManagerStep    == EndWatch \/ SwitchType \/ SwitchMode \/ RegularsDone \/ InputsEmpty
                    \/ Stop \/ StopScanners
MainStep       == StartTimer \/ EndTimer \/ StopManager \/ JoinBoth \/ GetResults

Next ==
  \/ \E s \in Scanners : ScannerStep(s)
  \/ \E a \in Actors : EventStep(a)
  \/ Alert \/ ManagerStep \/ MainStep \/ Timer

Spec == Init /\ [][Next]_vars

-----------------------------------------------------------------------------
Total(f) == SumFunctionOnSet(f, Scanners)

(* What is left to scan of the heavy packets that wait, in the queue or in *)
(* the hand of a dedicated scanner that has not counted them.              *)
LeftOf(p) == p.size - p.last

NotCounted(s) ==
  ~ packet[s].own /\ \/ pc[s] \in {"count", "gone"}
                     \/ pc[s] \in {"event", "store"} /\ after[s] = "count"

InQueue == [i \in DOMAIN heavy |-> LeftOf(heavy[i])]
InHands == [s \in Scanners |-> IF NotCounted(s) THEN LeftOf(packet[s]) ELSE 0]

Waiting == SumFunctionOnSet(InQueue, DOMAIN heavy) + Total(InHands)

(* A packet's bytes are counted by one scanner only, however it is passed  *)
(* on: the counters add up to what was taken from the lists less what      *)
(* waits to be scanned by a dedicated scanner. Once the run is stopped     *)
(* (Scanner.c:335) a packet received may be counted in full, never less.   *)
EachByteCountedOnce ==
  LET counted == begun - Waiting IN
  IF stopped THEN Total(bytes_scanned) >= counted ELSE Total(bytes_scanned) = counted

(* The bytes since the alert are a part of all the bytes; before the stop  *)
(* the counter goes below zero (the code's unsigned one wraps) by no more  *)
(* than the one packet in hand when the mode was switched, counted before  *)
(* and taken back after (Scanner.c:335 and 458). After it there is no      *)
(* bound: every packet is counted in bytes_scanned only, and taken back    *)
(* from both.                                                              *)
SinceAlertOnce ==
  \A s \in Scanners :
    /\ bytes_scanned_since_alert[s] <= bytes_scanned[s]
    /\ stopped \/ \E size \in Sizes : bytes_scanned_since_alert[s] >= - size

(* The time line has every byte: a scanner's rates, what waits to be       *)
(* collected or reported and what the timer has in hand add up to its      *)
(* bytes_scanned, plus the bytes of packets received which another scanner *)
(* had scanned (bytes_scanned_recently never leaves them out).             *)
TimelineComplete ==
  \A s \in Scanners :
    LET inHand == IF tpc = "keep" /\ ti = s THEN bytes ELSE 0
    IN SumFunction(lists[s]) + SumFunction(results[s]) + inHand
         + bytes_processed[s] + bytes_scanned_recently[s]
       = bytes_scanned[s] + skipped[s]

(* When main asks for the results, every list has a rate for every         *)
(* interval and none besides, so that "ERROR: Failed to dequeue!           *)
(* (GlobalTimer)" is not printed: the timer thread ends between intervals. *)
RatesComplete ==
  main = "results" => \A s \in Scanners : Len(lists[s]) = intervals

(* No event is lost when several threads log one at once: while the array  *)
(* has a place for all of them, those main prints are all that were logged.*)
EventsKept ==
  main = "done" /\ evt_id <= MaxEvents => EventCount = evt_id

(* The measurements are complete: the time line, the rates and the events. *)
MeasurementsComplete == TimelineComplete /\ RatesComplete /\ EventsKept
=============================================================================
