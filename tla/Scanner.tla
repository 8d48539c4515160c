------------------------------- MODULE Scanner -------------------------------
(***************************************************************************)
(* A scanner thread: start_scanner_thread, with the manager's functions it *)
(* calls (transfer_packet, scanner_done).  A step reads or writes one      *)
(* thing that another thread may change; what is between is the thread's   *)
(* own.  A thread that follows a freed or never initialised pointer kills  *)
(* the process.                                                            *)
(***************************************************************************)
EXTENDS SystemState

Goto(s, label) == pc' = [pc EXCEPT ![s] = label]
Hold(s, c)     == packet' = [packet EXCEPT ![s] = c]
(* list_enqueue(&(scanner->free_queue), packet) *)
Release(s)     == /\ free_queue' = [free_queue EXCEPT ![s] = Append(@, packet[s])]
                  /\ Hold(s, NoPacket)

(* Lines 192-214.  A table machine reads its own list; a dedicated thread  *)
(* polls, unless there is no regular thread it could poll for.             *)
ReadsOwnList(s) == isTableMachine[s] \/ num_of_regular_threads = 0

Loop(s) ==
  /\ pc[s] = "loop"
  /\ IF done[s] THEN Goto(s, "exit") /\ UNCHANGED polling
     ELSE IF ReadsOwnList(s) THEN Goto(s, "own") /\ UNCHANGED polling
     ELSE /\ Goto(s, "poll")
          /\ next_writer_id' = [next_writer_id EXCEPT ![s] =
                 IF @ = Undefined THEN num_of_dedicated_threads ELSE @]
          /\ last_writer_id' = [last_writer_id EXCEPT ![s] = next_writer_id'[s]]
  /\ UNCHANGED <<lists, free_queue, matrix, targets, counts, scanners_done,
                 stopping, modes, packet, stealing, crashed>>

(* Lines 200-203: list_dequeue on the own list.  It is one step if it      *)
(* takes the lock, or finds nothing to unlink ...                          *)
ReadOwn(s) ==
  /\ pc[s] = "own"
  /\ useLock[s] = 1 \/ list[s] = <<>>
  /\ Hold(s, First(s))
  /\ RemoveFirst(s)
  /\ IF DequeueStatus(s) = "EMPTY" THEN StopAll ELSE UNCHANGED stopping
  /\ Goto(s, "check")
  /\ UNCHANGED <<listDone, useLock, free_queue, matrix, targets, counts,
                 scanners_done, modes, stealing, polling, crashed>>

(* ... otherwise it has begun without the lock (LinkedList.c:153), and the *)
(* item is unlinked later, whatever use_lock is by then.                   *)
BeginOwn(s) ==
  /\ pc[s] = "own"
  /\ useLock[s] = 0 /\ list[s] # <<>>
  /\ Goto(s, "unlink")
  /\ UNCHANGED <<lists, free_queue, matrix, targets, counts, scanners_done,
                 stopping, modes, packet, stealing, polling, crashed>>

UnlinkOwn(s) ==
  /\ pc[s] = "unlink"
  /\ Hold(s, First(s))
  /\ RemoveFirst(s)
  /\ Goto(s, "check")
  /\ UNCHANGED <<listDone, useLock, free_queue, matrix, targets, counts,
                 scanners_done, stopping, modes, stealing, polling, crashed>>

(* Lines 217-230 and 273-281: one heavy-packet queue, and on to the next.  *)
NextWriter(w) == IF w + 1 >= NumScanners THEN num_of_dedicated_threads ELSE w + 1

Poll(s) ==
  LET wd == <<next_writer_id[s], s>> IN
  /\ pc[s] = "poll"
  /\ queueState[wd] = "live"
  /\ next_writer_id' = [next_writer_id EXCEPT ![s] = NextWriter(@)]
  /\ IF queue[wd] # <<>>
       THEN /\ Hold(s, Head(queue[wd]))
            /\ queue' = [queue EXCEPT ![wd] = Tail(@)]
            /\ Goto(s, "check")
            /\ last_writer_id' = [last_writer_id EXCEPT ![s] = Undefined]
       ELSE /\ Goto(s, IF next_writer_id'[s] = last_writer_id[s] THEN "fallback" ELSE "poll")
            /\ UNCHANGED <<queue, packet, last_writer_id>>
  /\ UNCHANGED <<lists, free_queue, queueState, targets, counts, scanners_done,
                 stopping, modes, stealing, crashed>>

(* Lines 266-279: all queues were found empty, try the own list: with the  *)
(* lock, or nobody steals.                                                 *)
Fallback(s) ==
  /\ pc[s] = "fallback"
  /\ Hold(s, First(s))
  /\ RemoveFirst(s)
  /\ IF DequeueStatus(s) = "SUCCESS" \/ done[s]
       THEN /\ Goto(s, "check")
            /\ last_writer_id' = [last_writer_id EXCEPT ![s] = Undefined]
       ELSE Goto(s, "poll") /\ UNCHANGED last_writer_id
  /\ IF DequeueStatus(s) = "EMPTY" /\ ~ done[s] THEN StopAll ELSE UNCHANGED stopping
  /\ UNCHANGED <<listDone, useLock, free_queue, matrix, targets, counts,
                 scanners_done, modes, stealing, next_writer_id, crashed>>

(* Mutant: a scanner without a packet tries again. *)
CheckAgain(s) ==
  /\ pc[s] = "check"
  /\ IF done[s] THEN Goto(s, "exit") /\ Hold(s, NoPacket)
     ELSE Goto(s, IF packet[s] = NoPacket THEN "loop" ELSE "match") /\ UNCHANGED packet
  /\ UNCHANGED <<lists, free_queue, matrix, targets, counts, scanners_done,
                 stopping, modes, stealing, polling, crashed>>

(* Mutant: done is not looked at again. *)
CheckPacket(s) ==
  /\ pc[s] = "check"
  /\ Goto(s, IF packet[s] = NoPacket THEN "exit"
             ELSE IF isTableMachine[s] /\ num_of_regular_threads # 0 THEN "table" ELSE "match")
  /\ UNCHANGED <<lists, free_queue, matrix, targets, counts, scanners_done,
                 stopping, modes, packet, stealing, polling, crashed>>

(* Lines 291-361 and 570: a scanner told to stop forgets the packet it has *)
(* just taken.                                                             *)
Check(s) ==
  /\ pc[s] = "check"
  /\ IF done[s] \/ packet[s] = NoPacket
       THEN Goto(s, "exit") /\ Hold(s, NoPacket)
       ELSE Goto(s, IF isTableMachine[s] /\ num_of_regular_threads # 0 THEN "table" ELSE "match")
            /\ UNCHANGED packet
  /\ UNCHANGED <<lists, free_queue, matrix, targets, counts, scanners_done,
                 stopping, modes, stealing, polling, crashed>>

(* Lines 363-369: the dedicated scan, which never transfers. *)
Match(s) ==
  /\ pc[s] = "match"
  /\ Release(s)
  /\ Goto(s, "loop")
  /\ UNCHANGED <<lists, matrix, targets, counts, scanners_done, stopping,
                 modes, stealing, polling, crashed>>

(* Lines 403-450: alert_mode_active is read once, when the scan starts.    *)
MatchTable(s) ==
  /\ pc[s] = "table"
  /\ IF alert_mode_active[s] /\ IsHeavy(packet[s])
       THEN Goto(s, "transfer") /\ UNCHANGED <<free_queue, packet>>
       ELSE Release(s) /\ Goto(s, "loop")
  /\ UNCHANGED <<lists, matrix, targets, counts, scanners_done, stopping,
                 modes, stealing, polling, crashed>>

(* multicore_manager_transfer_packet, lines 394-396. *)
TargetReadable(s) == ~ targetsFreed /\ next_target[s] # Undefined

PickTarget(s) ==
  /\ pc[s] = "transfer"
  /\ TargetReadable(s)
  /\ dest_thread' = [dest_thread EXCEPT ![s] = next_target[s]]
  /\ next_target' = [next_target EXCEPT ![s] =
         (@ + num_of_regular_threads) % num_of_dedicated_threads]
  /\ Goto(s, "enqueue")
  /\ UNCHANGED <<lists, free_queue, matrix, targetsFreed, counts, scanners_done,
                 stopping, modes, packet, next_packet, to_steal, polling, crashed>>

(* Mutant: the last one is dequeued first. *)
PutBefore(wd, c) == queue' = [queue EXCEPT ![wd] = <<c>> \o @]

(* multicore_manager_transfer_packet, lines 402-403. *)
PutHeavy(wd, c) == queue' = [queue EXCEPT ![wd] = Append(@, c)]

EnqueueHeavy(s) ==
  LET wd == <<s, dest_thread[s]>> IN
  /\ pc[s] = "enqueue"
  /\ queueState[wd] = "live"
  /\ PutHeavy(wd, packet[s])
  /\ Hold(s, NoPacket)
  /\ to_steal' = [to_steal EXCEPT ![s] = PacketsToSteal]
  /\ Goto(s, "steal")
  /\ UNCHANGED <<lists, free_queue, queueState, targets, counts, scanners_done,
                 stopping, modes, next_packet, dest_thread, polling, crashed>>

(* Lines 482-483: take a packet from the list of the thread that got the   *)
(* heavy one ...                                                           *)
StealTake(s) ==
  /\ pc[s] = "steal"
  /\ to_steal[s] > 0
  /\ pc[dest_thread[s]] # "unlink"
  /\ next_packet' = [next_packet EXCEPT ![s] = First(dest_thread[s])]
  /\ RemoveFirst(dest_thread[s])
  /\ to_steal' = [to_steal EXCEPT ![s] = @ - 1]
  /\ Goto(s, IF next_packet'[s] = NoPacket THEN "steal" ELSE "reinsert")
  /\ UNCHANGED <<listDone, useLock, free_queue, matrix, targets, counts,
                 scanners_done, stopping, modes, packet, dest_thread, polling, crashed>>

(* ... or, with its lock, while the owner is in a dequeue that it began    *)
(* without: both may get the same packet, and the pointers of the list are *)
(* anyone's guess (LinkedList, DequeuedOnce).  The run is followed no      *)
(* further.                                                                *)
StealOverlap(s) ==
  LET d == dest_thread[s] IN
  /\ pc[s] = "steal"
  /\ to_steal[s] > 0
  /\ pc[d] = "unlink"
  /\ next_packet' = [next_packet EXCEPT ![s] = First(d)]
  /\ Hold(d, First(d))
  /\ RemoveFirst(d)
  /\ crashed' = "overlap"
  /\ UNCHANGED <<listDone, useLock, free_queue, matrix, targets, counts, scanners_done,
                 stopping, modes, pc, dest_thread, to_steal, polling>>

(* Mutant: the list is forgotten. *)
PutOnly(s, c) == list' = [list EXCEPT ![s] = <<c>>]

(* Line 485: it is put first in the own list (list_insert_first). *)
PutFirst(s, c) == list' = [list EXCEPT ![s] = <<c>> \o @]

StealPut(s) ==
  /\ pc[s] = "reinsert"
  /\ PutFirst(s, next_packet[s])
  /\ next_packet' = [next_packet EXCEPT ![s] = NoPacket]
  /\ Goto(s, "steal")
  /\ UNCHANGED <<listDone, useLock, free_queue, matrix, targets, counts,
                 scanners_done, stopping, modes, packet, dest_thread, to_steal,
                 polling, crashed>>

StealEnd(s) ==
  /\ pc[s] = "steal"
  /\ to_steal[s] = 0
  /\ dest_thread' = [dest_thread EXCEPT ![s] = Undefined]
  /\ Goto(s, "loop")
  /\ UNCHANGED <<lists, free_queue, matrix, targets, counts, scanners_done,
                 stopping, modes, packet, next_packet, to_steal, polling, crashed>>

(* Line 612, multicore_manager_scanner_done: an atomic add. *)
ScannerDone(s) ==
  /\ pc[s] = "exit"
  /\ scanners_done' = scanners_done + 1
  /\ Goto(s, "gone")
  /\ UNCHANGED <<lists, free_queue, matrix, targets, counts, stopping, modes,
                 packet, stealing, polling, crashed>>

(* The scanner uses next_target or a queue that is not there any more, or  *)
(* that never was.                                                         *)
Crash(s) ==
  /\ \/ /\ pc[s] = "transfer" /\ ~ TargetReadable(s)
        /\ crashed' = IF targetsFreed THEN "freed" ELSE "no_target"
     \/ /\ pc[s] = "enqueue" /\ queueState[<<s, dest_thread[s]>>] # "live"
        /\ crashed' = queueState[<<s, dest_thread[s]>>]
     \/ /\ pc[s] = "poll" /\ queueState[<<next_writer_id[s], s>>] # "live"
        /\ crashed' = queueState[<<next_writer_id[s], s>>]
  /\ UNCHANGED <<lists, free_queue, matrix, targets, counts, scanners_done,
                 stopping, modes, scannerLocals>>

ScannerStep(s) ==
  \/ Loop(s) \/ ReadOwn(s) \/ BeginOwn(s) \/ UnlinkOwn(s) \/ Poll(s) \/ Fallback(s)
  \/ Check(s)
  \/ Match(s) \/ MatchTable(s) \/ PickTarget(s) \/ EnqueueHeavy(s)
  \/ StealTake(s) \/ StealOverlap(s) \/ StealPut(s) \/ StealEnd(s)
  \/ ScannerDone(s) \/ Crash(s)
=============================================================================
