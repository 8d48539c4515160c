--------------------------- MODULE MulticoreManager ---------------------------
(***************************************************************************)
(* The manager thread: start_multicore_manager_thread and                  *)
(* handle_alert_mode, without ALERT_MODE_RECHECK.  The rate of heavy       *)
(* packets decides only whether and how far to go into alert mode; the     *)
(* choice is left open here (HeavyRate models the counters).               *)
(***************************************************************************)
EXTENDS SystemState

VARIABLES
  mpc,          (* where the manager thread is                             *)
  mi,           (* its loop variable i                                     *)
  mj            (* its loop variable j, where there are two loops          *)

managerLocals == <<mpc, mi, mj>>
scannerSide == <<free_queue, scannerLocals, crashed>>

Ded == num_of_dedicated_threads
Reg == num_of_regular_threads

ManagerInit == mpc = "off" /\ mi = 0 /\ mj = 0

MGoto(label, i) == mpc' = label /\ mi' = i /\ mj' = 0

(* Lines 270-289.  Thresholds and rate are such that at least one work     *)
(* group is assigned once alert mode is entered.                           *)
Watch ==
  /\ mpc = "watch"
  /\ IF stopped THEN MGoto("gone", 0)
     ELSE \/ MGoto("count", 0)
          \/ \E groups \in 1 .. MaxWorkGroups : MGoto("prepare", groups)
  /\ UNCHANGED <<lists, matrix, targets, counts, scanners_done, stopping, modes, scannerSide>>

(* Lines 297-299. *)
CountDone ==
  /\ mpc = "count"
  /\ stopped' = (stopped \/ scanners_done = NumScanners)
  /\ MGoto("watch", 0)
  /\ UNCHANGED <<lists, matrix, targets, counts, scanners_done, done, modes, scannerSide>>

(* Mutant: queues and targets for all threads. *)
EveryThread(s, ded) == TRUE

(* Row s of the matrix is used: its thread stays regular. *)
Producer(s, ded) == s >= ded

(* Lines 51-104: nobody reads the targets and the queues before alert mode *)
(* is switched on, they are filled in one step.                            *)
Prepare ==
  LET ded == mi * WorkGroupSize
      reg == NumScanners - ded
  IN
  /\ mpc = "prepare"
  /\ ded <= NumScanners
  /\ alert_mode_used' = TRUE
  /\ next_target' = [s \in Scanners |->
         IF Producer(s, ded) THEN (s - ded) % ded ELSE next_target[s]]
  /\ queueState' = [wd \in Pairs |->
         IF Producer(wd[1], ded) /\ wd[2] < ded THEN "live" ELSE queueState[wd]]
  /\ MGoto("publish", mi)
  /\ UNCHANGED <<lists, queue, targetsFreed, num_of_regular_threads,
                 num_of_dedicated_threads, scanners_done, stopping, modes, scannerSide>>

(* Lines 82-104: with more dedicated threads than there are threads the    *)
(* number of regular ones is negative, and the loop over them, by an       *)
(* unsigned variable, fills the memory behind the matrix with queues until *)
(* the process dies of it.                                                 *)
OverrunMatrix ==
  /\ mpc = "prepare"
  /\ mi * WorkGroupSize > NumScanners
  /\ crashed' = "matrix"
  /\ UNCHANGED <<managerLocals, lists, matrix, targets, counts, scanners_done,
                 stopping, modes, free_queue, scannerLocals>>

(* Line 114, then line 115. *)
PublishRegular ==
  /\ mpc = "publish"
  /\ num_of_regular_threads' = NumScanners - mi * WorkGroupSize
  /\ MGoto("publish_dedicated", mi)
  /\ UNCHANGED <<lists, matrix, targets, num_of_dedicated_threads, alert_mode_used,
                 scanners_done, stopping, modes, scannerSide>>

PublishDedicated ==
  /\ mpc = "publish_dedicated"
  /\ num_of_dedicated_threads' = mi * WorkGroupSize
  /\ MGoto("switch_type", 0)
  /\ UNCHANGED <<lists, matrix, targets, num_of_regular_threads, alert_mode_used,
                 scanners_done, stopping, modes, scannerSide>>

(* Mutant: the lock for the threads that stay regular. *)
RegularLocked(s) == s >= Ded

(* A dedicated thread's list is shared with those that steal from it. *)
Locked(s) == s < Ded /\ Reg > 0

(* Lines 118-134, for thread mi: its list's lock, its machine, its mode.   *)
SwitchLock ==
  /\ mpc = "switch_type"
  /\ mj = 0
  /\ useLock' = [useLock EXCEPT ![mi] = IF Locked(mi) THEN 1 ELSE 0]
  /\ mj' = 1
  /\ UNCHANGED <<mpc, mi, list, listDone, matrix, targets, counts,
                 scanners_done, stopping, modes, scannerSide>>

SwitchType ==
  /\ mpc = "switch_type"
  /\ mj = 1
  /\ isTableMachine' = [isTableMachine EXCEPT ![mi] = mi >= Ded]
  /\ MGoto("switch_mode", mi)
  /\ UNCHANGED <<lists, matrix, targets, counts, scanners_done, stopping,
                 alert_mode_active, scannerSide>>

SwitchMode ==
  /\ mpc = "switch_mode"
  /\ alert_mode_active' = [alert_mode_active EXCEPT ![mi] = TRUE]
  /\ IF mi + 1 < NumScanners THEN MGoto("switch_type", mi + 1) ELSE MGoto("regulars_done", 0)
  /\ UNCHANGED <<lists, matrix, targets, counts, scanners_done, stopping,
                 isTableMachine, scannerSide>>

(* Lines 153-158: the dedicated threads are told to stop one by one.       *)
RegularsDone ==
  /\ mpc = "regulars_done"
  /\ IF scanners_done = Reg THEN MGoto("stop_dedicated", 0) ELSE MGoto("inputs_empty", Ded)
  /\ UNCHANGED <<lists, matrix, targets, counts, scanners_done, stopping, modes, scannerSide>>

StopDedicated ==
  /\ mpc = "stop_dedicated"
  /\ IF mi < Ded
       THEN done' = [done EXCEPT ![mi] = TRUE] /\ MGoto("stop_dedicated", mi + 1)
       ELSE UNCHANGED done /\ MGoto("inputs_empty", Ded)
  /\ UNCHANGED <<lists, matrix, targets, counts, scanners_done, stopped, modes, scannerSide>>

(* Lines 166-173: one list at a time, without a lock. *)
InputsEmpty ==
  /\ mpc = "inputs_empty"
  /\ IF mi >= NumScanners THEN MGoto("stop", 0)
     ELSE IF list[mi] = <<>> THEN MGoto("inputs_empty", mi + 1)
     ELSE MGoto("alert", 0)
  /\ UNCHANGED <<lists, matrix, targets, counts, scanners_done, stopping, modes, scannerSide>>

(* Mutant: the scanners are not told. *)
StopManagerOnly ==
  /\ mpc = "stop"
  /\ stopped' = TRUE
  /\ MGoto("alert", 0)
  /\ UNCHANGED <<lists, matrix, targets, counts, scanners_done, done, modes, scannerSide>>

(* Lines 177-180. *)
Stop ==
  /\ mpc = "stop"
  /\ stopped' = TRUE
  /\ MGoto("stop_all", 0)
  /\ UNCHANGED <<lists, matrix, targets, counts, scanners_done, done, modes, scannerSide>>

StopNext ==
  /\ mpc = "stop_all"
  /\ done' = [done EXCEPT ![mi] = TRUE]
  /\ IF mi + 1 < NumScanners THEN MGoto("stop_all", mi + 1) ELSE MGoto("alert", 0)
  /\ UNCHANGED <<lists, matrix, targets, counts, scanners_done, stopped, modes, scannerSide>>

(* Line 202; lines 185-196 look into the queues and forget the answer. *)
AlertLoop ==
  /\ mpc = "alert"
  /\ IF stopped THEN MGoto("free_targets", 0) ELSE MGoto("regulars_done", 0)
  /\ UNCHANGED <<lists, matrix, targets, counts, scanners_done, stopping, modes, scannerSide>>

(* Lines 214-217. *)
FreeTargets ==
  /\ mpc = "free_targets"
  /\ targetsFreed' = TRUE
  /\ MGoto(IF Ded > 0 /\ Reg > 0 THEN "drain" ELSE "count", 0)
  /\ UNCHANGED <<lists, matrix, next_target, counts, scanners_done, stopping, modes, scannerSide>>

(* Lines 223-251: reader mi, writer mj + Ded.                              *)
Drain ==
  /\ mpc = "drain"
  /\ queue' = [queue EXCEPT ![<<mj + Ded, mi>>] = <<>>]
  /\ mpc' = "free_queue"
  /\ UNCHANGED <<mi, mj, lists, queueState, targets, counts, scanners_done,
                 stopping, modes, scannerSide>>

(* The queue goes with what a late scanner put in after the drain.         *)
FreeQueue ==
  /\ mpc = "free_queue"
  /\ queueState' = [queueState EXCEPT ![<<mj + Ded, mi>>] = "freed"]
  /\ queue' = [queue EXCEPT ![<<mj + Ded, mi>>] = <<>>]
  /\ IF mj + 1 < Reg THEN mpc' = "drain" /\ mi' = mi /\ mj' = mj + 1
     ELSE IF mi + 1 < Ded THEN MGoto("drain", mi + 1)
     ELSE MGoto("count", 0)
  /\ UNCHANGED <<lists, targets, counts, scanners_done, stopping, modes, scannerSide>>

ManagerStep ==
  \/ Watch \/ CountDone \/ Prepare \/ OverrunMatrix \/ PublishRegular \/ PublishDedicated
  \/ SwitchLock \/ SwitchType \/ SwitchMode \/ RegularsDone \/ StopDedicated
  \/ InputsEmpty \/ Stop \/ StopNext \/ AlertLoop \/ FreeTargets \/ Drain \/ FreeQueue
=============================================================================
