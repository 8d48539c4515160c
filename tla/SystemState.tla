----------------------------- MODULE SystemState -----------------------------
(***************************************************************************)
(* The memory the threads of one run share: the reader's and the scanners' *)
(* packet lists, the MulticoreManager structure with its matrix of         *)
(* heavy-packet queues, the flags in every ScannerData, and the locals of  *)
(* the scanner threads.  HYBRID_SCANNER and HEAVY_PACKET_RECOGNITION build.*)
(*                                                                         *)
(* A list operation is one step here: LinkedList models its inside.  One   *)
(* is not, the owner's dequeue without the lock: the manager may switch    *)
(* the lock on while the owner is in it (Scanner, BeginOwn).  A            *)
(* heavy-packet queue is a sequence: CyclicLockFreeQueue shows that the    *)
(* ring is one as long as the writer stays within it.                      *)
(***************************************************************************)
EXTENDS Integers, Sequences, FiniteSets

CONSTANTS
  NumScanners,     (* -m                                                   *)
  WorkGroupSize,   (* -w: dedicated threads come in groups of this size    *)
  MaxWorkGroups,   (* -W                                                   *)
  PacketsToSteal,  (* -p                                                   *)
  NumPackets,      (* packets in the trace, repetitions included           *)
  Heavy            (* those of them that matchTableMachine finds heavy     *)

ASSUME SystemAssumption ==
  /\ NumScanners \in Nat \ {0}
  /\ WorkGroupSize \in Nat \ {0}
  /\ MaxWorkGroups \in Nat \ {0}
  /\ PacketsToSteal \in Nat
  /\ NumPackets \in Nat
  /\ Heavy \subseteq 1 .. NumPackets

VARIABLES
  list,        (* list[s]: scanners[s].packet_queue                        *)
  listDone,    (* listDone[s]: its `done' field                            *)
  useLock,     (* useLock[s]: its `use_lock' field                         *)
  free_queue,  (* free_queue[s]: the packets s has scanned                 *)
  queue,       (* queue[<<w, d>>]: heavy packets from writer w to d        *)
  queueState,  (* the pointer to it: "null", "live" or "freed"             *)
  next_target, (* -1: as malloc left it                                    *)
  targetsFreed,
  num_of_regular_threads, num_of_dedicated_threads,
  scanners_done, stopped, alert_mode_used,
  done, isTableMachine, alert_mode_active,    (* per scanner               *)
  pc, packet, next_packet, dest_thread, to_steal,
  next_writer_id, last_writer_id,             (* per scanner, its locals   *)
  crashed      (* "no", or what the process died of: a null or freed       *)
               (* pointer, ...; "overlap": two dequeues of a list have     *)
               (* overlapped, and what follows is not modelled             *)

lists    == <<list, listDone, useLock>>
matrix   == <<queue, queueState>>
targets  == <<next_target, targetsFreed>>
counts   == <<num_of_regular_threads, num_of_dedicated_threads, alert_mode_used>>
modes    == <<isTableMachine, alert_mode_active>>
stopping == <<stopped, done>>
stealing == <<next_packet, dest_thread, to_steal>>
polling  == <<next_writer_id, last_writer_id>>
scannerLocals == <<pc, packet, stealing, polling>>

Scanners == 0 .. NumScanners - 1
Pairs    == Scanners \X Scanners

(* A packet of the trace and the scanner whose list its clone was put in.  *)
Clones   == (1 .. NumPackets) \X Scanners
NoPacket == <<0, 0>>
IsHeavy(c) == c[1] \in Heavy

Undefined == -1

(* list_dequeue's status on list s: the list empty but not yet done is     *)
(* LIST_STATUS_DEQUEUE_EMPTY, empty and done LIST_STATUS_DEQUEUE_FAIL.     *)
DequeueStatus(s) ==
  IF list[s] # <<>> THEN "SUCCESS" ELSE IF listDone[s] THEN "FAIL" ELSE "EMPTY"

(* Mutant: the item is returned but stays in the list. *)
LeaveFirst(s) == UNCHANGED list

(* What any dequeue of list s does to it. *)
RemoveFirst(s) ==
  list' = [list EXCEPT ![s] = IF @ = <<>> THEN @ ELSE Tail(@)]

First(s) == IF list[s] = <<>> THEN NoPacket ELSE Head(list[s])

(* multicore_manager_stop_all *)
StopAll == stopped' = TRUE /\ done' = [s \in Scanners |-> TRUE]

(* multicore_manager_init, list_init, scanner_init; the scanner threads do *)
(* not run yet.                                                            *)
SharedInit ==
  /\ list = [s \in Scanners |-> <<>>]
  /\ listDone = [s \in Scanners |-> FALSE]
  /\ useLock = [s \in Scanners |-> 0]
  /\ free_queue = [s \in Scanners |-> <<>>]
  /\ queue = [wd \in Pairs |-> <<>>]
  /\ queueState = [wd \in Pairs |-> "null"]
  /\ next_target = [s \in Scanners |-> Undefined]
  /\ targetsFreed = FALSE
  /\ num_of_regular_threads = NumScanners
  /\ num_of_dedicated_threads = 0
  /\ scanners_done = 0 /\ stopped = FALSE /\ alert_mode_used = FALSE
  /\ done = [s \in Scanners |-> FALSE]
  /\ isTableMachine = [s \in Scanners |-> TRUE]
  /\ alert_mode_active = [s \in Scanners |-> FALSE]
  /\ pc = [s \in Scanners |-> "off"]
  /\ packet = [s \in Scanners |-> NoPacket]
  /\ next_packet = [s \in Scanners |-> NoPacket]
  /\ dest_thread = [s \in Scanners |-> Undefined]
  /\ to_steal = [s \in Scanners |-> 0]
  /\ next_writer_id = [s \in Scanners |-> Undefined]
  /\ last_writer_id = [s \in Scanners |-> Undefined]
  /\ crashed = "no"
=============================================================================
