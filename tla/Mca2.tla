--------------------------------- MODULE Mca2 ---------------------------------
(***************************************************************************)
(* One run of the system, inspectDumpFile: main starts and joins the       *)
(* reader, starts the manager and the scanners, joins the scanners, stops  *)
(* and joins the manager.                                                  *)
(***************************************************************************)
EXTENDS Scanner, MulticoreManager, PacketReader, Functions

VARIABLES main, nth     (* where main is, and its loop variable i          *)

shared == <<lists, free_queue, matrix, targets, counts, scanners_done,
            stopping, modes, crashed>>
vars == <<shared, scannerLocals, managerLocals, readerVars, main, nth>>

Init == SharedInit /\ ManagerInit /\ ReaderInit /\ main = "start_reader" /\ nth = 0

StartReader ==
  /\ main = "start_reader"
  /\ reader' = "running"
  /\ main' = "join_reader"
  /\ UNCHANGED <<shared, scannerLocals, managerLocals, count, nth>>

(* packetreader_join, then multicore_manager_start. *)
StartManager ==
  /\ main = "join_reader"
  /\ reader = "gone"
  /\ mpc' = "watch"
  /\ main' = "start"
  /\ UNCHANGED <<shared, scannerLocals, mi, mj, readerVars, nth>>

StartScanner ==
  /\ main = "start"
  /\ pc' = [pc EXCEPT ![nth] = "loop"]
  /\ IF nth + 1 < NumScanners THEN nth' = nth + 1 /\ UNCHANGED main
                              ELSE nth' = 0 /\ main' = "join"
  /\ UNCHANGED <<shared, packet, stealing, polling, managerLocals, readerVars>>

JoinScanner ==
  /\ main = "join"
  /\ pc[nth] = "gone"
  /\ IF nth + 1 < NumScanners THEN nth' = nth + 1 /\ UNCHANGED main
                              ELSE nth' = 0 /\ main' = "stop"
  /\ UNCHANGED <<shared, scannerLocals, managerLocals, readerVars>>

(* multicore_manager_stop *)
StopManager ==
  /\ main = "stop"
  /\ stopped' = TRUE
  /\ main' = "join_manager"
  /\ UNCHANGED <<lists, free_queue, matrix, targets, counts, scanners_done, done,
                 modes, crashed, scannerLocals, managerLocals, readerVars, nth>>

JoinManager ==
  /\ main = "join_manager"
  /\ mpc = "gone"
  /\ main' = "end"
  /\ UNCHANGED <<shared, scannerLocals, managerLocals, readerVars, nth>>

(* A crash ends the whole process; an overlap of two dequeues, what the    *)
(* model says of it.                                                       *)
Running == main # "end" /\ crashed = "no"

MainThread ==
  /\ Running
  /\ \/ StartReader \/ StartManager \/ StartScanner
     \/ JoinScanner \/ StopManager \/ JoinManager

ReaderThread     == Running /\ ReaderStep /\ UNCHANGED <<managerLocals, main, nth>>
ManagerThread    == Running /\ ManagerStep /\ UNCHANGED <<readerVars, main, nth>>
ScannerThread(s) == Running /\ ScannerStep(s) /\ UNCHANGED <<managerLocals, readerVars, main, nth>>

Ended == ~ Running /\ UNCHANGED vars

Next ==
  \/ MainThread
  \/ ReaderThread
  \/ ManagerThread
  \/ \E s \in Scanners : ScannerThread(s)
  \/ Ended

Spec == Init /\ [][Next]_vars

(* Every thread of the process gets to run: they are kernel threads, a step *)
(* never waits for a lock here (an operation with the lock is one, and holds *)
(* its spin lock for a bounded time only), and the joins wait in main.     *)
FairSpec ==
  /\ Spec
  /\ WF_vars(MainThread) /\ WF_vars(ReaderThread) /\ WF_vars(ManagerThread)
  /\ \A s \in Scanners : WF_vars(ScannerThread(s))

-----------------------------------------------------------------------------
ScannerLabels == {"off", "loop", "own", "unlink", "poll", "fallback", "check", "match", "table",
                  "transfer", "enqueue", "steal", "reinsert", "exit", "gone"}
ManagerLabels == {"off", "watch", "count", "prepare", "publish", "publish_dedicated",
                  "switch_type", "switch_mode", "regulars_done", "stop_dedicated",
                  "inputs_empty", "stop", "stop_all", "alert", "free_targets", "drain",
                  "free_queue", "gone"}
ScannerOrNone == Scanners \cup {Undefined}

(* The types of the shared structures and of the threads' locals. *)
TypeOK ==
  /\ list \in [Scanners -> Seq(Clones)]
  /\ listDone \in [Scanners -> BOOLEAN]
  /\ useLock \in [Scanners -> {0, 1}]
  /\ free_queue \in [Scanners -> Seq(Clones)]
  /\ queue \in [Pairs -> Seq(Clones)]
  /\ queueState \in [Pairs -> {"null", "live", "freed"}]
  /\ next_target \in [Scanners -> ScannerOrNone]
  /\ targetsFreed \in BOOLEAN
  /\ num_of_regular_threads \in 0 .. NumScanners
  /\ num_of_dedicated_threads \in 0 .. NumScanners
  /\ scanners_done \in 0 .. NumScanners
  /\ stopped \in BOOLEAN /\ alert_mode_used \in BOOLEAN
  /\ done \in [Scanners -> BOOLEAN]
  /\ isTableMachine \in [Scanners -> BOOLEAN]
  /\ alert_mode_active \in [Scanners -> BOOLEAN]
  /\ pc \in [Scanners -> ScannerLabels]
  /\ packet \in [Scanners -> Clones \cup {NoPacket}]
  /\ next_packet \in [Scanners -> Clones \cup {NoPacket}]
  /\ dest_thread \in [Scanners -> ScannerOrNone]
  /\ to_steal \in [Scanners -> 0 .. PacketsToSteal]
  /\ next_writer_id \in [Scanners -> ScannerOrNone]
  /\ last_writer_id \in [Scanners -> ScannerOrNone]
  /\ crashed \in {"no", "freed", "no_target", "null", "matrix", "overlap"}
  /\ mpc \in ManagerLabels
  /\ mi \in Nat /\ mj \in Nat
  /\ reader \in {"off", "running", "gone"} /\ count \in 0 .. NumPackets
  /\ main \in {"start_reader", "join_reader", "start", "join", "stop", "join_manager", "end"}
  /\ nth \in Scanners

-----------------------------------------------------------------------------
(* Where clones can be: in a list, in a heavy-packet queue, with a thread   *)
(* that scans or steals, or among the scanned ones.                        *)
Places == ({"list", "hand", "stolen", "scanned"} \X Scanners) \cup ({"queue"} \X Pairs)

OneOf(c) == IF c = NoPacket THEN <<>> ELSE <<c>>

In(p) == CASE p[1] = "list"    -> list[p[2]]
           [] p[1] = "queue"   -> queue[p[2]]
           [] p[1] = "hand"    -> OneOf(packet[p[2]])
           [] p[1] = "stolen"  -> OneOf(next_packet[p[2]])
           [] p[1] = "scanned" -> free_queue[p[2]]

ReadSoFar == (1 .. count) \X Scanners
Stored    == UNION {Range(In(p)) : p \in Places}

(* The manager switches a list's lock on without looking whether the owner *)
(* is in the middle of a dequeue (MulticoreManager.c:123). What follows is *)
(* claimed as long as no thief's dequeue has overlapped such a one.        *)
ListsWhole == crashed # "overlap"

(* However packets are dequeued, transferred, stolen and put back, a clone *)
(* is never in two places, unless two dequeues have overlapped in the      *)
(* switch of the lock: no packet is scanned twice, and scanner_join and    *)
(* list_destroy free none twice.                                           *)
NoCloneTwice ==
  ListsWhole => \A p, q \in Places : \A i \in DOMAIN In(p), j \in DOMAIN In(q) :
    In(p)[i] = In(q)[j] => p = q /\ i = j

(* Until the system, or a scanner, is told to stop, and unless two         *)
(* dequeues have overlapped in the switch of a list's lock, no packet gets *)
(* lost on the way between lists, threads and heavy-packet queues.         *)
NothingLost ==
  ListsWhole /\ ~ stopped /\ (\A s \in Scanners : ~ done[s]) => Stored = ReadSoFar

(* A run that never goes into alert mode scans the whole trace, each       *)
(* scanner its own copy and in order.  (Nobody then sets `done': a list    *)
(* that runs empty has been marked done before the scanners start.)        *)
NormalRunScansAll ==
  main = "end" /\ ~ alert_mode_used =>
    \A s \in Scanners : free_queue[s] = [n \in 1 .. NumPackets |-> <<n, s>>]

(* The copies that came in through one regular thread's list are scanned   *)
(* in the order of the trace by every thread that scans some of them:      *)
(* neither the heavy-packet queues nor packets stolen from other lists get *)
(* in between.  (An overlap of two dequeues ends the run here.)            *)
ScanOrder ==
  \A s \in Scanners, own \in Scanners :
    own >= num_of_dedicated_threads =>
      \A i, j \in DOMAIN free_queue[s] :
        i < j /\ free_queue[s][i][2] = own /\ free_queue[s][j][2] = own
        => free_queue[s][i][1] < free_queue[s][j][1]

(* "Change scanners machine type (only after initializing queues)": a      *)
(* thread that hands a packet over, or steals, deals with a thread that    *)
(* has become dedicated and whose list takes its lock by now.              *)
PartnerReady ==
  \A s \in Scanners : pc[s] \in {"enqueue", "steal"} /\ dest_thread[s] # Undefined =>
    /\ s >= num_of_dedicated_threads
    /\ dest_thread[s] < num_of_dedicated_threads
    /\ ~ isTableMachine[dest_thread[s]]
    /\ useLock[dest_thread[s]] = 1

(* Rows of the matrix are regular threads, columns are dedicated ones.     *)
QueuesMatchRoles ==
  \A wd \in Pairs : queue[wd] # <<>> => /\ wd[1] >= num_of_dedicated_threads
                                       /\ wd[2] < num_of_dedicated_threads
                                       /\ queueState[wd] = "live"

(* No thread polls or fills a queue that was not made yet, the manager     *)
(* stores past the matrix only if the work groups ask for more threads     *)
(* than there are (which nothing tests), and a queue that was freed is     *)
(* followed only after every scanner has been told to stop.                *)
NoEarlyCrash ==
  /\ crashed # "null"
  /\ crashed = "matrix" => MaxWorkGroups * WorkGroupSize > NumScanners
  /\ crashed = "freed" => stopped /\ \A s \in Scanners : done[s]

(* Every run ends, if not in a crash: no thread waits for another for      *)
(* ever, and the polling of the dedicated threads is always ended by the   *)
(* manager.                                                                *)
Termination == <>(~ Running)

(* "Rows: regular threads (producers)": only a regular thread transfers.   *)
OnlyRegularsTransfer ==
  \A s \in Scanners : pc[s] = "transfer" => s >= num_of_dedicated_threads

(* The manager drains a queue as its second reader: a packet that a        *)
(* dedicated thread gets from a dequeue it is in at that time may be one   *)
(* the manager has taken too, or half of it. It is never scanned.          *)
NoScanWhileDraining ==
  [][\A s \in Scanners :
       mpc \in {"drain", "free_queue"} /\ pc[s] = "check" => (pc[s])' \in {"check", "exit"}]_vars
=============================================================================
