----------------------------- MODULE DrainedQueue -----------------------------
(***************************************************************************)
(* The end of a heavy-packet queue: all threads have been told to stop,    *)
(* and the manager empties the queue (handle_alert_mode, lines 230-236),   *)
(* as a second reader next to the dedicated scanner.  A dequeue is as fine *)
(* here as two readers can tell, and in the order gcc -O3 makes of it:     *)
(* read_idx is loaded once, then come the right number, read_sq and the    *)
(* left number, and what is stored is computed from these registers.       *)
(***************************************************************************)
EXTENDS CyclicLockFreeQueue

(* The ring and its writer are those of CyclicLockFreeQueue.  The readers  *)
(* are modelled here, without the packet they copy into `result': rpc,     *)
(* regRight and status have a value for each reader, regRight all of the   *)
(* registers of a dequeue.                                                 *)
VARIABLES
  done,       (* the threads were told to stop                             *)
  final,      (* enqueues that may yet begin, from then on                 *)
  overrun     (* history: the writer has lapped the readers                *)

Readers == {"scanner", "manager"}

dequeues  == <<rpc, regRight, status>>
drainVars == <<vars, done, final, overrun>>

DrainInit ==
  /\ left = [i \in Slots |-> 0] /\ right = [i \in Slots |-> 0]
  /\ packets = [i \in Slots |-> [packet |-> Garbage, last_idx_in_root |-> Garbage]]
  /\ result = [packet |-> Garbage, last_idx_in_root |-> Garbage]
  /\ read_idx = 0 /\ write_idx = 0 /\ read_sq = 1 /\ write_sq = 1
  /\ wpc = "idle" /\ wlap = 0 /\ rlap = 0
  /\ rpc = [r \in Readers |-> IF r = "scanner" THEN "idle" ELSE "off"]
  /\ regRight = [r \in Readers |-> [right |-> 0, idx |-> 0, sq |-> 0, lap |-> 0]]
  /\ status = [r \in Readers |-> "none"]
  /\ done = FALSE /\ final = 1 /\ overrun = FALSE

Goto(r, label) == rpc' = [rpc EXCEPT ![r] = label]

(* How many packets were dequeued: rlap is late while a reader wraps.      *)
Position == Dequeued + (IF \E r \in Readers : rpc[r] = "wrap" THEN Size ELSE 0)

(* A regular scanner looks at done before each packet: it may be past that *)
(* for one.                                                                *)
BeginEnqueue ==
  /\ EnqueueLeft
  /\ done => final > 0
  /\ final' = IF done THEN 0 ELSE final
  /\ overrun' = (overrun \/ Started' > Position + Size)
  /\ UNCHANGED done

FinishEnqueue ==
  /\ EnqueuePacket \/ EnqueueLastIdx \/ EnqueueRight
  /\ final' = IF done THEN 0 ELSE final
  /\ UNCHANGED <<done, overrun>>

(* multicore_manager_stop_all or line 177-180; then the manager drains.    *)
Stop ==
  /\ ~ done
  /\ done' = TRUE
  /\ UNCHANGED <<ring, result, writer, read_idx, read_sq, rlap, dequeues, final, overrun>>

StartDrain ==
  /\ done /\ rpc["manager"] = "off"
  /\ Goto("manager", "idle")
  /\ UNCHANGED <<ring, result, writer, read_idx, read_sq, rlap, regRight, status, done, final, overrun>>

-----------------------------------------------------------------------------
(* cyclic_lock_free_queue_dequeue by either reader.                        *)

LoadRight(r) ==
  /\ rpc[r] = "idle"
  /\ regRight' = [regRight EXCEPT ![r].idx = read_idx, ![r].right = right[read_idx]]
  /\ Goto(r, "sq")
  /\ UNCHANGED <<ring, result, writer, read_idx, read_sq, rlap, status, done, final, overrun>>

LoadSq(r) ==
  /\ rpc[r] = "sq"
  /\ regRight' = [regRight EXCEPT ![r].sq = read_sq, ![r].lap = rlap]
  /\ Goto(r, "left")
  /\ UNCHANGED <<ring, result, writer, read_idx, read_sq, rlap, status, done, final, overrun>>

(* A bug: the manager goes on where the scanner would. *)
KeepsPolling(r, answer) == IF answer = "OVERFLOW" THEN {"end"} ELSE {"idle"}

(* Where the loops of the two readers go on after an answer: the manager   *)
(* while it gets packets, the scanner until it gets one after the stop,    *)
(* or finds nothing in a whole round of the queues and in its list.  Any   *)
(* other answer ends the program.                                          *)
Answered(r, answer) ==
  IF r = "manager" THEN IF answer = "SUCEESS" THEN {"idle"} ELSE {"end"}
  ELSE CASE answer = "SUCEESS"               -> IF done THEN {"end"} ELSE {"idle"}
         [] answer \in {"EMPTY_QUEUE", "SYNC"} -> IF done THEN {"idle", "end"} ELSE {"idle"}
         [] OTHER                            -> {"fatal"}

LoadLeft(r) ==
  LET answer == Verdict(regRight[r].right, left[regRight[r].idx], regRight[r].sq)
  IN
  /\ rpc[r] = "left"
  /\ status' = [status EXCEPT ![r] = answer]
  /\ IF answer = "SUCEESS" THEN Goto(r, "advance")
     ELSE \E next \in Answered(r, answer) : Goto(r, next)
  /\ UNCHANGED <<ring, result, writer, read_idx, read_sq, rlap, regRight, done, final, overrun>>

AdvanceIdx(r) ==
  /\ rpc[r] = "advance"
  /\ read_idx' = NextIdx(regRight[r].idx)
  /\ IF read_idx' = 0 THEN Goto(r, "wrap")
     ELSE \E next \in Answered(r, "SUCEESS") : Goto(r, next)
  /\ UNCHANGED <<ring, result, writer, read_sq, rlap, regRight, status, done, final, overrun>>

AdvanceSq(r) ==
  /\ rpc[r] = "wrap"
  /\ read_sq' = NextSeq(regRight[r].sq)
  /\ rlap' = regRight[r].lap + 1
  /\ \E next \in Answered(r, "SUCEESS") : Goto(r, next)
  /\ UNCHANGED <<ring, result, writer, read_idx, regRight, status, done, final, overrun>>

(* After the drain the queue is freed. *)
Dequeue(r) ==
  /\ rpc["manager"] # "end" /\ rpc["scanner"] # "fatal"
  /\ LoadRight(r) \/ LoadLeft(r) \/ LoadSq(r) \/ AdvanceIdx(r) \/ AdvanceSq(r)

DrainNext == BeginEnqueue \/ FinishEnqueue \/ Stop \/ StartDrain \/ \E r \in Readers : Dequeue(r)

DrainSpec == DrainInit /\ [][DrainNext]_drainVars

(* The manager's thread gets to run. *)
FairDrainSpec == DrainSpec /\ WF_drainVars(StartDrain \/ Dequeue("manager"))

-----------------------------------------------------------------------------
Registers == [right : SeqNumbers, idx : Slots, sq : SeqNumbers, lap : Nat]

(* The types of the queue's fields and of both readers' registers.         *)
DrainTypeOK ==
  /\ left \in [Slots -> SeqNumbers] /\ right \in [Slots -> SeqNumbers]
  /\ packets \in [Slots -> HeavyPackets]
  /\ read_idx \in Slots /\ read_sq \in SeqNumbers /\ rlap \in Nat
  /\ write_idx \in Slots /\ write_sq \in SeqNumbers /\ wlap \in Nat
  /\ wpc \in {"idle", "packet", "last_idx", "right"}
  /\ rpc \in [Readers -> {"off", "idle", "sq", "left", "advance", "wrap", "end", "fatal"}]
  /\ regRight \in [Readers -> Registers]
  /\ status \in [Readers -> Statuses]
  /\ done \in BOOLEAN /\ final \in {0, 1} /\ overrun \in BOOLEAN

Fatal == rpc["scanner"] = "fatal"

(* "Something got wrong in cyclic queue" (Scanner.c:284): a scanner ends   *)
(* the program only if its queue was ever lapped, or between the manager's *)
(* stores of read_idx and read_sq when the ring wraps and its first slot   *)
(* already has the next packet.  Wherever else both readers advance        *)
(* read_idx, or put it back to where the other one has been, no reader     *)
(* that exits is misled.                                                   *)
FatalOnlyAtWrap ==
  Fatal /\ ~ overrun =>
    /\ regRight["scanner"].idx = 0
    /\ regRight["scanner"].right = NextSeq(regRight["scanner"].sq)

(* The manager comes to the end of the queue, although the scanner may put *)
(* it back.                                                                *)
DrainEnds == done ~> rpc["manager"] = "end" \/ Fatal
===============================================================================
