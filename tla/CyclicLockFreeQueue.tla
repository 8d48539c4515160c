------------------------- MODULE CyclicLockFreeQueue -------------------------
(***************************************************************************)
(* The ring between one regular scanner (the writer) and one dedicated     *)
(* scanner (the reader): src/Multicore/CyclicLockFreeQueue.c, lock-free    *)
(* build.  Every access to shared memory is a step of its own, in program  *)
(* order.  Each slot has a sequence number on its left and on its right:   *)
(* the writer stores left, packet, right, the reader loads right, packet,  *)
(* left.  A sequence number counts the laps round the ring, modulo MaxSeq. *)
(*                                                                         *)
(* enqueue never looks at the reader: it has no notion of a full ring.  A  *)
(* writer can therefore lap the reader; MaxLag says how far it may run     *)
(* ahead, and is the only assumption on the environment.                   *)
(***************************************************************************)
EXTENDS Integers

CONSTANTS
  Size,        (* number of slots (HEAVY_PACKET_QUEUE_SIZE)                *)
  MaxSeq,      (* MAX_SEQUENCE_NUMBER                                      *)
  MaxLag,      (* enqueues the writer may be ahead of the reader           *)
  MaxEnqueue   (* bound on the enqueues of a behaviour                     *)

ASSUME ConstantsAssumption ==
  /\ Size \in Nat \ {0}
  /\ MaxSeq \in Nat \ {0, 1}
  /\ MaxLag \in Nat \ {0}
  /\ MaxEnqueue \in Nat

(* The writer is never so far ahead that its sequence numbers come round   *)
(* to those the reader still expects.                                      *)
ASSUME LagAssumption == MaxLag <= Size * (MaxSeq - 1)

VARIABLES
  left, right,          (* the two arrays of sequence numbers              *)
  packets,              (* the array of HeavyPackets                       *)
  read_idx, read_sq,    (* used by the reader only                         *)
  write_idx, write_sq,  (* used by the writer only                         *)
  wpc,                  (* next store of the enqueue in progress           *)
  rpc,                  (* next load of the dequeue in progress            *)
  regRight,             (* the reader's local variable `right'             *)
  result,               (* *result of the dequeue                          *)
  status,               (* what the last dequeue returned                  *)
  wlap, rlap            (* history: laps completed by writer and reader    *)

ring   == <<left, right, packets>>
writer == <<write_idx, write_sq, wpc, wlap>>
reader == <<read_idx, read_sq, rpc, regRight, result, status, rlap>>
vars   == <<left, right, packets, read_idx, read_sq, write_idx, write_sq,
            wpc, rpc, regRight, result, status, wlap, rlap>>

Slots == 0 .. Size - 1
SeqNumbers == 0 .. MaxSeq - 1

(* The n-th packet handed to enqueue is identified by n.  A HeavyPacket is *)
(* copied field by field, so a copy can mix the fields of two packets.     *)
Garbage == -1
HeavyPackets == [packet : Nat \cup {Garbage},
                 last_idx_in_root : Nat \cup {Garbage}]

Enqueued == wlap * Size + write_idx
Dequeued == rlap * Size + read_idx
(* Enqueues that have stored at least their left number. *)
Started  == Enqueued + (IF wpc = "idle" THEN 0 ELSE 1)

(* Mutants: the lap is not counted; no wrap below zero; a slot too many.   *)
SameSeq(sq)  == sq
PlainPrev(sq) == sq - 1
NextSeq(sq) == (sq + 1) % MaxSeq
PrevSeq(sq) == IF sq > 0 THEN sq - 1 ELSE MaxSeq - 1
NextIdx(i)  == (i + 1) % Size

-----------------------------------------------------------------------------
(* cyclic_lock_free_queue_init: malloc leaves the packets undefined. *)
Init ==
  /\ left    = [i \in Slots |-> 0]
  /\ right   = [i \in Slots |-> 0]
  /\ packets = [i \in Slots |-> [packet |-> Garbage, last_idx_in_root |-> Garbage]]
  /\ read_idx = 0 /\ write_idx = 0
  /\ read_sq = 1  /\ write_sq = 1
  /\ wpc = "idle" /\ rpc = "idle"
  /\ regRight = 0
  /\ result = [packet |-> Garbage, last_idx_in_root |-> Garbage]
  /\ status = "none"
  /\ wlap = 0 /\ rlap = 0

(***************************************************************************)
(* cyclic_lock_free_queue_enqueue: one action per store.                   *)
(***************************************************************************)
EnqueueLeft ==
  /\ wpc = "idle"
  /\ Enqueued < MaxEnqueue
  /\ Enqueued - Dequeued < MaxLag
  /\ left' = [left EXCEPT ![write_idx] = write_sq]
  /\ wpc' = "packet"
  /\ UNCHANGED <<right, packets, write_idx, write_sq, wlap, reader>>

EnqueuePacket ==
  /\ wpc = "packet"
  /\ packets' = [packets EXCEPT ![write_idx].packet = Enqueued]
  /\ wpc' = "last_idx"
  /\ UNCHANGED <<left, right, write_idx, write_sq, wlap, reader>>

EnqueueLastIdx ==
  /\ wpc = "last_idx"
  /\ packets' = [packets EXCEPT ![write_idx].last_idx_in_root = Enqueued]
  /\ wpc' = "right"
  /\ UNCHANGED <<left, right, write_idx, write_sq, wlap, reader>>

(* Mutant: the writer goes round with the same sequence number. *)
EnqueueSameLap ==
  /\ wpc = "right"
  /\ right' = [right EXCEPT ![write_idx] = write_sq]
  /\ write_idx' = NextIdx(write_idx)
  /\ wlap' = IF write_idx' = 0 THEN wlap + 1 ELSE wlap
  /\ wpc' = "idle"
  /\ UNCHANGED <<left, packets, write_sq, reader>>

(* The index and the sequence number are the writer's own: advancing them  *)
(* is not visible to anybody and is one step with the store that publishes.*)
EnqueueRight ==
  /\ wpc = "right"
  /\ right' = [right EXCEPT ![write_idx] = write_sq]
  /\ write_idx' = NextIdx(write_idx)
  /\ IF write_idx' = 0
       THEN write_sq' = NextSeq(write_sq) /\ wlap' = wlap + 1
       ELSE UNCHANGED <<write_sq, wlap>>
  /\ wpc' = "idle"
  /\ UNCHANGED <<left, packets, reader>>

Writer == EnqueueLeft \/ EnqueuePacket \/ EnqueueLastIdx \/ EnqueueRight

(***************************************************************************)
(* cyclic_lock_free_queue_dequeue: one action per load.                    *)
(***************************************************************************)
DequeueCall ==
  /\ rpc = "idle"
  /\ rpc' = "right"
  /\ status' = "none"
  /\ UNCHANGED <<ring, writer, read_idx, read_sq, regRight, result, rlap>>

DequeueRight ==
  /\ rpc = "right"
  /\ regRight' = right[read_idx]
  /\ rpc' = "packet"
  /\ UNCHANGED <<ring, writer, read_idx, read_sq, result, status, rlap>>

DequeuePacket ==
  /\ rpc = "packet"
  /\ result' = [result EXCEPT !.packet = packets[read_idx].packet]
  /\ rpc' = "last_idx"
  /\ UNCHANGED <<ring, writer, read_idx, read_sq, regRight, status, rlap>>

DequeueLastIdx ==
  /\ rpc = "last_idx"
  /\ result' = [result EXCEPT !.last_idx_in_root = packets[read_idx].last_idx_in_root]
  /\ rpc' = "left"
  /\ UNCHANGED <<ring, writer, read_idx, read_sq, regRight, status, rlap>>

(* Mutants: the left number is not looked at; any whole packet will do.    *)
RightOnly(r, l, sq) ==
  IF r = sq               THEN "SUCEESS"
  ELSE IF r = PrevSeq(sq) THEN "EMPTY_QUEUE"
  ELSE IF r # l           THEN "SYNC"
  ELSE                         "OVERFLOW"

AnyLap(r, l, sq) ==
  IF r = PrevSeq(sq) THEN "EMPTY_QUEUE" ELSE IF r # l THEN "SYNC" ELSE "SUCEESS"

(* What the tests on the two numbers, in the order of the code, conclude. *)
Verdict(r, l, sq) ==
  IF r = sq /\ r = l       THEN "SUCEESS"
  ELSE IF r = PrevSeq(sq)  THEN "EMPTY_QUEUE"
  ELSE IF r # l            THEN "SYNC"
  ELSE                          "OVERFLOW"

DequeueLeft ==
  /\ rpc = "left"
  /\ status' = Verdict(regRight, left[read_idx], read_sq)
  /\ IF status' = "SUCEESS"
       THEN /\ read_idx' = NextIdx(read_idx)
            /\ IF read_idx' = 0
                 THEN read_sq' = NextSeq(read_sq) /\ rlap' = rlap + 1
                 ELSE UNCHANGED <<read_sq, rlap>>
       ELSE UNCHANGED <<read_idx, read_sq, rlap>>
  /\ rpc' = "idle"
  /\ UNCHANGED <<ring, writer, regRight, result>>

Reader == DequeueCall \/ DequeueRight \/ DequeuePacket \/ DequeueLastIdx \/ DequeueLeft

Next == Writer \/ Reader

Spec == Init /\ [][Next]_vars

(* A scanner inside enqueue leaves it, but need not enter it again; a      *)
(* dedicated scanner polls its queues.                                     *)
FairSpec == Spec /\ WF_vars(EnqueuePacket \/ EnqueueLastIdx \/ EnqueueRight)
                 /\ WF_vars(Reader)

-----------------------------------------------------------------------------
Statuses == {"none", "SUCEESS", "EMPTY_QUEUE", "OVERFLOW", "SYNC"}

(* The types of the queue's fields and of the two threads' local state. *)
TypeOK ==
  /\ left \in [Slots -> SeqNumbers]
  /\ right \in [Slots -> SeqNumbers]
  /\ packets \in [Slots -> HeavyPackets]
  /\ read_idx \in Slots /\ write_idx \in Slots
  /\ read_sq \in SeqNumbers /\ write_sq \in SeqNumbers
  /\ wpc \in {"idle", "packet", "last_idx", "right"}
  /\ rpc \in {"idle", "right", "packet", "last_idx", "left"}
  /\ regRight \in SeqNumbers
  /\ result \in HeavyPackets
  /\ status \in Statuses
  /\ wlap \in Nat /\ rlap \in Nat

(* The writer has begun to overwrite the slot the reader is about to read. *)
Lapped == Started > Dequeued + Size

(* A dequeue that returns SUCEESS returns the packets in the order they    *)
(* were enqueued, none twice, none left out, and never the packet of one   *)
(* enqueue with the index of another, even when the writer overruns the    *)
(* reader in the middle of the copy.                                       *)
FifoDelivery ==
  status = "SUCEESS" => /\ result.packet = Dequeued - 1
                        /\ result.last_idx_in_root = Dequeued - 1

(* OVERFLOW (on which the scanner exits the program) and SYNC (which it    *)
(* takes for an empty queue) are returned only once the writer really has  *)
(* overrun the reader.                                                     *)
NoFalseAlarm == status \in {"OVERFLOW", "SYNC"} => Lapped

(* Nothing brings a lapped reader back: it never delivers another packet,  *)
(* since enqueue neither waits for it nor moves its index.                 *)
LapIsFinal == [][Lapped => Dequeued' = Dequeued]_vars

(* If the writer never overruns the reader, every packet it begins to hand *)
(* over is eventually dequeued.                                            *)
Delivery == []~Lapped => \A n \in 1 .. MaxEnqueue : Started >= n ~> Dequeued >= n

-----------------------------------------------------------------------------
(* The abstract queue, see HeavyPacketFifo. *)
AbsQueue == [i \in 1 .. Enqueued - Dequeued |-> Dequeued + i - 1]

(* An EMPTY_QUEUE answer takes effect when the right number is loaded, any *)
(* other one when the left number is.                                      *)
AbsAnswer ==
  LET kind ==
        IF rpc \in {"packet", "last_idx", "left"}
        THEN IF regRight = PrevSeq(read_sq) THEN "empty" ELSE "pending"
        ELSE IF rpc = "right" THEN "pending"
        ELSE CASE status = "none"        -> "none"
               [] status = "SUCEESS"     -> "packet"
               [] status = "EMPTY_QUEUE" -> "empty"
               [] OTHER                  -> "overrun"
  IN [kind |-> kind, packet |-> IF kind = "packet" THEN result.packet ELSE Garbage]

Fifo == INSTANCE HeavyPacketFifo
          WITH Capacity <- Size, queue <- AbsQueue, answer <- AbsAnswer, count <- Enqueued

(* The ring implements a first-in first-out queue whose reader may be told *)
(* "overrun" only when Capacity packets wait for it.                       *)
ImplementsFifo == Fifo!Spec
=============================================================================
