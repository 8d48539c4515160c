--------------------------- MODULE HeavyPacketProofs ---------------------------
(***************************************************************************)
(* Proofs about what becomes of heavy packets, in three parts: the ring in *)
(* which they are handed over (CyclicLockFreeQueue), its drain at the end  *)
(* (DrainedQueue), for every Size, MaxSeq, MaxLag and MaxEnqueue, and the  *)
(* counters of their rate (HeavyRate).  The safety theorems of the first   *)
(* need LagAssumption; the drain does not.                                 *)
(***************************************************************************)
EXTENDS DrainedQueue, HeavyRate, Sequences, TLAPS

-----------------------------------------------------------------------------
(* Arithmetic. *)

(* The sequence number of lap l; the zeroes init stores count as lap -1. *)
Sq(l) == (l + 1) % MaxSeq

LEMMA SqType == ASSUME NEW l \in Int PROVE Sq(l) \in SeqNumbers
BY ConstantsAssumption DEF Sq, SeqNumbers

LEMMA SqInjective ==
  ASSUME NEW a \in Int, NEW b \in Int, a <= b, b - a < MaxSeq, Sq(a) = Sq(b)
  PROVE  a = b
<1> DEFINE qa == (a + 1) \div MaxSeq
           qb == (b + 1) \div MaxSeq
<1>1. /\ a + 1 = MaxSeq * qa + Sq(a)
      /\ b + 1 = MaxSeq * qb + Sq(b)
      /\ qa \in Int /\ qb \in Int
  BY ConstantsAssumption DEF Sq
<1>2. b - a = MaxSeq * (qb - qa)
  BY <1>1, SqType, ConstantsAssumption DEF SeqNumbers
<1>3. qb - qa < 1
  <2>1. SUFFICES ASSUME qb - qa >= 1 PROVE FALSE
    BY <1>1
  <2>2. MaxSeq * (qb - qa) >= MaxSeq
    BY <1>1, <2>1, ConstantsAssumption
  <2>3. QED  BY <2>2, <1>2, ConstantsAssumption
<1>4. qb - qa > -1
  <2>1. SUFFICES ASSUME qb - qa <= -1 PROVE FALSE
    BY <1>1
  <2>2. MaxSeq * (qb - qa) <= -MaxSeq
    BY <1>1, <2>1, ConstantsAssumption
  <2>3. QED  BY <2>2, <1>2, ConstantsAssumption
<1>5. qb = qa
  BY <1>1, <1>3, <1>4
<1> QED  BY <1>1, <1>5

LEMMA DivMod ==
  ASSUME NEW x \in Int
  PROVE  x \div MaxSeq \in Int /\ x % MaxSeq \in SeqNumbers
         /\ x = MaxSeq * (x \div MaxSeq) + (x % MaxSeq)
BY ConstantsAssumption DEF SeqNumbers

LEMMA ModUnique ==
  ASSUME NEW x \in Int, NEW q \in Int, NEW r \in SeqNumbers, x = MaxSeq * q + r
  PROVE  x % MaxSeq = r
<1> DEFINE p == x \div MaxSeq
           t == x % MaxSeq
<1>1. p \in Int /\ t \in SeqNumbers /\ x = MaxSeq * p + t
  BY DivMod
<1> HIDE DEF p, t
<1>2. p = q /\ t = r
  BY <1>1, ConstantsAssumption DEF SeqNumbers
<1> QED  BY <1>2 DEF t

LEMMA SqNext == ASSUME NEW l \in Int PROVE NextSeq(Sq(l)) = Sq(l + 1)
<1> DEFINE q == (l + 1) \div MaxSeq
           r == (l + 1) % MaxSeq
<1>1. q \in Int /\ r \in SeqNumbers /\ l + 1 = MaxSeq * q + r
  BY ConstantsAssumption DEF SeqNumbers
<1> HIDE DEF q, r
<1>2. CASE r = MaxSeq - 1
  <2>1. l + 2 = MaxSeq * (q + 1) + 0 /\ r + 1 = MaxSeq * 1 + 0
    BY <1>1, <1>2, ConstantsAssumption
  <2>2. (l + 2) % MaxSeq = 0 /\ (r + 1) % MaxSeq = 0
    BY <1>1, <2>1, ModUnique, ConstantsAssumption DEF SeqNumbers
  <2> QED  BY <2>2 DEF Sq, NextSeq, r
<1>3. CASE r < MaxSeq - 1
  <2>1. l + 2 = MaxSeq * q + (r + 1) /\ r + 1 = MaxSeq * 0 + (r + 1)
    BY <1>1, <1>3, ConstantsAssumption DEF SeqNumbers
  <2>2. (l + 2) % MaxSeq = r + 1 /\ (r + 1) % MaxSeq = r + 1
    BY <1>1, <1>3, <2>1, ModUnique, ConstantsAssumption DEF SeqNumbers
  <2> QED  BY <2>2 DEF Sq, NextSeq, r
<1> QED  BY <1>1, <1>2, <1>3, ConstantsAssumption DEF SeqNumbers

LEMMA SqPrev == ASSUME NEW l \in Int PROVE PrevSeq(Sq(l)) = Sq(l - 1)
<1> DEFINE q == (l + 1) \div MaxSeq
           r == (l + 1) % MaxSeq
<1>1. q \in Int /\ r \in SeqNumbers /\ l + 1 = MaxSeq * q + r
  BY ConstantsAssumption DEF SeqNumbers
<1> HIDE DEF q, r
<1>2. CASE r = 0
  <2>1. l = MaxSeq * (q - 1) + (MaxSeq - 1)
    BY <1>1, <1>2, ConstantsAssumption
  <2>2. l % MaxSeq = MaxSeq - 1
    BY <1>1, <2>1, ModUnique, ConstantsAssumption DEF SeqNumbers
  <2> QED  BY <1>2, <2>2, ConstantsAssumption DEF Sq, PrevSeq, r
<1>3. CASE r > 0
  <2>1. l = MaxSeq * q + (r - 1)
    BY <1>1, ConstantsAssumption DEF SeqNumbers
  <2>2. l % MaxSeq = r - 1
    BY <1>1, <1>3, <2>1, ModUnique, ConstantsAssumption DEF SeqNumbers
  <2> QED  BY <1>3, <2>2, ConstantsAssumption DEF Sq, PrevSeq, r
<1> QED  BY <1>1, <1>2, <1>3, ConstantsAssumption DEF SeqNumbers

(* NextIdx is a step round the ring. *)
LEMMA NextIdxStep ==
  ASSUME NEW i \in Slots
  PROVE  /\ NextIdx(i) \in Slots
         /\ NextIdx(i) = IF i = Size - 1 THEN 0 ELSE i + 1
BY ConstantsAssumption DEF NextIdx, Slots

(* Positions are ordered by lap, then by slot. *)
LEMMA PositionOrder ==
  ASSUME NEW a \in Int, NEW b \in Int, NEW i \in Slots, NEW j \in Slots
  PROVE  /\ a * Size + i \in Int
         /\ a * Size + i <= b * Size + j <=> a < b \/ (a = b /\ i <= j)
<1>1. a * Size \in Int /\ b * Size \in Int
  BY ConstantsAssumption
<1>2. ASSUME NEW c \in Int, NEW d \in Int, c < d PROVE c * Size + Size <= d * Size
  <2>1. d * Size - c * Size = (d - c) * Size
    BY ConstantsAssumption
  <2>2. (d - c) * Size >= Size
    BY <1>2, ConstantsAssumption
  <2>3. QED BY <2>1, <2>2, ConstantsAssumption
<1>3. CASE a < b
  BY <1>1, <1>3, <1>2, ConstantsAssumption DEF Slots
<1>4. CASE a = b
  BY <1>1, <1>4, ConstantsAssumption DEF Slots
<1>5. CASE a > b
  <2>1. b * Size + Size <= a * Size
    BY <1>2, <1>5
  <2> QED  BY <1>1, <1>5, <2>1, ConstantsAssumption DEF Slots
<1> QED  BY <1>3, <1>4, <1>5

-----------------------------------------------------------------------------
(***************************************************************************)
(* The inductive invariant.  What a slot holds is a function of the        *)
(* writer's position and program counter: every field of the slots before  *)
(* write_idx was stored in lap wlap, every field of the slots after it in  *)
(* lap wlap - 1, and the fields of slot write_idx itself up to wpc.        *)
(***************************************************************************)
FieldLap(i, stored) ==
  IF i < write_idx \/ (i = write_idx /\ stored) THEN wlap ELSE wlap - 1

LeftLap(i)   == FieldLap(i, wpc # "idle")
PacketLap(i) == FieldLap(i, wpc \in {"last_idx", "right"})
IdxLap(i)    == FieldLap(i, wpc = "right")
RightLap(i)  == FieldLap(i, FALSE)

RingInv ==
  /\ write_sq = Sq(wlap)
  /\ \A i \in Slots :
       /\ left[i] = Sq(LeftLap(i))
       /\ right[i] = Sq(RightLap(i))
       /\ PacketLap(i) >= 0 => packets[i].packet = PacketLap(i) * Size + i
       /\ IdxLap(i) >= 0 => packets[i].last_idx_in_root = IdxLap(i) * Size + i

(* The writer is ahead of the reader, and not by more than MaxLag. *)
LagInv ==
  /\ read_sq = Sq(rlap)
  /\ Dequeued <= Enqueued
  /\ Started <= Dequeued + MaxLag

(* What the reader has loaded so far.  The laps of a slot only grow, and   *)
(* the reader loads its fields in the opposite order of the stores: if the *)
(* right number is the expected one, a field of another packet can only    *)
(* come from a later lap, and then so does the left number.                *)
ReaderInv ==
  /\ rpc # "idle" => status = "none"
  /\ rpc \in {"packet", "last_idx", "left"} =>
       \/ regRight = PrevSeq(read_sq)
       \/ regRight = read_sq /\ RightLap(read_idx) >= rlap
       \/ RightLap(read_idx) > rlap
  /\ rpc \in {"last_idx", "left"} /\ regRight = read_sq =>
       result.packet = Dequeued \/ PacketLap(read_idx) > rlap
  /\ rpc = "left" /\ regRight = read_sq =>
       result.last_idx_in_root = Dequeued \/ IdxLap(read_idx) > rlap

(* Every property of a finished call and of a call in progress, together. *)
IInv == TypeOK /\ RingInv /\ LagInv /\ ReaderInv /\ FifoDelivery /\ NoFalseAlarm

-----------------------------------------------------------------------------
(* TypeOK is inductive. *)

LEMMA TypeInit == Init => TypeOK
BY ConstantsAssumption
   DEF Init, TypeOK, Slots, SeqNumbers, HeavyPackets, Statuses

LEMMA TypeStep == TypeOK /\ [Next]_vars => TypeOK'
<1> SUFFICES ASSUME TypeOK, [Next]_vars PROVE TypeOK'
  OBVIOUS
<1> USE DEF TypeOK
<1>0. NextSeq(write_sq) \in SeqNumbers /\ NextSeq(read_sq) \in SeqNumbers
  BY ConstantsAssumption DEF NextSeq, SeqNumbers
<1>1. Enqueued \in Nat
  BY ConstantsAssumption DEF Enqueued, Slots
<1>2. CASE EnqueueLeft
  BY <1>2 DEF EnqueueLeft, reader
<1>3. CASE EnqueuePacket
  BY <1>1, <1>3 DEF EnqueuePacket, reader, HeavyPackets
<1>4. CASE EnqueueLastIdx
  BY <1>1, <1>4 DEF EnqueueLastIdx, reader, HeavyPackets
<1>5. CASE EnqueueRight
  BY <1>0, <1>5, NextIdxStep DEF EnqueueRight, reader
<1>6. CASE DequeueCall
  BY <1>6 DEF DequeueCall, ring, writer, Statuses
<1>7. CASE DequeueRight
  BY <1>7 DEF DequeueRight, ring, writer
<1>8. CASE DequeuePacket
  BY <1>8 DEF DequeuePacket, ring, writer, HeavyPackets
<1>9. CASE DequeueLastIdx
  BY <1>9 DEF DequeueLastIdx, ring, writer, HeavyPackets
<1>10. CASE DequeueLeft
  BY <1>0, <1>10, NextIdxStep DEF DequeueLeft, ring, writer, Verdict, Statuses
<1>11. CASE UNCHANGED vars
  BY <1>11 DEF vars
<1> QED
  BY <1>2, <1>3, <1>4, <1>5, <1>6, <1>7, <1>8, <1>9, <1>10, <1>11
     DEF Next, Writer, Reader

(* The fields of the queue and both threads' locals keep their types, for  *)
(* any ring, any sequence-number space and any lag.                        *)
THEOREM TypeCorrect == Spec => []TypeOK
<1> QED  BY TypeInit, TypeStep, PTL DEF Spec

-----------------------------------------------------------------------------
(* The left number of a slot has reached lap l iff the writer has begun    *)
(* the enqueue at position l * Size + i; the right number, iff it has      *)
(* completed it.                                                           *)
LEMMA LapAt ==
  ASSUME wlap \in Int, write_idx \in Slots, NEW l \in Int, NEW i \in Slots
  PROVE  /\ l <= LeftLap(i) <=> l * Size + i < Started
         /\ l <= RightLap(i) <=> l * Size + i < Enqueued
<1>1. l * Size + i \in Int /\ wlap * Size + write_idx \in Int
  BY PositionOrder
<1>2. l * Size + i <= wlap * Size + write_idx
        <=> l < wlap \/ (l = wlap /\ i <= write_idx)
  BY PositionOrder
<1>3. wlap * Size + write_idx <= l * Size + i
        <=> wlap < l \/ (wlap = l /\ write_idx <= i)
  BY PositionOrder
<1> QED
  BY <1>1, <1>2, <1>3 DEF LeftLap, RightLap, FieldLap, Started, Enqueued, Slots

LEMMA LapIff ==
  ASSUME TypeOK, NEW l \in Int, NEW i \in Slots
  PROVE  /\ l <= LeftLap(i) <=> l * Size + i < Started
         /\ l <= RightLap(i) <=> l * Size + i < Enqueued
BY LapAt DEF TypeOK

(* All the laps of the slot under the reader lie within one sequence-number*)
(* period, which is what makes comparing the numbers conclusive.           *)
LEMMA LapRange ==
  ASSUME TypeOK, LagInv
  PROVE  /\ RightLap(read_idx) \in Int /\ IdxLap(read_idx) \in Int
         /\ PacketLap(read_idx) \in Int /\ LeftLap(read_idx) \in Int
         /\ rlap - 1 <= RightLap(read_idx)
         /\ RightLap(read_idx) <= IdxLap(read_idx)
         /\ IdxLap(read_idx) <= PacketLap(read_idx)
         /\ PacketLap(read_idx) <= LeftLap(read_idx)
         /\ LeftLap(read_idx) - (rlap - 1) < MaxSeq
         /\ LeftLap(read_idx) > rlap <=> Lapped
<1>1. /\ rlap \in Int /\ wlap \in Int /\ read_idx \in Slots
      /\ Dequeued \in Int /\ Enqueued \in Int /\ Started \in Int
      /\ Dequeued = rlap * Size + read_idx /\ Dequeued <= Enqueued
      /\ Started <= Dequeued + MaxLag
  BY ConstantsAssumption DEF TypeOK, LagInv, Dequeued, Enqueued, Started, Slots
<1>2. /\ (rlap - 1) * Size = rlap * Size - Size
      /\ (rlap + 1) * Size = rlap * Size + Size
      /\ (rlap + MaxSeq - 1) * Size = rlap * Size + Size * (MaxSeq - 1)
  BY <1>1, ConstantsAssumption
<1>3. rlap * Size \in Int /\ Size * (MaxSeq - 1) \in Int
  BY <1>1, ConstantsAssumption
<1>4. /\ RightLap(read_idx) \in Int /\ IdxLap(read_idx) \in Int
      /\ PacketLap(read_idx) \in Int /\ LeftLap(read_idx) \in Int
      /\ RightLap(read_idx) <= IdxLap(read_idx)
      /\ IdxLap(read_idx) <= PacketLap(read_idx)
      /\ PacketLap(read_idx) <= LeftLap(read_idx)
  BY <1>1 DEF RightLap, IdxLap, PacketLap, LeftLap, FieldLap, TypeOK
<1>5. rlap - 1 <= RightLap(read_idx)
  <2>1. (rlap - 1) * Size + read_idx < Enqueued
    BY <1>1, <1>2, <1>3, ConstantsAssumption DEF Slots
  <2> QED  BY <2>1, <1>1, LapIff
<1>6. LeftLap(read_idx) > rlap <=> Lapped
  <2>1. rlap + 1 <= LeftLap(read_idx) <=> (rlap + 1) * Size + read_idx < Started
    BY <1>1, LapIff
  <2> QED  BY <2>1, <1>1, <1>2, <1>3, <1>4, ConstantsAssumption DEF Lapped, Slots
<1>7. LeftLap(read_idx) - (rlap - 1) < MaxSeq
  <2>1. ~ ((rlap + MaxSeq - 1) * Size + read_idx < Started)
    BY <1>1, <1>2, <1>3, ConstantsAssumption, LagAssumption DEF Slots
  <2>2. rlap + MaxSeq - 1 \in Int
    BY <1>1, ConstantsAssumption
  <2>3. ~ (rlap + MaxSeq - 1 <= LeftLap(read_idx))
    BY <2>1, <2>2, <1>1, LapIff
  <2> QED  BY <2>3, <1>1, <1>4, ConstantsAssumption
<1> QED  BY <1>4, <1>5, <1>6, <1>7

(* Advancing an index, its sequence number and its lap together. *)
LEMMA Advance ==
  ASSUME NEW i \in Slots, NEW lap \in Nat, NEW i2, NEW lap2,
         i2 = NextIdx(i), lap2 = IF i2 = 0 THEN lap + 1 ELSE lap
  PROVE  lap2 * Size + i2 = lap * Size + i + 1
<1>1. (lap + 1) * Size = lap * Size + Size /\ lap * Size \in Int
  BY ConstantsAssumption
<1> QED  BY <1>1, NextIdxStep, ConstantsAssumption DEF Slots

-----------------------------------------------------------------------------
LEMMA InvInit == Init => IInv
<1> SUFFICES ASSUME Init PROVE IInv
  OBVIOUS
<1>1. TypeOK
  BY TypeInit
<1>2. Sq(0) = 1 /\ Sq(-1) = 0
  BY ConstantsAssumption DEF Sq
<1>3. Enqueued = 0 /\ Dequeued = 0 /\ Started = 0
  BY ConstantsAssumption DEF Init, Enqueued, Dequeued, Started
<1>4. RingInv
  BY <1>2 DEF Init, RingInv, LeftLap, RightLap, PacketLap, IdxLap, FieldLap, Slots
<1>5. LagInv
  BY <1>2, <1>3, ConstantsAssumption DEF Init, LagInv
<1>6. ReaderInv /\ FifoDelivery /\ NoFalseAlarm
  BY DEF Init, ReaderInv, FifoDelivery, NoFalseAlarm
<1> QED  BY <1>1, <1>4, <1>5, <1>6 DEF IInv

(* The ring: only the writer's stores change it. *)
LEMMA RingStep == IInv /\ [Next]_vars => RingInv'
<1> SUFFICES ASSUME IInv, [Next]_vars PROVE RingInv'
  OBVIOUS
<1> USE DEF RingInv, LeftLap, RightLap, PacketLap, IdxLap, FieldLap
<1>0. TypeOK /\ RingInv /\ wlap \in Nat /\ write_idx \in Slots
  BY DEF IInv, TypeOK
<1>1. CASE EnqueueLeft
  BY <1>0, <1>1 DEF EnqueueLeft, reader, TypeOK, Slots
<1>2. CASE EnqueuePacket
  BY <1>0, <1>2 DEF EnqueuePacket, reader, TypeOK, Slots, HeavyPackets, Enqueued
<1>3. CASE EnqueueLastIdx
  BY <1>0, <1>3 DEF EnqueueLastIdx, reader, TypeOK, Slots, HeavyPackets, Enqueued
<1>4. CASE EnqueueRight
  <2>1. write_sq' = Sq(wlap')
    BY <1>0, <1>4, SqNext DEF EnqueueRight
  <2>2. /\ write_idx' = IF write_idx = Size - 1 THEN 0 ELSE write_idx + 1
        /\ wlap' = IF write_idx = Size - 1 THEN wlap + 1 ELSE wlap
    BY <1>0, <1>4, NextIdxStep, ConstantsAssumption DEF EnqueueRight, Slots
  <2>3. ASSUME NEW i \in Slots
        PROVE  /\ LeftLap(i)' = LeftLap(i)
               /\ PacketLap(i)' = PacketLap(i)
               /\ IdxLap(i)' = IdxLap(i)
               /\ RightLap(i)' = IF i = write_idx THEN wlap ELSE RightLap(i)
    BY <1>0, <1>4, <2>2 DEF EnqueueRight, Slots
  <2>4. ASSUME NEW i \in Slots
        PROVE  /\ left[i]' = left[i] /\ packets[i]' = packets[i]
               /\ right[i]' = IF i = write_idx THEN write_sq ELSE right[i]
    BY <1>0, <1>4 DEF EnqueueRight, TypeOK
  <2> QED  BY <1>0, <2>1, <2>3, <2>4
<1>5. CASE Reader \/ UNCHANGED vars
  BY <1>0, <1>5 DEF Reader, DequeueCall, DequeueRight, DequeuePacket,
     DequeueLastIdx, DequeueLeft, ring, writer, vars
<1> QED  BY <1>1, <1>2, <1>3, <1>4, <1>5 DEF Next, Writer

(* The expected right number is not the one an empty slot shows. *)
LEMMA ExpectedRight ==
  ASSUME IInv, rpc \in {"packet", "last_idx", "left"}, regRight = read_sq
  PROVE  rlap <= RightLap(read_idx)
<1>1. TypeOK /\ LagInv /\ ReaderInv /\ rlap \in Int
  BY DEF IInv, TypeOK
<1>2. PrevSeq(read_sq) = Sq(rlap - 1)
  BY <1>1, SqPrev DEF LagInv
<1>3. Sq(rlap - 1) # Sq(rlap)
  BY <1>1, SqInjective, ConstantsAssumption
<1>4. regRight # PrevSeq(read_sq)
  BY <1>1, <1>2, <1>3 DEF LagInv
<1> QED  BY <1>1, <1>4, LapRange DEF ReaderInv

(* A dequeue that finds both numbers in place has copied the packet of the *)
(* lap the reader expects: the laps of the two loads enclose the copy.     *)
LEMMA SuccessIsNext ==
  ASSUME IInv, rpc = "left",
         Verdict(regRight, left[read_idx], read_sq) = "SUCEESS"
  PROVE  /\ result.packet = Dequeued /\ result.last_idx_in_root = Dequeued
         /\ Dequeued < Enqueued
<1>1. TypeOK /\ RingInv /\ LagInv /\ ReaderInv /\ read_idx \in Slots /\ rlap \in Int
  BY DEF IInv, TypeOK
<1>2. regRight = read_sq /\ left[read_idx] = read_sq
  BY DEF Verdict
<1>3. Sq(LeftLap(read_idx)) = Sq(rlap)
  BY <1>1, <1>2 DEF RingInv, LagInv
<1>4. LeftLap(read_idx) = rlap
  <2>1. rlap - 1 <= LeftLap(read_idx) /\ LeftLap(read_idx) - (rlap - 1) < MaxSeq
        /\ LeftLap(read_idx) \in Int
    BY <1>1, LapRange
  <2>2. CASE rlap <= LeftLap(read_idx)
    BY <2>1, <2>2, <1>1, <1>3, SqInjective, ConstantsAssumption
  <2>3. CASE LeftLap(read_idx) = rlap - 1
    BY <2>1, <2>3, <1>1, <1>3, SqInjective, ConstantsAssumption
  <2> QED  BY <2>1, <2>2, <2>3, <1>1
<1>5. RightLap(read_idx) <= rlap /\ IdxLap(read_idx) <= rlap /\ PacketLap(read_idx) <= rlap
  BY <1>1, <1>4, LapRange
<1>6. result.packet = Dequeued /\ result.last_idx_in_root = Dequeued
  BY <1>1, <1>2, <1>5, LapRange DEF ReaderInv
<1>7. rlap <= RightLap(read_idx)
  BY <1>2, ExpectedRight
<1>8. Dequeued < Enqueued
  BY <1>1, <1>7, LapIff DEF Dequeued
<1> QED  BY <1>6, <1>8

LEMMA LagStep == IInv /\ [Next]_vars => LagInv'
<1> SUFFICES ASSUME IInv, [Next]_vars PROVE LagInv'
  OBVIOUS
<1> USE DEF LagInv
<1>0. /\ TypeOK /\ LagInv
      /\ wlap \in Nat /\ write_idx \in Slots /\ rlap \in Nat /\ read_idx \in Slots
      /\ Enqueued \in Int /\ Dequeued \in Int
  BY ConstantsAssumption DEF IInv, TypeOK, Enqueued, Dequeued, Slots
<1>1. CASE EnqueueLeft
  <2>1. Enqueued' = Enqueued /\ Dequeued' = Dequeued /\ Started' = Enqueued + 1
    BY <1>1 DEF EnqueueLeft, reader, Enqueued, Dequeued, Started
  <2> QED  BY <1>0, <1>1, <2>1, ConstantsAssumption DEF EnqueueLeft, reader
<1>2. CASE EnqueuePacket \/ EnqueueLastIdx
  <2>1. Enqueued' = Enqueued /\ Dequeued' = Dequeued /\ Started' = Started
    BY <1>2 DEF EnqueuePacket, EnqueueLastIdx, reader, Enqueued, Dequeued, Started
  <2> QED  BY <1>0, <1>2, <2>1 DEF EnqueuePacket, EnqueueLastIdx, reader
<1>3. CASE EnqueueRight
  <2>1. Enqueued' = Enqueued + 1
    <3>1. wlap' = IF write_idx' = 0 THEN wlap + 1 ELSE wlap
      BY <1>3 DEF EnqueueRight
    <3> QED  BY <1>0, <1>3, <3>1, Advance DEF EnqueueRight, Enqueued
  <2>2. Dequeued' = Dequeued /\ Started' = Started
    BY <1>0, <1>3, <2>1 DEF EnqueueRight, reader, Dequeued, Started
  <2> QED  BY <1>0, <1>3, <2>1, <2>2 DEF EnqueueRight, reader
<1>4. CASE DequeueLeft /\ status' = "SUCEESS"
  <2>1. Dequeued' = Dequeued + 1
    <3>1. rlap' = IF read_idx' = 0 THEN rlap + 1 ELSE rlap
      BY <1>4 DEF DequeueLeft
    <3> QED  BY <1>0, <1>4, <3>1, Advance DEF DequeueLeft, Dequeued
  <2>2. Enqueued' = Enqueued /\ Started' = Started
    BY <1>4 DEF DequeueLeft, writer, ring, Enqueued, Started
  <2>3. Dequeued < Enqueued
    BY <1>4, SuccessIsNext DEF DequeueLeft
  <2>4. read_sq' = Sq(rlap')
    BY <1>0, <1>4, SqNext DEF DequeueLeft
  <2> QED  BY <1>0, <2>1, <2>2, <2>3, <2>4, ConstantsAssumption DEF Started
<1>5. CASE \/ DequeueCall \/ DequeueRight \/ DequeuePacket \/ DequeueLastIdx
           \/ (DequeueLeft /\ status' # "SUCEESS") \/ UNCHANGED vars
  <2>1. UNCHANGED <<read_sq, rlap, read_idx, wlap, write_idx, wpc>>
    BY <1>5 DEF DequeueCall, DequeueRight, DequeuePacket, DequeueLastIdx, DequeueLeft,
       writer, vars
  <2> QED  BY <1>0, <2>1 DEF Enqueued, Dequeued, Started
<1> QED  BY <1>1, <1>2, <1>3, <1>4, <1>5 DEF Next, Writer, Reader

(* The laps under the reader, and being lapped, only grow while the reader *)
(* stays where it is.                                                      *)
LEMMA LapsGrow ==
  ASSUME IInv, Writer
  PROVE  /\ UNCHANGED reader
         /\ Dequeued' = Dequeued
         /\ RightLap(read_idx)' \in Int /\ IdxLap(read_idx)' \in Int
         /\ PacketLap(read_idx)' \in Int
         /\ RightLap(read_idx)' >= RightLap(read_idx)
         /\ IdxLap(read_idx)' >= IdxLap(read_idx)
         /\ PacketLap(read_idx)' >= PacketLap(read_idx)
         /\ Lapped => Lapped'
<1>0. /\ wlap \in Nat /\ write_idx \in Slots /\ rlap \in Nat /\ read_idx \in Slots
      /\ Enqueued \in Int /\ Dequeued \in Int
  BY ConstantsAssumption DEF IInv, TypeOK, Enqueued, Dequeued, Slots
<1>1. UNCHANGED reader /\ read_idx' = read_idx /\ Dequeued' = Dequeued
  BY DEF Writer, EnqueueLeft, EnqueuePacket, EnqueueLastIdx, EnqueueRight, reader, Dequeued
<1>2. CASE EnqueueLeft \/ EnqueuePacket \/ EnqueueLastIdx
  <2>1. wlap' = wlap /\ write_idx' = write_idx
    BY <1>2 DEF EnqueueLeft, EnqueuePacket, EnqueueLastIdx
  <2>2. Started' >= Started
    BY <1>0, <1>2, <2>1 DEF EnqueueLeft, EnqueuePacket, EnqueueLastIdx, Started, Enqueued
  <2>3. Started \in Int /\ Started' \in Int
    BY <1>0, <2>1 DEF Started, Enqueued
  <2> QED
    BY <1>0, <1>1, <1>2, <2>1, <2>2, <2>3, ConstantsAssumption
       DEF EnqueueLeft, EnqueuePacket, EnqueueLastIdx,
           RightLap, IdxLap, PacketLap, FieldLap, Lapped
<1>3. CASE EnqueueRight
  <2>1. /\ write_idx' = IF write_idx = Size - 1 THEN 0 ELSE write_idx + 1
        /\ wlap' = IF write_idx = Size - 1 THEN wlap + 1 ELSE wlap
    BY <1>0, <1>3, NextIdxStep, ConstantsAssumption DEF EnqueueRight, Slots
  <2>2. Enqueued' = Enqueued + 1
    BY <1>0, <1>3, Advance DEF EnqueueRight, Enqueued
  <2>3. Started' = Started
    BY <1>0, <1>3, <2>2 DEF EnqueueRight, Started
  <2> QED
    BY <1>0, <1>1, <1>3, <2>1, <2>3 DEF EnqueueRight,
       RightLap, IdxLap, PacketLap, FieldLap, Lapped, Slots
<1> QED  BY <1>2, <1>3 DEF Writer

(* What a load tells: the reader's own steps. *)
LEMMA ReaderStep ==
  ASSUME IInv, Reader
  PROVE  ReaderInv' /\ FifoDelivery' /\ NoFalseAlarm'
<1>0. /\ TypeOK /\ RingInv /\ LagInv /\ ReaderInv /\ FifoDelivery /\ NoFalseAlarm
      /\ wlap \in Nat /\ write_idx \in Slots /\ rlap \in Nat /\ read_idx \in Slots
      /\ Enqueued \in Int /\ Dequeued \in Int /\ result \in HeavyPackets
      /\ packets[read_idx] \in HeavyPackets
  BY ConstantsAssumption DEF IInv, TypeOK, Enqueued, Dequeued, Slots
<1>a. /\ RightLap(read_idx) \in Int /\ IdxLap(read_idx) \in Int
      /\ PacketLap(read_idx) \in Int /\ LeftLap(read_idx) \in Int
      /\ rlap - 1 <= RightLap(read_idx)
      /\ RightLap(read_idx) <= IdxLap(read_idx)
      /\ IdxLap(read_idx) <= PacketLap(read_idx)
      /\ PacketLap(read_idx) <= LeftLap(read_idx)
      /\ LeftLap(read_idx) > rlap <=> Lapped
  BY <1>0, LapRange
<1>b. ASSUME UNCHANGED <<writer, read_idx, rlap>>
      PROVE  /\ Dequeued' = Dequeued
             /\ RightLap(read_idx)' = RightLap(read_idx)
             /\ IdxLap(read_idx)' = IdxLap(read_idx)
             /\ PacketLap(read_idx)' = PacketLap(read_idx)
             /\ Lapped' <=> Lapped
  BY <1>b DEF writer, Dequeued, RightLap, IdxLap, PacketLap, FieldLap, Lapped,
     Started, Enqueued
<1>1. CASE DequeueCall
  BY <1>1 DEF DequeueCall, ReaderInv, FifoDelivery, NoFalseAlarm
<1>2. CASE DequeueRight
  <2>1. /\ rpc = "right" /\ rpc' = "packet"
        /\ status' = status /\ result' = result
        /\ read_sq' = read_sq /\ regRight' = right[read_idx]
        /\ UNCHANGED <<writer, read_idx, rlap>>
    BY <1>2 DEF DequeueRight
  <2>2. right[read_idx] = Sq(RightLap(read_idx)) /\ read_sq = Sq(rlap)
    BY <1>0 DEF RingInv, LagInv
  <2>3. PrevSeq(read_sq) = Sq(rlap - 1)
    BY <1>0, <2>2, SqPrev
  <2>4. ReaderInv'
    <3>1. RightLap(read_idx)' = RightLap(read_idx) /\ PrevSeq(read_sq)' = PrevSeq(read_sq)
      BY <1>b, <2>1 DEF PrevSeq
    <3>2. \/ right[read_idx] = PrevSeq(read_sq)
          \/ right[read_idx] = read_sq /\ RightLap(read_idx) >= rlap
          \/ RightLap(read_idx) > rlap
      <4>1. RightLap(read_idx) = rlap - 1 \/ RightLap(read_idx) = rlap
            \/ RightLap(read_idx) > rlap
        BY <1>0, <1>a
      <4> QED  BY <1>0, <2>2, <2>3, <4>1
    <3> QED  BY <1>0, <2>1, <3>1, <3>2 DEF ReaderInv
  <2>5. FifoDelivery' /\ NoFalseAlarm'
    BY <1>0, <1>b, <2>1 DEF FifoDelivery, NoFalseAlarm
  <2> QED  BY <2>4, <2>5
<1>3. CASE DequeuePacket
  <2>1. /\ status' = status /\ rpc' = "last_idx" /\ rpc = "packet"
        /\ read_sq' = read_sq /\ regRight' = regRight
        /\ UNCHANGED <<writer, read_idx, rlap>>
    BY <1>3 DEF DequeuePacket
  <2>2. result' = [result EXCEPT !.packet = packets[read_idx].packet]
    BY <1>3 DEF DequeuePacket
  <2>3. /\ result'.packet = packets[read_idx].packet
        /\ result'.last_idx_in_root = result.last_idx_in_root
    BY <1>0, <2>2 DEF HeavyPackets
  <2>4. regRight = read_sq => rlap <= RightLap(read_idx)
    BY <2>1, ExpectedRight
  <2>5. regRight = read_sq => result'.packet = Dequeued \/ PacketLap(read_idx) > rlap
    <3>1. PacketLap(read_idx) >= 0 =>
            packets[read_idx].packet = PacketLap(read_idx) * Size + read_idx
      BY <1>0 DEF RingInv
    <3> QED  BY <1>0, <1>a, <2>3, <2>4, <3>1 DEF Dequeued
  <2>6. ReaderInv'
    BY <1>0, <1>b, <2>1, <2>5 DEF ReaderInv, PrevSeq
  <2>7. FifoDelivery' /\ NoFalseAlarm'
    BY <1>0, <2>1 DEF ReaderInv, FifoDelivery, NoFalseAlarm
  <2> QED  BY <2>6, <2>7
<1>4. CASE DequeueLastIdx
  <2>1. /\ status' = status /\ rpc' = "left" /\ rpc = "last_idx"
        /\ read_sq' = read_sq /\ regRight' = regRight
        /\ UNCHANGED <<writer, read_idx, rlap>>
    BY <1>4 DEF DequeueLastIdx
  <2>2. /\ result'.last_idx_in_root = packets[read_idx].last_idx_in_root
        /\ result'.packet = result.packet
    BY <1>0, <1>4 DEF DequeueLastIdx, HeavyPackets
  <2>3. regRight = read_sq =>
          result'.last_idx_in_root = Dequeued \/ IdxLap(read_idx) > rlap
    <3>1. IdxLap(read_idx) >= 0 =>
            packets[read_idx].last_idx_in_root = IdxLap(read_idx) * Size + read_idx
      BY <1>0 DEF RingInv
    <3>2. regRight = read_sq => rlap <= RightLap(read_idx)
      BY <2>1, ExpectedRight
    <3> QED  BY <1>0, <1>a, <2>2, <3>1, <3>2 DEF Dequeued
  <2>4. ReaderInv'
    <3>1. /\ Dequeued' = Dequeued /\ rlap' = rlap
          /\ RightLap(read_idx)' = RightLap(read_idx)
          /\ IdxLap(read_idx)' = IdxLap(read_idx)
          /\ PacketLap(read_idx)' = PacketLap(read_idx)
      BY <1>b, <2>1
    <3>2. PrevSeq(read_sq)' = PrevSeq(read_sq)
      BY <2>1 DEF PrevSeq
    <3> QED  BY <1>0, <2>1, <2>2, <2>3, <3>1, <3>2 DEF ReaderInv
  <2>5. FifoDelivery' /\ NoFalseAlarm'
    BY <1>0, <2>1 DEF ReaderInv, FifoDelivery, NoFalseAlarm
  <2> QED  BY <2>4, <2>5
<1>5. CASE DequeueLeft
  <2>1. /\ rpc = "left" /\ rpc' = "idle" /\ result' = result
        /\ status' = Verdict(regRight, left[read_idx], read_sq)
    BY <1>5 DEF DequeueLeft
  <2>2. ReaderInv'
    BY <2>1 DEF ReaderInv
  <2>3. CASE status' = "SUCEESS"
    <3>1. Dequeued' = Dequeued + 1
      <4>1. rlap' = IF read_idx' = 0 THEN rlap + 1 ELSE rlap
        BY <1>5, <2>3 DEF DequeueLeft
      <4> QED  BY <1>0, <1>5, <2>3, <4>1, Advance DEF DequeueLeft, Dequeued
    <3>2. result.packet = Dequeued /\ result.last_idx_in_root = Dequeued
      BY <2>1, <2>3, SuccessIsNext
    <3> QED  BY <1>0, <2>1, <2>2, <2>3, <3>1, <3>2 DEF FifoDelivery, NoFalseAlarm
  <2>4. CASE status' # "SUCEESS"
    <3>1. UNCHANGED <<writer, read_idx, rlap>>
      BY <1>5, <2>4 DEF DequeueLeft
    <3>2. status' \in {"OVERFLOW", "SYNC"} => Lapped
      <4>1. SUFFICES ASSUME status' \in {"OVERFLOW", "SYNC"} PROVE LeftLap(read_idx) > rlap
        BY <1>a
      <4>2. CASE regRight = read_sq
        <5>1. left[read_idx] # read_sq
          BY <2>1, <2>4, <4>2 DEF Verdict
        <5>2. LeftLap(read_idx) # rlap
          BY <1>0, <5>1 DEF RingInv, LagInv
        <5> QED  BY <1>0, <1>a, <2>1, <4>2, <5>2, ExpectedRight
      <4>3. CASE regRight # read_sq
        BY <1>0, <1>a, <2>1, <4>1, <4>3 DEF ReaderInv, Verdict
      <4> QED  BY <4>2, <4>3
    <3> QED  BY <1>b, <2>2, <2>4, <3>1, <3>2 DEF FifoDelivery, NoFalseAlarm
  <2> QED  BY <2>3, <2>4
<1> QED  BY <1>1, <1>2, <1>3, <1>4, <1>5 DEF Reader

LEMMA InvStep == IInv /\ [Next]_vars => IInv'
<1> SUFFICES ASSUME IInv, [Next]_vars PROVE IInv'
  OBVIOUS
<1>1. TypeOK' /\ RingInv' /\ LagInv'
  BY TypeStep, RingStep, LagStep DEF IInv
<1>2. ReaderInv' /\ FifoDelivery' /\ NoFalseAlarm'
  <2>0. TypeOK /\ LagInv /\ ReaderInv /\ FifoDelivery /\ NoFalseAlarm /\ rlap \in Int
    BY DEF IInv, TypeOK
  <2>1. CASE Writer
    <3>1. /\ UNCHANGED <<read_idx, read_sq, rpc, regRight, result, status, rlap>>
          /\ Dequeued' = Dequeued
      BY <2>1, LapsGrow DEF reader
    <3>2. PrevSeq(read_sq)' = PrevSeq(read_sq)
      BY <3>1 DEF PrevSeq
    <3>3. /\ RightLap(read_idx) >= rlap => RightLap(read_idx)' >= rlap
          /\ RightLap(read_idx) > rlap => RightLap(read_idx)' > rlap
          /\ IdxLap(read_idx) > rlap => IdxLap(read_idx)' > rlap
          /\ PacketLap(read_idx) > rlap => PacketLap(read_idx)' > rlap
      BY <2>0, <2>1, LapRange, LapsGrow
    <3>4. ReaderInv'
      BY <2>0, <3>1, <3>2, <3>3 DEF ReaderInv
    <3>5. FifoDelivery' /\ NoFalseAlarm'
      BY <2>0, <2>1, <3>1, LapsGrow DEF FifoDelivery, NoFalseAlarm
    <3> QED  BY <3>4, <3>5
  <2>2. CASE Reader
    BY <2>2, ReaderStep
  <2>3. CASE UNCHANGED vars
    BY <2>0, <2>3 DEF vars, ReaderInv, PrevSeq, FifoDelivery, NoFalseAlarm, RightLap,
       IdxLap, PacketLap, FieldLap, Dequeued, Enqueued, Started, Lapped
  <2> QED  BY <2>1, <2>2, <2>3 DEF Next
<1> QED  BY <1>1, <1>2 DEF IInv

LEMMA Invariance == Spec => []IInv
<1> QED  BY InvInit, InvStep, PTL DEF Spec

(* Packets leave the ring in the order they entered it, whole, each once:  *)
(* also when the writer, which checks nothing, overruns the reader.        *)
THEOREM FifoCorrect == Spec => []FifoDelivery
<1>1. IInv => FifoDelivery
  BY DEF IInv
<1> QED  BY <1>1, Invariance, PTL

(* SYNC and OVERFLOW are never returned by a ring that was not overrun. *)
THEOREM AlarmCorrect == Spec => []NoFalseAlarm
<1>1. IInv => NoFalseAlarm
  BY DEF IInv
<1> QED  BY <1>1, Invariance, PTL

(* If the writer stays within the ring no call ever fails, which is what   *)
(* the scanner relies on when it exits the program on OVERFLOW.            *)
THEOREM NoAlarmWithinRing ==
  ASSUME MaxLag <= Size
  PROVE  Spec => [](status \notin {"OVERFLOW", "SYNC"})
<1>1. IInv => status \notin {"OVERFLOW", "SYNC"}
  <2>1. IInv => Started \in Int /\ Dequeued \in Int
    BY ConstantsAssumption DEF IInv, TypeOK, Started, Enqueued, Dequeued, Slots
  <2> QED  BY <2>1, ConstantsAssumption DEF IInv, LagInv, NoFalseAlarm, Lapped
<1> QED  BY <1>1, Invariance, PTL

(* A lapped reader delivers nothing more. *)
THEOREM LapFinalCorrect == Spec => LapIsFinal
<1>1. IInv /\ [Next]_vars => [Lapped => Dequeued' = Dequeued]_vars
  <2> SUFFICES ASSUME IInv, Next, Lapped PROVE Dequeued' = Dequeued
    BY DEF vars
  <2>1. CASE Writer
    BY <2>1, LapsGrow
  <2>2. CASE Reader
    <3>1. CASE DequeueLeft
      <4>1. Verdict(regRight, left[read_idx], read_sq) # "SUCEESS"
        <5>1. SUFFICES ASSUME Verdict(regRight, left[read_idx], read_sq) = "SUCEESS"
                       PROVE FALSE
          OBVIOUS
        <5>2. TypeOK /\ RingInv /\ LagInv /\ read_idx \in Slots /\ rlap \in Int
          BY DEF IInv, TypeOK
        <5>3. Sq(LeftLap(read_idx)) = Sq(rlap)
          BY <5>1, <5>2 DEF RingInv, LagInv, Verdict
        <5>4. LeftLap(read_idx) > rlap /\ LeftLap(read_idx) \in Int
              /\ LeftLap(read_idx) - rlap < MaxSeq
          BY <5>2, LapRange, ConstantsAssumption
        <5> QED  BY <5>2, <5>3, <5>4, SqInjective
      <4> QED  BY <3>1, <4>1 DEF DequeueLeft, Dequeued
    <3> QED
      BY <2>2, <3>1 DEF Reader, DequeueCall, DequeueRight, DequeuePacket,
         DequeueLastIdx, Dequeued
  <2> QED  BY <2>1, <2>2 DEF Next
<1> QED  BY <1>1, Invariance, PTL DEF Spec, LapIsFinal

-----------------------------------------------------------------------------
(* Refinement: the ring implements HeavyPacketFifo. *)

Queue(from, to) == [i \in 1 .. to - from |-> from + i - 1]

LEMMA QueueOps ==
  ASSUME NEW d \in Int, NEW e \in Int, d <= e
  PROVE  /\ Queue(d, e) \in Seq(Int)
         /\ Len(Queue(d, e)) = e - d
         /\ Append(Queue(d, e), e) = Queue(d, e + 1)
         /\ d < e => /\ Queue(d, e) # <<>>
                     /\ Head(Queue(d, e)) = d
                     /\ Tail(Queue(d, e)) = Queue(d + 1, e)
<1>1. Queue(d, e) \in Seq(Int) /\ Len(Queue(d, e)) = e - d
  BY DEF Queue
<1>2. Append(Queue(d, e), e) = Queue(d, e + 1)
  BY <1>1 DEF Queue
<1>3. ASSUME d < e
      PROVE  /\ Queue(d, e) # <<>>
             /\ Head(Queue(d, e)) = d
             /\ Tail(Queue(d, e)) = Queue(d + 1, e)
  <2>1. Queue(d, e) # <<>> /\ Head(Queue(d, e)) = d
    BY <1>1, <1>3 DEF Queue
  <2>2. Tail(Queue(d, e)) = Queue(d + 1, e)
    BY <1>1, <1>3 DEF Queue
  <2> QED  BY <2>1, <2>2
<1> QED  BY <1>1, <1>2, <1>3

LEMMA AbsQueueIs == AbsQueue = Queue(Dequeued, Enqueued)
BY DEF AbsQueue, Queue

LEMMA PositionTypes ==
  ASSUME IInv
  PROVE  /\ Enqueued \in Int /\ Dequeued \in Int /\ Started \in Int
         /\ Dequeued <= Enqueued /\ Started <= Enqueued + 1
BY ConstantsAssumption DEF IInv, TypeOK, LagInv, Enqueued, Dequeued, Started, Slots

(* The writer puts a packet in when it stores the right number. *)
LEMMA WriterRefines == ASSUME IInv, Writer PROVE [Fifo!Next]_Fifo!vars
<1>1. /\ Enqueued \in Int /\ Dequeued \in Int /\ Dequeued <= Enqueued
      /\ wlap \in Nat /\ write_idx \in Slots
  BY PositionTypes DEF IInv, TypeOK
<1>2. Dequeued' = Dequeued /\ AbsAnswer' = AbsAnswer
  BY LapsGrow DEF reader, AbsAnswer, PrevSeq
<1>3. CASE EnqueueLeft \/ EnqueuePacket \/ EnqueueLastIdx
  <2>1. Enqueued' = Enqueued
    BY <1>3 DEF EnqueueLeft, EnqueuePacket, EnqueueLastIdx, Enqueued
  <2> QED  BY <1>2, <2>1 DEF AbsQueue, Fifo!vars
<1>4. CASE EnqueueRight
  <2>1. Enqueued' = Enqueued + 1
    BY <1>1, <1>4, Advance DEF EnqueueRight, Enqueued
  <2>2. AbsQueue' = Append(AbsQueue, Enqueued)
    <3>1. AbsQueue' = Queue(Dequeued, Enqueued + 1)
      BY <1>2, <2>1 DEF AbsQueue, Queue
    <3> QED  BY <1>1, <3>1, AbsQueueIs, QueueOps
  <2> QED  BY <1>2, <2>1, <2>2 DEF Fifo!Next, Fifo!Put
<1> QED  BY <1>3, <1>4 DEF Writer

(* The reader's answer is decided by its load of the right number if that  *)
(* is the one of an empty slot, and by its load of the left one otherwise. *)
LEMMA ReaderRefines == ASSUME IInv, Reader PROVE [Fifo!Next]_Fifo!vars
<1>1. /\ Enqueued \in Int /\ Dequeued \in Int /\ Dequeued <= Enqueued
      /\ Started \in Int /\ Started <= Enqueued + 1
      /\ rlap \in Nat /\ read_idx \in Slots
      /\ TypeOK /\ RingInv /\ LagInv /\ ReaderInv /\ status \in Statuses
  BY PositionTypes DEF IInv, TypeOK
<1>2. Enqueued' = Enqueued
  BY DEF Reader, DequeueCall, DequeueRight, DequeuePacket, DequeueLastIdx, DequeueLeft,
     writer, Enqueued
<1>3. ASSUME UNCHANGED <<rlap, read_idx>> PROVE AbsQueue' = AbsQueue
  BY <1>2, <1>3 DEF AbsQueue, Dequeued
<1>4. AbsQueue = Queue(Dequeued, Enqueued)
  BY AbsQueueIs
<1>5. PrevSeq(read_sq) = Sq(rlap - 1) /\ read_sq = Sq(rlap) /\ PrevSeq(read_sq) # read_sq
  <2>1. Sq(rlap - 1) # Sq(rlap)
    BY <1>1, SqInjective, ConstantsAssumption
  <2> QED  BY <1>1, <2>1, SqPrev DEF LagInv
<1>6. CASE DequeueCall
  <2>1. AbsAnswer.kind # "pending" /\ AbsAnswer' = [kind |-> "pending", packet |-> Garbage]
    BY <1>1, <1>6 DEF DequeueCall, AbsAnswer, Statuses
  <2>2. AbsQueue' = AbsQueue
    BY <1>3, <1>6 DEF DequeueCall
  <2> QED
    BY <1>2, <2>1, <2>2 DEF Fifo!Next, Fifo!Call, Fifo!Answer, Fifo!NoPacket, Garbage
<1>7. CASE DequeueRight
  <2>1. AbsAnswer = [kind |-> "pending", packet |-> Garbage]
    BY <1>7 DEF DequeueRight, AbsAnswer
  <2>2. AbsQueue' = AbsQueue /\ PrevSeq(read_sq)' = PrevSeq(read_sq)
    BY <1>3, <1>7 DEF DequeueRight, PrevSeq
  <2>3. CASE right[read_idx] = PrevSeq(read_sq)
    <3>1. AbsAnswer' = [kind |-> "empty", packet |-> Garbage]
      BY <1>7, <2>2, <2>3 DEF DequeueRight, AbsAnswer
    <3>2. RightLap(read_idx) = rlap - 1
      <4>1. Sq(RightLap(read_idx)) = Sq(rlap - 1)
        BY <1>1, <1>5, <2>3 DEF RingInv
      <4>2. /\ RightLap(read_idx) \in Int /\ rlap - 1 \in Int
            /\ rlap - 1 <= RightLap(read_idx)
            /\ RightLap(read_idx) - (rlap - 1) < MaxSeq
        BY <1>1, LapRange, ConstantsAssumption
      <4> QED  BY <4>1, <4>2, SqInjective
    <3>3. Enqueued = Dequeued
      <4>1. ~ (rlap <= RightLap(read_idx))
        BY <1>1, <3>2
      <4> QED  BY <1>1, <4>1, LapIff DEF Dequeued
    <3>4. AbsQueue = <<>>
      BY <1>1, <3>3 DEF AbsQueue
    <3> QED
      BY <1>2, <2>1, <2>2, <3>1, <3>4
         DEF Fifo!Next, Fifo!Miss, Fifo!Answer, Fifo!NoPacket, Garbage
  <2>4. CASE right[read_idx] # PrevSeq(read_sq)
    <3>1. AbsAnswer' = AbsAnswer
      BY <1>7, <2>1, <2>2, <2>4 DEF DequeueRight, AbsAnswer
    <3> QED  BY <1>2, <2>2, <3>1 DEF Fifo!vars
  <2> QED  BY <2>3, <2>4
<1>8. CASE DequeuePacket \/ DequeueLastIdx
  <2>1. AbsQueue' = AbsQueue /\ PrevSeq(read_sq)' = PrevSeq(read_sq)
    BY <1>3, <1>8 DEF DequeuePacket, DequeueLastIdx, PrevSeq
  <2>2. AbsAnswer' = AbsAnswer
    BY <1>8, <2>1 DEF DequeuePacket, DequeueLastIdx, AbsAnswer
  <2> QED  BY <1>2, <2>1, <2>2 DEF Fifo!vars
<1>9. CASE DequeueLeft
  <2>1. /\ rpc = "left" /\ rpc' = "idle" /\ result' = result
        /\ status' = Verdict(regRight, left[read_idx], read_sq)
    BY <1>9 DEF DequeueLeft
  <2>2. CASE regRight = PrevSeq(read_sq)
    <3>1. status' = "EMPTY_QUEUE"
      BY <1>5, <2>1, <2>2 DEF Verdict
    <3>2. AbsQueue' = AbsQueue
      BY <1>3, <1>9, <3>1 DEF DequeueLeft
    <3>3. AbsAnswer' = AbsAnswer
      BY <2>1, <2>2, <3>1 DEF AbsAnswer
    <3> QED  BY <1>2, <3>2, <3>3 DEF Fifo!vars
  <2>3. CASE regRight # PrevSeq(read_sq) /\ status' = "SUCEESS"
    <3>1. result.packet = Dequeued /\ Dequeued < Enqueued
      BY <2>1, <2>3, SuccessIsNext
    <3>2. Dequeued' = Dequeued + 1
      <4>1. rlap' = IF read_idx' = 0 THEN rlap + 1 ELSE rlap
        BY <1>9, <2>3 DEF DequeueLeft
      <4> QED  BY <1>1, <1>9, <2>3, <4>1, Advance DEF DequeueLeft, Dequeued
    <3>3. /\ AbsQueue # <<>> /\ Head(AbsQueue) = Dequeued
          /\ AbsQueue' = Tail(AbsQueue)
      <4>1. AbsQueue' = Queue(Dequeued + 1, Enqueued)
        BY <1>2, <3>2 DEF AbsQueue, Queue
      <4> QED  BY <1>1, <1>4, <3>1, <4>1, QueueOps
    <3>4. /\ AbsAnswer = [kind |-> "pending", packet |-> Garbage]
          /\ AbsAnswer' = [kind |-> "packet", packet |-> Dequeued]
      BY <2>1, <2>3, <3>1 DEF AbsAnswer
    <3> QED
      BY <1>2, <3>3, <3>4 DEF Fifo!Next, Fifo!Take, Fifo!Answer
  <2>4. CASE regRight # PrevSeq(read_sq) /\ status' # "SUCEESS"
    <3>1. status' \in {"SYNC", "OVERFLOW"}
      BY <2>1, <2>4 DEF Verdict
    <3>2. UNCHANGED <<rlap, read_idx, wlap, write_idx, wpc>>
      BY <1>9, <2>4 DEF DequeueLeft, writer
    <3>3. Lapped
      <4>1. Lapped'
        BY <3>1, ReaderStep DEF NoFalseAlarm
      <4> QED  BY <3>2, <4>1 DEF Lapped, Started, Enqueued, Dequeued
    <3>4. Len(AbsQueue) >= Size
      <4>1. Len(AbsQueue) = Enqueued - Dequeued
        BY <1>1, <1>4, QueueOps
      <4> QED  BY <1>1, <3>3, <4>1, ConstantsAssumption DEF Lapped
    <3>5. /\ AbsAnswer = [kind |-> "pending", packet |-> Garbage]
          /\ AbsAnswer' = [kind |-> "overrun", packet |-> Garbage]
      BY <2>1, <2>4, <3>1 DEF AbsAnswer
    <3>6. AbsQueue' = AbsQueue
      BY <1>3, <3>2
    <3> QED
      BY <1>2, <3>4, <3>5, <3>6
         DEF Fifo!Next, Fifo!Overrun, Fifo!Answer, Fifo!NoPacket, Garbage
  <2> QED  BY <2>2, <2>3, <2>4
<1> QED  BY <1>6, <1>7, <1>8, <1>9 DEF Reader

(* Every behaviour of the ring is one of the abstract queue: packets in    *)
(* order, "empty" only when nothing waits, "overrun" only when full.       *)
THEOREM RefinementCorrect == Spec => ImplementsFifo
<1>1. Init => Fifo!Init
  <2> SUFFICES ASSUME Init PROVE Fifo!Init
    OBVIOUS
  <2>1. Enqueued = 0 /\ Dequeued = 0
    BY ConstantsAssumption DEF Init, Enqueued, Dequeued
  <2>2. AbsQueue = <<>>
    BY <2>1 DEF AbsQueue
  <2> QED
    BY <2>1, <2>2 DEF Init, AbsAnswer, Fifo!Init, Fifo!Answer, Fifo!NoPacket, Garbage
<1>2. IInv /\ [Next]_vars => [Fifo!Next]_Fifo!vars
  <2> SUFFICES ASSUME IInv, [Next]_vars PROVE [Fifo!Next]_Fifo!vars
    OBVIOUS
  <2>1. CASE UNCHANGED vars
    BY <2>1 DEF vars, Fifo!vars, AbsQueue, AbsAnswer, Enqueued, Dequeued, PrevSeq
  <2> QED  BY <2>1, WriterRefines, ReaderRefines DEF Next
<1> QED  BY <1>1, <1>2, Invariance, PTL DEF Spec, ImplementsFifo, Fifo!Spec
-----------------------------------------------------------------------------
(***************************************************************************)
(* The drain at the end (DrainedQueue): the same ring, with the manager as *)
(* a second reader.                                                        *)
(***************************************************************************)

(* The writer's step that begins an enqueue, and those that go on with it. *)
LEMMA BeginIs ==
  ASSUME BeginEnqueue
  PROVE  /\ wpc = "idle" /\ wpc' = "packet"
         /\ left' = [left EXCEPT ![write_idx] = write_sq]
         /\ UNCHANGED <<right, packets, write_idx, write_sq, wlap>>
         /\ UNCHANGED <<read_idx, read_sq, rlap, rpc, regRight, status, done>>
         /\ done => final > 0
         /\ final' = IF done THEN 0 ELSE final
         /\ overrun' = (overrun \/ Started' > Position + Size)
BY DEF BeginEnqueue, EnqueueLeft, reader

LEMMA FinishIs ==
  ASSUME FinishEnqueue
  PROVE  /\ UNCHANGED <<left, read_idx, read_sq, rlap, rpc, regRight, status, done, overrun>>
         /\ final' = IF done THEN 0 ELSE final
         /\ \/ /\ wpc = "packet" /\ wpc' = "last_idx"
               /\ packets' = [packets EXCEPT ![write_idx].packet = Enqueued]
               /\ UNCHANGED <<right, write_idx, write_sq, wlap>>
            \/ /\ wpc = "last_idx" /\ wpc' = "right"
               /\ packets' = [packets EXCEPT ![write_idx].last_idx_in_root = Enqueued]
               /\ UNCHANGED <<right, write_idx, write_sq, wlap>>
            \/ /\ wpc = "right" /\ wpc' = "idle"
               /\ packets' = packets
               /\ right' = [right EXCEPT ![write_idx] = write_sq]
               /\ write_idx' = NextIdx(write_idx)
               /\ write_sq' = IF write_idx' = 0 THEN NextSeq(write_sq) ELSE write_sq
               /\ wlap' = IF write_idx' = 0 THEN wlap + 1 ELSE wlap
BY DEF FinishEnqueue, EnqueuePacket, EnqueueLastIdx, EnqueueRight, reader

(* What is kept by every step of a reader.                                 *)
ByReader == UNCHANGED <<left, right, packets, write_idx, write_sq, wpc, wlap, done, final, overrun>>

LEMMA ReaderIs ==
  ASSUME NEW r \in Readers, Dequeue(r)
  PROVE  /\ ByReader
         /\ rpc["manager"] # "end" /\ ~ Fatal
         /\ LoadRight(r) \/ LoadLeft(r) \/ LoadSq(r)
              \/ AdvanceIdx(r) \/ AdvanceSq(r)
BY DEF Dequeue, LoadRight, LoadLeft, LoadSq, AdvanceIdx, AdvanceSq, ring, writer, ByReader, Fatal

LEMMA TwoReaders == Readers = {"scanner", "manager"}
BY DEF Readers

-----------------------------------------------------------------------------
LEMMA DrainTypeInit == DrainInit => DrainTypeOK
<1> SUFFICES ASSUME DrainInit PROVE DrainTypeOK
  OBVIOUS
<1>1. 0 \in Slots /\ 0 \in SeqNumbers /\ 1 \in SeqNumbers
  BY ConstantsAssumption DEF Slots, SeqNumbers
<1> QED
  BY <1>1 DEF DrainInit, HeavyPackets, Garbage, Statuses, Readers, Registers, DrainTypeOK

LEMMA NextNumbers == \A sq \in SeqNumbers : NextSeq(sq) \in SeqNumbers
BY ConstantsAssumption DEF NextSeq, SeqNumbers

(* What each step of a reader does.                                        *)
LEMMA LoadRightIs ==
  ASSUME NEW r \in Readers, LoadRight(r)
  PROVE  /\ rpc[r] = "idle" /\ rpc' = [rpc EXCEPT ![r] = "sq"]
         /\ regRight' = [regRight EXCEPT ![r].idx = read_idx, ![r].right = right[read_idx]]
         /\ UNCHANGED <<read_idx, read_sq, rlap, status>>
BY DEF LoadRight, Goto

LEMMA LoadSqIs ==
  ASSUME NEW r \in Readers, LoadSq(r)
  PROVE  /\ rpc[r] = "sq" /\ rpc' = [rpc EXCEPT ![r] = "left"]
         /\ regRight' = [regRight EXCEPT ![r].sq = read_sq, ![r].lap = rlap]
         /\ UNCHANGED <<read_idx, read_sq, rlap, status>>
BY DEF LoadSq, Goto

LEMMA LoadLeftIs ==
  ASSUME NEW r \in Readers, LoadLeft(r)
  PROVE  /\ rpc[r] = "left" /\ UNCHANGED <<read_idx, read_sq, rlap, regRight>>
         /\ LET answer == Verdict(regRight[r].right, left[regRight[r].idx], regRight[r].sq)
            IN /\ status' = [status EXCEPT ![r] = answer]
               /\ answer = "SUCEESS" => rpc' = [rpc EXCEPT ![r] = "advance"]
               /\ answer # "SUCEESS" =>
                    \E next \in {"idle", "end", "fatal"} :
                      /\ rpc' = [rpc EXCEPT ![r] = next]
                      /\ next = "fatal" => r = "scanner" /\ answer \notin {"EMPTY_QUEUE", "SYNC"}
<1>2. \A answer : answer # "SUCEESS" => \A next \in Answered(r, answer) :
         next \in {"idle", "end", "fatal"} /\
         (next = "fatal" => r = "scanner" /\ answer \notin {"EMPTY_QUEUE", "SYNC"})
  BY TwoReaders DEF Answered
<1> QED  BY <1>2 DEF LoadLeft, Goto

LEMMA AdvanceIdxIs ==
  ASSUME NEW r \in Readers, AdvanceIdx(r)
  PROVE  /\ rpc[r] = "advance" /\ UNCHANGED <<read_sq, rlap, regRight, status>>
         /\ read_idx' = NextIdx(regRight[r].idx)
         /\ \E next \in IF read_idx' = 0 THEN {"wrap"}
                        ELSE IF done /\ r = "scanner" THEN {"end"} ELSE {"idle"} :
              rpc' = [rpc EXCEPT ![r] = next]
<1>1. Answered(r, "SUCEESS") = IF done /\ r = "scanner" THEN {"end"} ELSE {"idle"}
  BY TwoReaders DEF Answered
<1> QED  BY <1>1 DEF AdvanceIdx, Goto

LEMMA AdvanceSqIs ==
  ASSUME NEW r \in Readers, AdvanceSq(r)
  PROVE  /\ rpc[r] = "wrap" /\ UNCHANGED <<read_idx, regRight, status>>
         /\ read_sq' = NextSeq(regRight[r].sq)
         /\ rlap' = regRight[r].lap + 1
         /\ \E next \in IF done /\ r = "scanner" THEN {"end"} ELSE {"idle"} :
              rpc' = [rpc EXCEPT ![r] = next]
<1>1. Answered(r, "SUCEESS") = IF done /\ r = "scanner" THEN {"end"} ELSE {"idle"}
  BY TwoReaders DEF Answered
<1> QED  BY <1>1 DEF AdvanceSq, Goto

LEMMA StopIs ==
  ASSUME Stop
  PROVE  /\ ~ done /\ done' = TRUE
         /\ UNCHANGED <<left, right, packets, write_idx, write_sq, wpc, wlap>>
         /\ UNCHANGED <<read_idx, read_sq, rlap, rpc, regRight, status, final, overrun>>
BY DEF Stop, ring, writer, dequeues

LEMMA StartDrainIs ==
  ASSUME StartDrain
  PROVE  /\ done /\ rpc["manager"] = "off" /\ rpc' = [rpc EXCEPT !["manager"] = "idle"]
         /\ UNCHANGED <<left, right, packets, write_idx, write_sq, wpc, wlap>>
         /\ UNCHANGED <<read_idx, read_sq, rlap, regRight, status, done, final, overrun>>
BY DEF StartDrain, Goto, ring, writer

LEMMA DrainTypeStep == DrainTypeOK /\ [DrainNext]_drainVars => DrainTypeOK'
<1> SUFFICES ASSUME DrainTypeOK, [DrainNext]_drainVars PROVE DrainTypeOK'
  OBVIOUS
<1> DEFINE
     P == /\ left \in [Slots -> SeqNumbers] /\ right \in [Slots -> SeqNumbers]
          /\ packets \in [Slots -> HeavyPackets]
          /\ write_idx \in Slots /\ write_sq \in SeqNumbers /\ wlap \in Nat
          /\ wpc \in {"idle", "packet", "last_idx", "right"}
          /\ done \in BOOLEAN /\ final \in {0, 1} /\ overrun \in BOOLEAN
     Q == /\ read_idx \in Slots /\ read_sq \in SeqNumbers /\ rlap \in Nat
          /\ rpc \in [Readers -> {"off", "idle", "sq", "left", "advance", "wrap", "end", "fatal"}]
          /\ regRight \in [Readers -> Registers]
          /\ status \in [Readers -> Statuses]
<1>0. P /\ Q
  BY DEF DrainTypeOK
<1>1. ASSUME P', Q' PROVE DrainTypeOK'
  BY <1>1 DEF DrainTypeOK
<1>2. Enqueued \in Nat
  <2>1. wlap \in Nat /\ write_idx \in Nat /\ Size \in Nat
    BY <1>0, ConstantsAssumption DEF Slots
  <2> HIDE DEF P, Q
  <2> QED  BY <2>1 DEF Enqueued
<1>3. CASE BeginEnqueue
  <2>1. P'
    BY <1>0, <1>3, BeginIs
  <2>2. Q'
    BY <1>0, <1>3, BeginIs
  <2> QED  BY <1>1, <2>1, <2>2
<1>4. CASE FinishEnqueue
  <2>1. packets' \in [Slots -> HeavyPackets]
    BY <1>0, <1>2, <1>4, FinishIs DEF HeavyPackets
  <2>2. P'
    BY <1>0, <1>4, <2>1, FinishIs, NextNumbers, NextIdxStep
  <2>3. Q'
    BY <1>0, <1>4, FinishIs
  <2> QED  BY <1>1, <2>2, <2>3
<1>5. CASE Stop
  BY <1>0, <1>1, <1>5, StopIs
<1>6. CASE StartDrain
  BY <1>0, <1>1, <1>6, StartDrainIs
<1>7. ASSUME NEW r \in Readers, Dequeue(r)
      PROVE  DrainTypeOK'
  <2>0. regRight[r] \in Registers /\ right[read_idx] \in SeqNumbers
    BY <1>0
  <2>1. P'
    BY <1>0, <1>7, ReaderIs DEF ByReader
  <2>2. Q'
    <3>1. CASE LoadRight(r)
      <4> DEFINE reg == [regRight[r] EXCEPT !.idx = read_idx, !.right = right[read_idx]]
      <4>1. reg \in Registers
        BY <1>0, <2>0 DEF Registers
      <4>2. regRight' = [regRight EXCEPT ![r] = reg]
        BY <3>1, LoadRightIs
      <4>3. regRight' \in [Readers -> Registers]
        BY <1>0, <4>1, <4>2
      <4> HIDE DEF reg
      <4> QED  BY <1>0, <3>1, <4>3, LoadRightIs
    <3>2. CASE LoadSq(r)
      <4> DEFINE reg == [regRight[r] EXCEPT !.sq = read_sq, !.lap = rlap]
      <4>1. reg \in Registers
        BY <1>0, <2>0 DEF Registers
      <4>2. regRight' = [regRight EXCEPT ![r] = reg]
        BY <3>2, LoadSqIs
      <4>3. regRight' \in [Readers -> Registers]
        BY <1>0, <4>1, <4>2
      <4> HIDE DEF reg
      <4> QED  BY <1>0, <3>2, <4>3, LoadSqIs
    <3>3. CASE LoadLeft(r)
      <4>1. Verdict(regRight[r].right, left[regRight[r].idx], regRight[r].sq) \in Statuses
        BY DEF Verdict, Statuses
      <4>2. status' \in [Readers -> Statuses]
        BY <1>0, <3>3, <4>1, LoadLeftIs
      <4>3. PICK next \in {"advance", "idle", "end", "fatal"} : rpc' = [rpc EXCEPT ![r] = next]
        BY <3>3, LoadLeftIs
      <4>4. rpc' \in [Readers -> {"off", "idle", "sq", "left", "advance", "wrap", "end", "fatal"}]
        BY <1>0, <4>3
      <4>5. UNCHANGED <<read_idx, read_sq, rlap, regRight>>
        BY <3>3, LoadLeftIs
      <4> QED  BY <1>0, <4>2, <4>4, <4>5
    <3>4. CASE AdvanceIdx(r)
      BY <1>0, <3>4, <2>0, AdvanceIdxIs, NextIdxStep DEF Registers
    <3>5. CASE AdvanceSq(r)
      BY <1>0, <3>5, <2>0, AdvanceSqIs, NextNumbers DEF Registers
    <3> QED  BY <1>7, <3>1, <3>2, <3>3, <3>4, <3>5, ReaderIs
  <2> QED  BY <1>1, <2>1, <2>2
<1>8. CASE UNCHANGED drainVars
  BY <1>0, <1>1, <1>8 DEF drainVars, vars
<1> QED  BY <1>3, <1>4, <1>5, <1>6, <1>7, <1>8 DEF DrainNext, Readers

(* The types hold with two readers as well.                                *)
THEOREM DrainTypeCorrect == DrainSpec => []DrainTypeOK
<1> QED  BY DrainTypeInit, DrainTypeStep, PTL DEF DrainSpec

-----------------------------------------------------------------------------
(***************************************************************************)
(* The inductive invariant of the drain.  Until the stop, and after it     *)
(* until the scanner has made its last step as a reader, one thread holds  *)
(* read_idx: the scanner, then the manager.  What the holder has in its    *)
(* registers is the state of the queue.  What the scanner has there after  *)
(* the stop is the state of some earlier moment, at which it looked for    *)
(* the packet at slot idx of lap l: the manager may have gone on since,    *)
(* and stored read_idx = 0 before read_sq.                                 *)
(***************************************************************************)
Holder  == IF done THEN "manager" ELSE "scanner"
Escaped == done /\ rpc["scanner"] \in {"advance", "wrap", "end"}
Behaved == ~ overrun /\ ~ Escaped /\ ~ Fatal

DrainRing ==
  /\ write_sq = Sq(wlap)
  /\ \A i \in Slots : left[i] = Sq(LeftLap(i)) /\ right[i] = Sq(RightLap(i))

DrainPhase == ~ done => rpc["manager"] = "off" /\ final = 1

(* The right number seen where the packet of lap l was looked for: that of *)
(* the lap before, or its own if n packets, this one among them, are there.*)
Seen(number, l, i, n) ==
  \/ number = Sq(l - 1)
  \/ number = Sq(l) /\ l * Size + i < n

Behind(l, m, i) == l <= m \/ (i = 0 /\ l <= m + 1)

HolderInv ==
  /\ rpc[Holder] \in {"sq", "left", "advance"} => regRight[Holder].idx = read_idx
  /\ rpc[Holder] \in {"left", "advance", "wrap"} =>
       regRight[Holder].sq = read_sq /\ regRight[Holder].lap = rlap
  /\ rpc[Holder] \in {"sq", "left"} => 
       Seen(regRight[Holder].right, rlap, regRight[Holder].idx, Enqueued)
  /\ rpc[Holder] = "advance" => Position < Enqueued
  /\ rpc[Holder] = "wrap" => read_idx = 0

StaleAt(l) ==
  LET reg == regRight["scanner"]
  IN /\ l * Size + reg.idx <= Position
     /\ Started + final <= l * Size + reg.idx + Size + 1
     /\ Seen(reg.right, l, reg.idx, Enqueued)
     /\ rpc["scanner"] = "sq" => Behind(l, rlap, reg.idx)
     /\ rpc["scanner"] = "left" =>
          Behind(l, reg.lap, reg.idx) /\ reg.lap <= rlap /\ reg.sq = Sq(reg.lap)

StaleInv == done /\ rpc["scanner"] \in {"sq", "left"} => \E l \in Nat : StaleAt(l)

PlaceInv ==
  /\ read_sq = Sq(rlap)
  /\ Position <= Enqueued /\ Started <= Position + Size

OrderInv == PlaceInv /\ HolderInv /\ StaleInv

DrainInv ==
  /\ DrainTypeOK /\ DrainRing /\ DrainPhase
  /\ Behaved => OrderInv
  /\ FatalOnlyAtWrap

LEMMA PosIs ==
  Position = rlap * Size + read_idx
          + (IF rpc["scanner"] = "wrap" \/ rpc["manager"] = "wrap" THEN Size ELSE 0)
BY TwoReaders DEF Position, Dequeued, Readers

LEMMA Numbers ==
  DrainTypeOK =>
         /\ Position \in Nat /\ Enqueued \in Nat /\ Started \in Nat /\ rlap * Size \in Nat
         /\ rlap * Size <= Position /\ Enqueued <= Started /\ Started <= Enqueued + 1
         /\ wpc = "idle" => Started = Enqueued
<1> SUFFICES ASSUME DrainTypeOK
             PROVE  /\ Position \in Nat /\ Enqueued \in Nat /\ Started \in Nat /\ rlap * Size \in Nat
                    /\ rlap * Size <= Position /\ Enqueued <= Started /\ Started <= Enqueued + 1
                    /\ wpc = "idle" => Started = Enqueued
  OBVIOUS
<1>1. /\ rlap \in Nat /\ wlap \in Nat /\ write_idx \in Nat /\ read_idx \in Nat /\ Size \in Nat
  BY ConstantsAssumption DEF DrainTypeOK, Slots
<1>2. rlap * Size \in Nat /\ wlap * Size \in Nat
  BY <1>1
<1> QED  BY <1>1, <1>2, PosIs DEF Enqueued, Started

(* A reader that looks for the packet at slot i of lap l, when all packets *)
(* before it were enqueued and the writer is at most one ring ahead.       *)
LEMMA SeesIt ==
  ASSUME DrainTypeOK, DrainRing, NEW l \in Nat, NEW i \in Slots,
         l * Size + i <= Enqueued, Started <= l * Size + i + Size
  PROVE  Seen(right[i], l, i, Enqueued)
<1>0. wlap \in Int /\ write_idx \in Slots /\ l - 1 \in Int /\ l + 1 \in Int /\ Size >= 1
  BY ConstantsAssumption DEF DrainTypeOK
<1>1. /\ (l - 1) * Size = l * Size - Size /\ (l + 1) * Size = l * Size + Size
      /\ l * Size \in Int /\ i \in Int /\ Size \in Int
  BY ConstantsAssumption DEF Slots
<1>2. /\ Enqueued \in Int /\ Started \in Int /\ Enqueued <= Started
      /\ RightLap(i) \in Int
  BY Numbers DEF RightLap, FieldLap, DrainTypeOK
<1>3. l - 1 <= RightLap(i)
  BY <1>0, <1>1, <1>2, LapAt
<1>4. ~ (l + 1 <= RightLap(i))
  BY <1>0, <1>1, <1>2, LapAt
<1>5. RightLap(i) = l - 1 \/ RightLap(i) = l
  BY <1>2, <1>3, <1>4
<1>6. l <= RightLap(i) <=> l * Size + i < Enqueued
  BY <1>0, LapAt
<1> QED  BY <1>5, <1>6 DEF Seen, DrainRing

(* Neighbouring laps have different numbers.                               *)
LEMMA SqNear == ASSUME NEW l \in Int PROVE Sq(l - 1) # Sq(l)
BY SqInjective, ConstantsAssumption

(* A successful answer means the packet looked for is there.               *)
LEMMA FoundIt ==
  ASSUME NEW l \in Nat, NEW i, NEW r, Seen(r, l, i, Enqueued), NEW n, Verdict(r, n, Sq(l)) = "SUCEESS"
  PROVE  l * Size + i < Enqueued
<1>1. r = Sq(l)
  BY DEF Verdict
<1> QED  BY <1>1, SqNear DEF Seen

(* When a reader that looked for the packet at slot i of lap l, and then   *)
(* loaded the sequence number of lap m, is told OVERFLOW: lap m is one     *)
(* behind, the packet is there, and it is the first of its lap.            *)
LEMMA Misled ==
  ASSUME DrainTypeOK, DrainRing, NEW l \in Nat, NEW m \in Nat, NEW i \in Slots, NEW r,
         Seen(r, l, i, Enqueued), Behind(l, m, i),
         l * Size + i <= Enqueued, Started <= l * Size + i + Size + 1,
         m * Size <= Enqueued,
         Verdict(r, left[i], Sq(m)) = "OVERFLOW"
  PROVE  l = m + 1 /\ i = 0 /\ r = Sq(l)
<1> DEFINE f == LeftLap(i)
<1>0. /\ wlap \in Int /\ write_idx \in Slots /\ l - 1 \in Int /\ l + 1 \in Int /\ l + 2 \in Int
      /\ Size >= 1 /\ 0 \in Slots
  BY ConstantsAssumption DEF DrainTypeOK, Slots
<1>1. /\ (l - 1) * Size = l * Size - Size /\ (l + 1) * Size = l * Size + Size
      /\ (l + 2) * Size = l * Size + Size + Size
      /\ l * Size \in Int /\ m * Size \in Int /\ i \in Int /\ i >= 0 /\ i < Size /\ Size \in Int
  BY ConstantsAssumption DEF Slots
<1>2. Enqueued \in Int /\ Started \in Int /\ Enqueued <= Started /\ f \in Int
  BY Numbers DEF LeftLap, FieldLap, DrainTypeOK
<1>3. l - 1 <= f /\ ~ (l + 2 <= f)
  BY <1>0, <1>1, <1>2, LapAt
<1>4. r = Sq(f) /\ r # Sq(m) /\ r # Sq(m - 1)
  BY SqPrev DEF DrainRing, Verdict
<1>5. MaxSeq > 2
  <2>1. Sq(m) \in SeqNumbers /\ Sq(m - 1) \in SeqNumbers /\ Sq(f) \in SeqNumbers
    BY <1>2, SqType
  <2> QED  BY <2>1, <1>4, SqNear, ConstantsAssumption DEF SeqNumbers
<1>6. /\ l <= f <=> l * Size + i < Started
      /\ l + 1 <= f <=> (l + 1) * Size + i < Started
  BY <1>0, LapAt
<1>7. CASE r = Sq(l - 1)
  <2>1. f = l - 1
    <3>1. l - 1 <= f /\ f - (l - 1) < MaxSeq /\ Sq(l - 1) = Sq(f)
      BY <1>2, <1>3, <1>4, <1>5, <1>7, ConstantsAssumption
    <3> HIDE DEF f
    <3> QED  BY <1>0, <1>2, <3>1, SqInjective
  <2>2. m * Size + 0 <= l * Size + i
    BY <1>1, <1>2, <1>6, <2>1
  <2>3. m <= l
    BY <1>0, <2>2, PositionOrder
  <2> QED  BY <1>4, <1>7, <2>3 DEF Behind
<1>8. CASE r = Sq(l) /\ l * Size + i < Enqueued
  <2>1. f = l
    <3>1. l <= f /\ f - l < MaxSeq /\ Sq(l) = Sq(f)
      BY <1>1, <1>2, <1>3, <1>4, <1>6, <1>8, ConstantsAssumption
    <3> HIDE DEF f
    <3> QED  BY <1>2, <3>1, SqInjective
  <2>2. m * Size + 0 <= (l + 1) * Size + i
    BY <1>1, <1>2, <1>6, <2>1
  <2>3. m <= l + 1
    BY <1>0, <2>2, PositionOrder
  <2> QED  BY <1>4, <1>8, <2>3 DEF Behind
<1> QED  BY <1>7, <1>8 DEF Seen

-----------------------------------------------------------------------------
(* The steps, component by component.                                      *)
Others(r) == \A q \in Readers \ {r} : rpc'[q] = rpc[q] /\ regRight'[q] = regRight[q]

LEMMA LoadRightAt ==
  ASSUME DrainTypeOK, NEW r \in Readers, LoadRight(r)
  PROVE  /\ rpc[r] = "idle" /\ rpc'[r] = "sq" /\ Others(r)
         /\ regRight'[r].idx = read_idx /\ regRight'[r].right = right[read_idx]
<1>1. DOMAIN rpc = Readers /\ DOMAIN regRight = Readers /\ regRight[r] \in Registers
  BY DEF DrainTypeOK
<1> QED  BY <1>1, LoadRightIs DEF Others, Registers

LEMMA LoadSqAt ==
  ASSUME DrainTypeOK, NEW r \in Readers, LoadSq(r)
  PROVE  /\ rpc[r] = "sq" /\ rpc'[r] = "left" /\ Others(r)
         /\ regRight'[r].sq = read_sq /\ regRight'[r].lap = rlap
         /\ regRight'[r].idx = regRight[r].idx /\ regRight'[r].right = regRight[r].right
<1>1. DOMAIN rpc = Readers /\ DOMAIN regRight = Readers /\ regRight[r] \in Registers
  BY DEF DrainTypeOK
<1>2. rpc[r] = "sq" /\ rpc' = [rpc EXCEPT ![r] = "left"]
  BY LoadSqIs
<1>3. regRight' = [regRight EXCEPT ![r] = [regRight[r] EXCEPT !.sq = read_sq, !.lap = rlap]]
  BY LoadSqIs
<1>4. rpc'[r] = "left" /\ \A q \in Readers \ {r} : rpc'[q] = rpc[q]
  BY <1>1, <1>2
<1>5. /\ regRight'[r] = [regRight[r] EXCEPT !.sq = read_sq, !.lap = rlap]
      /\ \A q \in Readers \ {r} : regRight'[q] = regRight[q]
  BY <1>1, <1>3
<1>6. /\ regRight'[r].sq = read_sq /\ regRight'[r].lap = rlap
      /\ regRight'[r].idx = regRight[r].idx /\ regRight'[r].right = regRight[r].right
  BY <1>1, <1>5 DEF Registers
<1> QED  BY <1>2, <1>4, <1>5, <1>6 DEF Others

LEMMA LoadLeftAt ==
  ASSUME DrainTypeOK, NEW r \in Readers, LoadLeft(r)
  PROVE  LET answer == Verdict(regRight[r].right, left[regRight[r].idx], regRight[r].sq)
         IN /\ rpc[r] = "left" /\ Others(r)
            /\ rpc'[r] \in {"advance", "idle", "end", "fatal"}
            /\ rpc'[r] = "advance" => answer = "SUCEESS"
            /\ rpc'[r] = "fatal" => r = "scanner" /\ answer = "OVERFLOW"
<1>1. DOMAIN rpc = Readers
  BY DEF DrainTypeOK
<1> DEFINE answer == Verdict(regRight[r].right, left[regRight[r].idx], regRight[r].sq)
<1>2. answer \in {"SUCEESS", "EMPTY_QUEUE", "SYNC", "OVERFLOW"}
  BY DEF Verdict
<1>3. rpc[r] = "left" /\ UNCHANGED regRight
  BY LoadLeftIs
<1>4. CASE answer = "SUCEESS"
  <2>1. rpc' = [rpc EXCEPT ![r] = "advance"]
    BY <1>4, LoadLeftIs
  <2> HIDE DEF answer
  <2> QED  BY <1>1, <1>3, <1>4, <2>1 DEF Others, answer
<1>5. CASE answer # "SUCEESS"
  <2>1. PICK next \in {"idle", "end", "fatal"} :
          /\ rpc' = [rpc EXCEPT ![r] = next]
          /\ next = "fatal" => r = "scanner" /\ answer \notin {"EMPTY_QUEUE", "SYNC"}
    BY <1>5, LoadLeftIs
  <2> HIDE DEF answer
  <2> QED  BY <1>1, <1>2, <1>3, <1>5, <2>1 DEF Others, answer
<1> QED  BY <1>4, <1>5

LEMMA AdvanceIdxAt ==
  ASSUME DrainTypeOK, NEW r \in Readers, AdvanceIdx(r)
  PROVE  /\ rpc[r] = "advance" /\ Others(r)
         /\ read_idx' = NextIdx(regRight[r].idx)
         /\ read_idx' = 0 => rpc'[r] = "wrap"
         /\ read_idx' # 0 => rpc'[r] \in {"end", "idle"}
<1>1. DOMAIN rpc = Readers
  BY DEF DrainTypeOK
<1> QED  BY <1>1, AdvanceIdxIs DEF Others

LEMMA AdvanceSqAt ==
  ASSUME DrainTypeOK, NEW r \in Readers, AdvanceSq(r)
  PROVE  rpc[r] = "wrap" /\ Others(r) /\ rpc'[r] \in {"end", "idle"}
<1>1. DOMAIN rpc = Readers
  BY DEF DrainTypeOK
<1> QED  BY <1>1, AdvanceSqIs DEF Others

LEMMA StartDrainAt ==
  ASSUME DrainTypeOK, StartDrain
  PROVE  rpc'["manager"] = "idle" /\ rpc'["scanner"] = rpc["scanner"]
<1>1. DOMAIN rpc = Readers
  BY DEF DrainTypeOK
<1> QED  BY <1>1, StartDrainIs, TwoReaders

-----------------------------------------------------------------------------
LEMMA DrainRingStep == DrainTypeOK /\ DrainRing /\ [DrainNext]_drainVars => DrainRing'
<1> SUFFICES ASSUME DrainTypeOK, DrainRing, [DrainNext]_drainVars PROVE DrainRing'
  OBVIOUS
<1>0. wlap \in Nat /\ write_idx \in Slots /\ DOMAIN left = Slots /\ DOMAIN right = Slots
  BY DEF DrainTypeOK
<1> USE DEF DrainRing, LeftLap, RightLap, FieldLap
<1>1. CASE UNCHANGED <<left, right, write_idx, write_sq, wlap, wpc>>
  BY <1>1
<1>2. CASE BeginEnqueue
  BY <1>0, <1>2, BeginIs DEF Slots
<1>3. CASE FinishEnqueue
  <2>1. CASE wpc \in {"packet", "last_idx"}
    BY <1>0, <1>3, <2>1, FinishIs
  <2>2. CASE wpc = "right"
    <3>0. /\ wpc' = "idle" /\ left' = left /\ right' = [right EXCEPT ![write_idx] = write_sq]
          /\ write_idx' = NextIdx(write_idx)
          /\ write_sq' = IF write_idx' = 0 THEN NextSeq(write_sq) ELSE write_sq
          /\ wlap' = IF write_idx' = 0 THEN wlap + 1 ELSE wlap
      BY <1>3, <2>2, FinishIs
    <3>1. write_sq' = Sq(wlap')
      BY <1>0, <3>0, SqNext
    <3>2. /\ write_idx' = IF write_idx = Size - 1 THEN 0 ELSE write_idx + 1
          /\ wlap' = IF write_idx = Size - 1 THEN wlap + 1 ELSE wlap
      BY <1>0, <3>0, NextIdxStep, ConstantsAssumption DEF Slots
    <3>3. ASSUME NEW i \in Slots
          PROVE  /\ LeftLap(i)' = LeftLap(i)
                 /\ RightLap(i)' = IF i = write_idx THEN wlap ELSE RightLap(i)
                 /\ left'[i] = left[i]
                 /\ right'[i] = IF i = write_idx THEN write_sq ELSE right[i]
      BY <1>0, <2>2, <3>0, <3>2 DEF Slots
    <3> QED  BY <1>0, <3>1, <3>3
  <2> QED  BY <1>3, <2>1, <2>2, FinishIs
<1>4. CASE Stop \/ StartDrain
  BY <1>1, <1>4, StopIs, StartDrainIs
<1>5. ASSUME NEW r \in Readers, Dequeue(r) PROVE DrainRing'
  BY <1>1, <1>5, ReaderIs DEF ByReader
<1>6. CASE UNCHANGED drainVars
  BY <1>1, <1>6 DEF drainVars, vars
<1> QED  BY <1>2, <1>3, <1>4, <1>5, <1>6 DEF DrainNext, Readers

LEMMA DrainPhaseStep ==
  DrainTypeOK /\ DrainPhase /\ [DrainNext]_drainVars => DrainPhase'
<1> SUFFICES ASSUME DrainTypeOK, DrainPhase, [DrainNext]_drainVars, ~ done'
             PROVE  rpc'["manager"] = "off" /\ final' = 1
  BY DEF DrainPhase
<1> USE DEF DrainPhase
<1>1. CASE BeginEnqueue
  BY <1>1, BeginIs
<1>2. CASE FinishEnqueue
  BY <1>2, FinishIs
<1>3. CASE Stop \/ StartDrain
  <2>1. CASE Stop
    BY <2>1, StopIs
  <2>2. CASE StartDrain
    <3>1. done /\ done' = done
      BY <2>2, StartDrainIs
    <3> QED  BY <3>1
  <2> QED  BY <1>3, <2>1, <2>2
<1>4. ASSUME NEW r \in Readers, Dequeue(r)
      PROVE  rpc'["manager"] = "off" /\ final' = 1
  <2>1. ~ done /\ final' = final /\ rpc["manager"] = "off"
    BY <1>4, ReaderIs DEF ByReader
  <2>2. Others(r) /\ rpc[r] # "off"
    <3>1. CASE LoadRight(r)
      BY <3>1, LoadRightAt
    <3>2. CASE LoadSq(r)
      BY <3>2, LoadSqAt
    <3>3. CASE LoadLeft(r)
      BY <3>3, LoadLeftAt
    <3>4. CASE AdvanceIdx(r)
      BY <3>4, AdvanceIdxAt
    <3>5. CASE AdvanceSq(r)
      BY <3>5, AdvanceSqAt
    <3> QED  BY <1>4, <3>1, <3>2, <3>3, <3>4, <3>5, ReaderIs
  <2> QED  BY <2>1, <2>2, TwoReaders DEF Others
<1>5. CASE UNCHANGED drainVars
  BY <1>5 DEF drainVars, vars
<1> QED  BY <1>1, <1>2, <1>3, <1>4, <1>5 DEF DrainNext, Readers

-----------------------------------------------------------------------------
(* Who behaves after a step behaved before it.                             *)
LEMMA BehavedBefore ==
  ASSUME DrainTypeOK, [DrainNext]_drainVars, Behaved'
  PROVE  Behaved
<1>0. rpc["scanner"] # "fatal" <=> ~ Fatal
  BY DEF Fatal
<1>00. (rpc["scanner"] # "fatal" <=> ~ Fatal)'
  BY DEF Fatal
<1> SUFFICES ASSUME overrun \/ Escaped \/ Fatal PROVE FALSE
  BY DEF Behaved
<1>1. ~ overrun' /\ ~ (done' /\ rpc'["scanner"] \in {"advance", "wrap", "end"})
      /\ rpc'["scanner"] # "fatal"
  BY <1>00 DEF Behaved, Escaped
<1>2. overrun \/ (done /\ rpc["scanner"] \in {"advance", "wrap", "end"})
        \/ rpc["scanner"] = "fatal"
  BY <1>0 DEF Escaped
<1>3. CASE BeginEnqueue
  BY <1>1, <1>2, <1>3, BeginIs
<1>4. CASE FinishEnqueue
  BY <1>1, <1>2, <1>4, FinishIs
<1>5. CASE Stop
  BY <1>1, <1>2, <1>5, StopIs
<1>6. CASE StartDrain
  BY <1>1, <1>2, <1>6, StartDrainIs, StartDrainAt
<1>7. ASSUME NEW r \in Readers, Dequeue(r) PROVE FALSE
  <2>1. done /\ ~ overrun /\ done' = done /\ rpc["scanner"] \in {"advance", "wrap", "end"}
    BY <1>0, <1>1, <1>2, <1>7, ReaderIs DEF ByReader
  <2>2. rpc'["scanner"] \notin {"advance", "wrap", "end"}
    BY <1>1, <2>1
  <2>3. r = "scanner"
    <3>1. Others(r)
      BY <1>7, ReaderIs, LoadRightAt, LoadSqAt, LoadLeftAt, AdvanceIdxAt, AdvanceSqAt
    <3> QED  BY <2>1, <2>2, <3>1, TwoReaders DEF Others
  <2>4. CASE AdvanceIdx(r)
    <3>1. rpc' = [rpc EXCEPT ![r] = "wrap"] \/ rpc' = [rpc EXCEPT ![r] = "end"]
      BY <2>1, <2>3, <2>4, AdvanceIdxIs
    <3> QED  BY <2>2, <2>3, <3>1 DEF DrainTypeOK
  <2>5. CASE AdvanceSq(r)
    <3>1. rpc' = [rpc EXCEPT ![r] = "end"]
      BY <2>1, <2>3, <2>5, AdvanceSqIs
    <3> QED  BY <2>2, <2>3, <3>1 DEF DrainTypeOK
  <2>6. ~ (LoadRight(r) \/ LoadSq(r) \/ LoadLeft(r))
    BY <2>1, <2>3, LoadRightAt, LoadSqAt, LoadLeftAt
  <2> QED  BY <1>7, <2>4, <2>5, <2>6, ReaderIs
<1>8. CASE UNCHANGED drainVars
  BY <1>1, <1>2, <1>8 DEF drainVars, vars
<1> QED  BY <1>3, <1>4, <1>5, <1>6, <1>7, <1>8 DEF DrainNext, Readers

(* What the scanner saw stays true while the others go on.                 *)
LEMMA StaleKeeps ==
  ASSUME DrainTypeOK, DrainTypeOK', StaleInv, done, 
         rpc'["scanner"] = rpc["scanner"], regRight'["scanner"] = regRight["scanner"],
         Position <= Position', Enqueued <= Enqueued', rlap <= rlap',
         Started' + final' <= Started + final
  PROVE  StaleInv'
<1> SUFFICES ASSUME rpc["scanner"] \in {"sq", "left"}
             PROVE  \E l \in Nat : StaleAt(l)'
  BY DEF StaleInv
<1>1. PICK l \in Nat : StaleAt(l)
  BY DEF StaleInv
<1> DEFINE reg == regRight["scanner"]
<1>2. /\ reg \in Registers /\ reg.idx \in Nat /\ reg.lap \in Nat
      /\ Size \in Nat /\ l * Size \in Nat
  BY ConstantsAssumption, TwoReaders DEF DrainTypeOK, Registers, Slots
<1>3. /\ Position \in Nat /\ Enqueued \in Nat /\ Started \in Nat /\ rlap \in Nat /\ final \in Nat
      /\ Position' \in Nat /\ Enqueued' \in Nat /\ Started' \in Nat /\ rlap' \in Nat /\ final' \in Nat
  <2>1. (Position \in Nat /\ Enqueued \in Nat /\ Started \in Nat)'
    BY Numbers, PTL
  <2> QED  BY <2>1, Numbers DEF DrainTypeOK
<1>4. reg' = reg /\ rpc'["scanner"] = rpc["scanner"]
  OBVIOUS
<1> HIDE DEF reg
<1>5. l * Size + reg.idx <= Position' /\ Started' + final' <= l * Size + reg.idx + Size + 1
  <2> DEFINE p == l * Size + reg.idx
  <2>1. p <= Position /\ Started + final <= p + Size + 1
    BY <1>1 DEF StaleAt, reg
  <2>2. p \in Nat
    BY <1>2
  <2> HIDE DEF p
  <2>3. p <= Position'
    BY <1>3, <2>1, <2>2
  <2>4. Started + final \in Nat /\ Started' + final' \in Nat /\ p + Size + 1 \in Nat
    <3>1. ASSUME NEW a \in Nat, NEW b \in Nat PROVE a + b \in Nat
      OBVIOUS
    <3>2. p + Size \in Nat /\ (p + Size) + 1 \in Nat
      BY <1>2, <2>2
    <3> QED  BY <1>3, <3>1, <3>2
  <2>5. ASSUME NEW a \in Nat, NEW b \in Nat, NEW c \in Nat, a <= b, b <= c PROVE a <= c
    BY <2>5
  <2>6. Started' + final' <= p + Size + 1
    BY <2>1, <2>4, <2>5
  <2> QED  BY <2>3, <2>6 DEF p
<1>6. Seen(reg.right, l, reg.idx, Enqueued')
  <2>1. Seen(reg.right, l, reg.idx, Enqueued)
    BY <1>1 DEF StaleAt, reg
  <2> QED  BY <1>2, <1>3, <2>1 DEF Seen
<1>7. rpc["scanner"] = "sq" => Behind(l, rlap', reg.idx)
  BY <1>1, <1>2, <1>3 DEF StaleAt, Behind, reg
<1>8. rpc["scanner"] = "left" =>
        Behind(l, reg.lap, reg.idx) /\ reg.lap <= rlap' /\ reg.sq = Sq(reg.lap)
  BY <1>1, <1>2, <1>3 DEF StaleAt, reg
<1>9. StaleAt(l)'
  BY <1>4, <1>5, <1>6, <1>7, <1>8 DEF StaleAt, reg, Behind, Sq
<1> QED  BY <1>9

LEMMA PosIsNext ==
  Position' = rlap' * Size + read_idx'
           + (IF rpc'["scanner"] = "wrap" \/ rpc'["manager"] = "wrap" THEN Size ELSE 0)
BY TwoReaders DEF Position, Dequeued, Readers

LEMMA NumbersNext ==
  DrainTypeOK' => /\ Position' \in Nat /\ Enqueued' \in Nat /\ Started' \in Nat
                 /\ rlap' * Size <= Position' /\ Enqueued' <= Started'
<1>1. (/\ Position \in Nat /\ Enqueued \in Nat /\ Started \in Nat /\ rlap * Size \in Nat
       /\ rlap * Size <= Position /\ Enqueued <= Started /\ Started <= Enqueued + 1
       /\ wpc = "idle" => Started = Enqueued)' \/ ~ DrainTypeOK'
  BY Numbers, PTL
<1> QED  BY <1>1

(* The registers of the holder do not care about the writer, or about a    *)
(* scanner that holds nothing any more.                                    *)
LEMMA HolderKeeps ==
  ASSUME DrainTypeOK, DrainTypeOK', HolderInv, done' = done,
         rpc'[Holder] = rpc[Holder], regRight'[Holder] = regRight[Holder],
         UNCHANGED <<read_idx, read_sq, rlap>>, Position' = Position, Enqueued <= Enqueued'
  PROVE  HolderInv'
<1>1. Holder' = Holder /\ Holder \in Readers
  BY TwoReaders DEF Holder
<1>2. regRight[Holder] \in Registers /\ regRight[Holder].idx \in Nat /\ rlap * Size \in Nat
      /\ Position \in Nat /\ Enqueued \in Nat /\ Enqueued' \in Nat
  BY <1>1, Numbers, NumbersNext DEF DrainTypeOK, Registers, Slots
<1> DEFINE reg == regRight[Holder]
           pc  == rpc[Holder]
<1>3. regRight'[Holder'] = reg /\ rpc'[Holder'] = pc
  BY <1>1
<1>4. Seen(reg.right, rlap, reg.idx, Enqueued) => Seen(reg.right, rlap, reg.idx, Enqueued')
  BY <1>2 DEF Seen
<1>5. Position < Enqueued => Position' < Enqueued'
  BY <1>2
<1>6. reg' = regRight'[Holder'] /\ pc' = rpc'[Holder']
  OBVIOUS
<1>7. /\ pc \in {"sq", "left", "advance"} => reg.idx = read_idx
      /\ pc \in {"left", "advance", "wrap"} => reg.sq = read_sq /\ reg.lap = rlap
      /\ pc \in {"sq", "left"} => Seen(reg.right, rlap, reg.idx, Enqueued)
      /\ pc = "advance" => Position < Enqueued
      /\ pc = "wrap" => read_idx = 0
  BY DEF HolderInv
<1> HIDE DEF reg, pc
<1>8. /\ pc' \in {"sq", "left", "advance"} => reg'.idx = read_idx'
      /\ pc' \in {"left", "advance", "wrap"} => reg'.sq = read_sq' /\ reg'.lap = rlap'
      /\ pc' \in {"sq", "left"} => Seen(reg'.right, rlap', reg'.idx, Enqueued')
      /\ pc' = "advance" => Position' < Enqueued'
      /\ pc' = "wrap" => read_idx' = 0
  BY <1>3, <1>4, <1>5, <1>6, <1>7
<1> QED  BY <1>8 DEF HolderInv, reg, pc

LEMMA WriterNumbers ==
  ASSUME DrainTypeOK
  PROVE  /\ BeginEnqueue => Enqueued' = Enqueued /\ Started' = Started + 1
         /\ FinishEnqueue => Enqueued <= Enqueued' /\ Started' = Started
<1>0. /\ wlap \in Nat /\ write_idx \in Slots /\ Enqueued \in Nat
  BY Numbers DEF DrainTypeOK
<1>1. CASE BeginEnqueue
  <2>1. Enqueued' = Enqueued
    BY <1>1, BeginIs DEF Enqueued
  <2>2. Started = Enqueued /\ Started' = Enqueued' + 1
    BY <1>0, <1>1, BeginIs DEF Started
  <2>3. ~ FinishEnqueue
    BY <1>1, BeginIs, FinishIs
  <2> QED  BY <2>1, <2>2, <2>3
<1>2. CASE FinishEnqueue
  <2>0. ~ BeginEnqueue
    BY <1>2, BeginIs, FinishIs
  <2>1. CASE wpc \in {"packet", "last_idx"}
    <3>1. Enqueued' = Enqueued
      BY <1>2, <2>1, FinishIs DEF Enqueued
    <3>2. Started = Enqueued + 1 /\ Started' = Enqueued' + 1
      BY <1>2, <2>1, FinishIs DEF Started
    <3> QED  BY <1>0, <2>0, <3>1, <3>2
  <2>2. CASE wpc = "right"
    <3>1. /\ write_idx' = NextIdx(write_idx) /\ wpc' = "idle"
          /\ wlap' = IF write_idx' = 0 THEN wlap + 1 ELSE wlap
      BY <1>2, <2>2, FinishIs
    <3>2. Enqueued' = Enqueued + 1
      BY <1>0, <3>1, Advance DEF Enqueued
    <3>3. Started = Enqueued + 1 /\ Started' = Enqueued' + 0
      BY <2>2, <3>1 DEF Started
    <3> QED  BY <1>0, <2>0, <3>2, <3>3
  <2> QED  BY <1>2, <2>1, <2>2, FinishIs
<1> QED  BY <1>1, <1>2

LEMMA OrderByWriter ==
  ASSUME DrainTypeOK, DrainTypeOK', DrainPhase, OrderInv, ~ overrun',
         BeginEnqueue \/ FinishEnqueue
  PROVE  OrderInv'
<1>1. /\ UNCHANGED <<read_idx, read_sq, rlap, rpc, regRight>> /\ done' = done
  BY BeginIs, FinishIs
<1>2. /\ Position \in Nat /\ Enqueued \in Nat /\ Started \in Nat
      /\ Position' \in Nat /\ Enqueued' \in Nat /\ Started' \in Nat
      /\ rlap \in Nat /\ Size \in Nat /\ final \in {0, 1}
  BY Numbers, NumbersNext, ConstantsAssumption DEF DrainTypeOK
<1>3. Position' = Position
  BY <1>1, PosIs, PosIsNext
<1>4. Enqueued <= Enqueued'
  BY <1>2, WriterNumbers
<1>5. PlaceInv'
  <2>1. Started' <= Position + Size
    <3>1. CASE BeginEnqueue
      <4>1. ~ (Started' > Position + Size)
        BY <3>1, BeginIs, ZenonT(30)
      <4> QED  BY <1>2, <4>1
    <3>2. CASE FinishEnqueue
      BY <3>2, WriterNumbers DEF OrderInv, PlaceInv
    <3> QED  BY <3>1, <3>2
  <2>2. Position <= Enqueued /\ read_sq = Sq(rlap)
    BY DEF OrderInv, PlaceInv
  <2>3. Sq(rlap)' = Sq(rlap)
    BY <1>1 DEF Sq
  <2> QED  BY <1>1, <1>2, <1>3, <1>4, <2>1, <2>2, <2>3 DEF PlaceInv
<1>6. HolderInv'
  BY <1>1, <1>3, <1>4, HolderKeeps DEF OrderInv
<1>7. StaleInv'
  <2>1. CASE ~ done
    BY <1>1, <2>1 DEF StaleInv
  <2>2. CASE done
    <3>1. Started' + final' <= Started + final
      <4>1. CASE BeginEnqueue
        <5>1. final = 1 /\ final' = 0
          BY <1>2, <2>2, <4>1, BeginIs
        <5> QED  BY <1>2, <4>1, <5>1, WriterNumbers
      <4>2. CASE FinishEnqueue
        <5>1. final' = 0
          BY <2>2, <4>2, FinishIs
        <5> QED  BY <1>2, <4>2, <5>1, WriterNumbers
      <4> QED  BY <4>1, <4>2
    <3>2. Position <= Position' /\ rlap <= rlap'
      BY <1>1, <1>2, <1>3
    <3> QED  BY <1>1, <1>4, <2>2, <3>1, <3>2, StaleKeeps DEF OrderInv
  <2> QED  BY <2>1, <2>2
<1> QED  BY <1>5, <1>6, <1>7 DEF OrderInv

LEMMA HolderInvNext ==
  ASSUME NEW h, Holder' = h,
         rpc'[h] \in {"sq", "left", "advance"} => regRight'[h].idx = read_idx',
         rpc'[h] \in {"left", "advance", "wrap"} =>
           regRight'[h].sq = read_sq' /\ regRight'[h].lap = rlap',
         rpc'[h] \in {"sq", "left"} =>
           Seen(regRight'[h].right, rlap', regRight'[h].idx, Enqueued'),
         rpc'[h] = "advance" => Position' < Enqueued',
         rpc'[h] = "wrap" => read_idx' = 0
  PROVE  HolderInv'
BY DEF HolderInv

(* A step of the thread that holds read_idx.                               *)
LEMMA OrderByHolder ==
  ASSUME DrainTypeOK, DrainTypeOK', DrainRing, DrainPhase, OrderInv, Behaved, Behaved',
         NEW h \in Readers, h = Holder, Dequeue(h)
  PROVE  OrderInv'
<1>1. /\ Enqueued' = Enqueued /\ Started' = Started /\ done' = done /\ final' = final
      /\ Holder' = h /\ left' = left
  BY ReaderIs DEF ByReader, Enqueued, Started, Holder
<1>2. /\ Position \in Nat /\ Enqueued \in Nat /\ Started \in Nat /\ Position' \in Nat
      /\ rlap \in Nat /\ Size \in Nat /\ rlap * Size \in Nat
      /\ read_idx \in Slots /\ read_idx \in Nat /\ final \in Nat
  BY Numbers, NumbersNext, ConstantsAssumption DEF DrainTypeOK, Slots
<1>3. /\ Position <= Enqueued /\ Started <= Position + Size /\ read_sq = Sq(rlap)
      /\ rpc[h] \in {"sq", "left", "advance"} => regRight[h].idx = read_idx
      /\ rpc[h] \in {"left", "advance", "wrap"} =>
           regRight[h].sq = read_sq /\ regRight[h].lap = rlap
      /\ rpc[h] \in {"sq", "left"} => Seen(regRight[h].right, rlap, regRight[h].idx, Enqueued)
      /\ rpc[h] = "advance" => Position < Enqueued
      /\ rpc[h] = "wrap" => read_idx = 0
  BY DEF OrderInv, PlaceInv, HolderInv
<1>4. Others(h)
  <2>1. CASE LoadRight(h)
    BY <2>1, LoadRightAt
  <2>2. CASE LoadSq(h)
    BY <2>2, LoadSqAt
  <2>3. CASE LoadLeft(h)
    BY <2>3, LoadLeftAt
  <2>4. CASE AdvanceIdx(h)
    BY <2>4, AdvanceIdxAt
  <2>5. CASE AdvanceSq(h)
    BY <2>5, AdvanceSqAt
  <2> QED  BY <2>1, <2>2, <2>3, <2>4, <2>5, ReaderIs
<1>5. \A q \in Readers \ {h} : rpc[q] # "wrap" /\ rpc'[q] # "wrap"
  <2>1. CASE done
    BY <1>4, <2>1, TwoReaders DEF Behaved, Escaped, Holder, Others
  <2>2. CASE ~ done
    BY <1>4, <2>2, TwoReaders DEF DrainPhase, Holder, Others
  <2> QED  BY <2>1, <2>2
<1>6. /\ Position = rlap * Size + read_idx + (IF rpc[h] = "wrap" THEN Size ELSE 0)
      /\ Position' = rlap' * Size + read_idx' + (IF rpc'[h] = "wrap" THEN Size ELSE 0)
  BY <1>5, PosIs, PosIsNext, TwoReaders
<1>7. PlaceInv' /\ HolderInv' /\ Position <= Position' /\ rlap <= rlap'
  <2>1. CASE LoadRight(h)
    <3>1. /\ UNCHANGED <<read_idx, read_sq, rlap>> /\ rpc[h] = "idle" /\ rpc'[h] = "sq"
          /\ regRight'[h].idx = read_idx /\ regRight'[h].right = right[read_idx]
      BY <2>1, LoadRightAt, LoadRightIs
    <3>2. Position = rlap * Size + read_idx /\ Position' = Position
      BY <1>2, <1>6, <3>1
    <3>3. Seen(right[read_idx], rlap, read_idx, Enqueued)
      BY <1>2, <1>3, <3>2, SeesIt
    <3>4. HolderInv'
      BY <1>1, <3>1, <3>3, HolderInvNext
    <3>5. PlaceInv'
      BY <1>1, <1>3, <3>1, <3>2 DEF PlaceInv, Sq
    <3> QED  BY <1>2, <3>1, <3>2, <3>4, <3>5
  <2>2. CASE LoadSq(h)
    <3>1. /\ UNCHANGED <<read_idx, read_sq, rlap>> /\ rpc[h] = "sq" /\ rpc'[h] = "left"
          /\ regRight'[h].sq = read_sq /\ regRight'[h].lap = rlap
          /\ regRight'[h].idx = regRight[h].idx /\ regRight'[h].right = regRight[h].right
      BY <2>2, LoadSqAt, LoadSqIs
    <3>2. Position' = Position
      BY <1>2, <1>6, <3>1
    <3>4. HolderInv'
      BY <1>1, <1>3, <3>1, HolderInvNext
    <3>5. PlaceInv'
      BY <1>1, <1>3, <3>1, <3>2 DEF PlaceInv, Sq
    <3> QED  BY <1>2, <3>1, <3>2, <3>4, <3>5
  <2>3. CASE LoadLeft(h)
    <3> DEFINE reg == regRight[h]
    <3>1. /\ UNCHANGED <<read_idx, read_sq, rlap, regRight>> /\ rpc[h] = "left"
          /\ rpc'[h] \in {"advance", "idle", "end", "fatal"}
          /\ rpc'[h] = "advance" => Verdict(reg.right, left[reg.idx], reg.sq) = "SUCEESS"
      BY <2>3, LoadLeftAt, LoadLeftIs
    <3>2. Position = rlap * Size + read_idx /\ Position' = Position
      BY <1>2, <1>6, <3>1
    <3>3. rpc'[h] = "advance" => Position' < Enqueued'
      <4>1. reg.sq = Sq(rlap) /\ reg.idx = read_idx /\ Seen(reg.right, rlap, read_idx, Enqueued)
        BY <1>3, <3>1
      <4>2. ASSUME rpc'[h] = "advance" PROVE rlap * Size + read_idx < Enqueued
        <5>1. Verdict(reg.right, left[reg.idx], Sq(rlap)) = "SUCEESS"
          BY <3>1, <4>1, <4>2
        <5> QED  BY <1>2, <4>1, <5>1, FoundIt
      <4> QED  BY <1>1, <3>2, <4>2
    <3>4. HolderInv'
      BY <1>1, <1>3, <3>1, <3>3, HolderInvNext
    <3>5. PlaceInv'
      BY <1>1, <1>3, <3>1, <3>2 DEF PlaceInv, Sq
    <3> QED  BY <1>2, <3>1, <3>2, <3>4, <3>5
  <2>4. CASE AdvanceIdx(h)
    <3>1. /\ UNCHANGED <<read_sq, rlap, regRight>> /\ rpc[h] = "advance"
          /\ read_idx' = NextIdx(read_idx)
          /\ read_idx' = 0 => rpc'[h] = "wrap"
          /\ read_idx' # 0 => rpc'[h] \in {"end", "idle"}
      BY <1>3, <2>4, AdvanceIdxAt, AdvanceIdxIs
    <3>2. read_idx' = IF read_idx = Size - 1 THEN 0 ELSE read_idx + 1
      BY <1>2, <3>1, NextIdxStep
    <3>3. Position' = Position + 1
      BY <1>2, <1>6, <3>1, <3>2 DEF Slots
    <3>4. HolderInv'
      BY <1>1, <1>3, <3>1, HolderInvNext
    <3>5. PlaceInv'
      <4>1. Position' <= Enqueued' /\ Started' <= Position' + Size
        BY <1>1, <1>2, <1>3, <3>1, <3>3
      <4> QED  BY <1>3, <3>1, <4>1 DEF PlaceInv, Sq
    <3> QED  BY <1>2, <3>1, <3>3, <3>4, <3>5
  <2>5. CASE AdvanceSq(h)
    <3>1. /\ read_idx' = read_idx /\ read_sq' = NextSeq(read_sq) /\ rlap' = rlap + 1
          /\ read_idx = 0 /\ rpc[h] = "wrap" /\ rpc'[h] \in {"end", "idle"}
      BY <1>3, <2>5, AdvanceSqAt, AdvanceSqIs
    <3>2. (rlap + 1) * Size = rlap * Size + Size
      BY <1>2
    <3>3. Position' = Position
      BY <1>2, <1>6, <3>1, <3>2
    <3>4. HolderInv'
      BY <1>1, <1>3, <3>1, HolderInvNext
    <3>5. PlaceInv'
      <4>1. read_sq' = Sq(rlap')
        BY <1>2, <1>3, <3>1, SqNext
      <4> QED  BY <1>1, <1>3, <3>3, <4>1 DEF PlaceInv
    <3> QED  BY <1>2, <3>1, <3>3, <3>4, <3>5
  <2> QED  BY <2>1, <2>2, <2>3, <2>4, <2>5, ReaderIs
<1>8. StaleInv'
  <2>1. CASE ~ done
    BY <1>1, <2>1 DEF StaleInv
  <2>2. CASE done
    <3>1. "scanner" \in Readers \ {h}
      BY <2>2, TwoReaders DEF Holder
    <3>2. rpc'["scanner"] = rpc["scanner"] /\ regRight'["scanner"] = regRight["scanner"]
      BY <1>4, <3>1 DEF Others
    <3>3. Enqueued <= Enqueued' /\ Started' + final' <= Started + final
      BY <1>1, <1>2
    <3> QED  BY <1>7, <2>2, <3>2, <3>3, StaleKeeps DEF OrderInv
  <2> QED  BY <2>1, <2>2
<1> QED  BY <1>7, <1>8 DEF OrderInv

(* A step of the scanner when the manager holds read_idx.                  *)
LEMMA OrderByStale ==
  ASSUME DrainTypeOK, DrainTypeOK', DrainRing, OrderInv, Behaved, Behaved', done,
         Dequeue("scanner")
  PROVE  OrderInv'
<1>0. "scanner" \in Readers /\ "manager" \in Readers /\ Holder = "manager"
  BY TwoReaders DEF Holder
<1>1. /\ Enqueued' = Enqueued /\ Started' = Started /\ done' = done /\ final' = final
  BY <1>0, ReaderIs DEF ByReader, Enqueued, Started
<1>2. /\ Position \in Nat /\ Enqueued \in Nat /\ Started \in Nat /\ final \in {0, 1}
      /\ rlap \in Nat /\ Size \in Nat /\ rlap * Size \in Nat /\ read_idx \in Slots /\ 0 \in Slots
  BY Numbers, ConstantsAssumption DEF DrainTypeOK, Slots
<1>3. /\ Position <= Enqueued /\ Started <= Position + Size /\ read_sq = Sq(rlap)
      /\ rpc["manager"] = "wrap" => read_idx = 0
  BY <1>0 DEF OrderInv, PlaceInv, HolderInv
<1>4. rpc["scanner"] \notin {"advance", "wrap", "end"} /\ rpc'["scanner"] \notin {"advance", "wrap", "end"}
  BY <1>1 DEF Behaved, Escaped
<1>5. \/ LoadRight("scanner") \/ LoadSq("scanner") \/ LoadLeft("scanner")
  BY <1>0, <1>4, ReaderIs, AdvanceIdxAt, AdvanceSqAt
<1>6. UNCHANGED <<read_idx, read_sq, rlap>> /\ Others("scanner")
  BY <1>0, <1>5, LoadRightIs, LoadRightAt, LoadSqIs, LoadSqAt, LoadLeftIs, LoadLeftAt
<1>7. rpc'["manager"] = rpc["manager"] /\ regRight'["manager"] = regRight["manager"]
  BY <1>0, <1>6 DEF Others
<1>8. Position' = Position /\ Position = rlap * Size + read_idx + (IF rpc["manager"] = "wrap" THEN Size ELSE 0)
  BY <1>4, <1>6, <1>7, PosIs, PosIsNext
<1>9. PlaceInv'
  BY <1>1, <1>3, <1>6, <1>8 DEF PlaceInv, Sq
<1>10. HolderInv'
  <2>1. HolderInv /\ Enqueued <= Enqueued'
    BY <1>1, <1>2 DEF OrderInv
  <2> QED  BY <1>0, <1>1, <1>6, <1>7, <1>8, <2>1, HolderKeeps
<1>11. StaleInv'
  <2>1. CASE LoadRight("scanner")
    <3>1. /\ rpc'["scanner"] = "sq" /\ regRight'["scanner"].idx = read_idx
          /\ regRight'["scanner"].right = right[read_idx]
      BY <1>0, <2>1, LoadRightAt
    <3>2. PICK l \in Nat : l * Size + read_idx = Position /\ Behind(l, rlap, read_idx)
      <4>1. CASE rpc["manager"] = "wrap"
        <5>1. (rlap + 1) * Size = rlap * Size + Size /\ rlap + 1 \in Nat
          BY <1>2
        <5>2. (rlap + 1) * Size + read_idx = Position /\ Behind(rlap + 1, rlap, read_idx)
          BY <1>2, <1>3, <1>8, <4>1, <5>1 DEF Behind
        <5> QED  BY <5>1, <5>2
      <4>2. CASE rpc["manager"] # "wrap"
        <5>1. rlap * Size + read_idx = Position
          BY <1>2, <1>8, <4>2 DEF Slots
        <5> QED  BY <1>2, <5>1 DEF Behind
      <4> QED  BY <4>1, <4>2
    <3>3. Seen(right[read_idx], l, read_idx, Enqueued)
      BY <1>2, <1>3, <3>2, SeesIt
    <3>4. Started + final <= l * Size + read_idx + Size + 1
      BY <1>2, <1>3, <3>2
    <3>5. StaleAt(l)'
      BY <1>1, <1>2, <1>6, <1>8, <3>1, <3>2, <3>3, <3>4 DEF StaleAt
    <3> QED  BY <3>5 DEF StaleInv
  <2>2. CASE LoadSq("scanner")
    <3> DEFINE reg == regRight["scanner"]
    <3>1. /\ rpc["scanner"] = "sq" /\ rpc'["scanner"] = "left"
          /\ regRight'["scanner"].sq = read_sq /\ regRight'["scanner"].lap = rlap
          /\ regRight'["scanner"].idx = reg.idx /\ regRight'["scanner"].right = reg.right
      BY <1>0, <2>2, LoadSqAt
    <3>2. PICK l \in Nat : StaleAt(l)
      BY <3>1 DEF OrderInv, StaleInv
    <3>3. /\ l * Size + reg.idx <= Position
          /\ Started + final <= l * Size + reg.idx + Size + 1
          /\ Seen(reg.right, l, reg.idx, Enqueued) /\ Behind(l, rlap, reg.idx)
      BY <3>1, <3>2 DEF StaleAt
    <3> HIDE DEF reg
    <3>4. StaleAt(l)'
      BY <1>1, <1>2, <1>3, <1>6, <1>8, <3>1, <3>3 DEF StaleAt
    <3> QED  BY <3>4 DEF StaleInv
  <2>3. CASE LoadLeft("scanner")
    BY <1>0, <1>4, <2>3, LoadLeftAt DEF StaleInv
  <2> QED  BY <1>5, <2>1, <2>2, <2>3
<1> QED  BY <1>9, <1>10, <1>11 DEF OrderInv

LEMMA OrderStep ==
  ASSUME DrainTypeOK, DrainTypeOK', DrainRing, DrainPhase, Behaved => OrderInv,
         [DrainNext]_drainVars, Behaved'
  PROVE  OrderInv'
<1>1. Behaved /\ OrderInv
  BY BehavedBefore
<1>2. CASE BeginEnqueue \/ FinishEnqueue
  BY <1>1, <1>2, OrderByWriter DEF Behaved
<1>3. CASE Stop
  <2>1. /\ ~ done /\ done' = TRUE
        /\ UNCHANGED <<left, right, write_idx, write_sq, wpc, wlap>>
        /\ UNCHANGED <<read_idx, read_sq, rlap, rpc, regRight, final>>
    BY <1>3, StopIs
  <2>2. /\ Holder = "scanner" /\ Holder' = "manager" /\ rpc["manager"] = "off" /\ final = 1
        /\ "scanner" \in Readers
    BY <2>1, TwoReaders DEF Holder, DrainPhase
  <2>3. Position' = Position /\ Enqueued' = Enqueued /\ Started' = Started
    BY <2>1, PosIs, PosIsNext DEF Enqueued, Started
  <2>4. PlaceInv'
    BY <1>1, <2>1, <2>3 DEF OrderInv, PlaceInv, Sq
  <2>5. HolderInv'
    BY <2>1, <2>2, HolderInvNext
  <2>6. StaleInv'
    <3> DEFINE reg == regRight["scanner"]
    <3> SUFFICES ASSUME rpc["scanner"] \in {"sq", "left"} PROVE StaleAt(rlap)' /\ rlap \in Nat
      BY <2>1 DEF StaleInv
    <3>1. /\ reg.idx = read_idx /\ Seen(reg.right, rlap, reg.idx, Enqueued)
          /\ rpc["scanner"] = "left" => reg.sq = read_sq /\ reg.lap = rlap
          /\ read_sq = Sq(rlap) /\ Started <= Position + Size
      BY <1>1, <2>2 DEF OrderInv, HolderInv, PlaceInv
    <3>2. rlap \in Nat /\ rlap * Size \in Nat /\ read_idx \in Nat /\ Size \in Nat
          /\ Started \in Nat
      BY Numbers, ConstantsAssumption DEF DrainTypeOK, Slots
    <3>3. Position = rlap * Size + read_idx
      BY <2>2, <3>2, PosIs
    <3>4. /\ rlap * Size + reg.idx <= Position
          /\ Started + final <= rlap * Size + reg.idx + Size + 1
      BY <2>2, <3>1, <3>2, <3>3
    <3>5. rpc["scanner"] = "left" =>
            Behind(rlap, reg.lap, reg.idx) /\ reg.lap <= rlap /\ reg.sq = Sq(reg.lap)
      BY <3>1, <3>2 DEF Behind
    <3>6. Behind(rlap, rlap, reg.idx)
      BY <3>2 DEF Behind
    <3>7. reg' = reg /\ Sq(reg.lap)' = Sq(reg.lap)
      BY <2>1 DEF Sq
    <3> HIDE DEF reg
    <3>8. StaleAt(rlap)'
      BY <2>1, <2>3, <3>1, <3>4, <3>5, <3>6, <3>7 DEF StaleAt, reg
    <3> QED  BY <3>2, <3>8
  <2> QED  BY <2>4, <2>5, <2>6 DEF OrderInv
<1>4. CASE StartDrain
  <2>1. /\ done /\ done' = done /\ rpc["manager"] = "off"
        /\ rpc'["manager"] = "idle" /\ rpc'["scanner"] = rpc["scanner"]
        /\ UNCHANGED <<left, right, write_idx, write_sq, wpc, wlap>>
        /\ UNCHANGED <<read_idx, read_sq, rlap, regRight, final>>
    BY <1>4, StartDrainIs, StartDrainAt
  <2>2. Position' = Position /\ Enqueued' = Enqueued /\ Started' = Started
    BY <2>1, PosIs, PosIsNext DEF Enqueued, Started
  <2>3. PlaceInv'
    BY <1>1, <2>1, <2>2 DEF OrderInv, PlaceInv, Sq
  <2>4. Holder' = "manager"
    BY <2>1 DEF Holder
  <2>5. HolderInv'
    BY <2>1, <2>4, HolderInvNext
  <2>6. StaleInv'
    <3>1. /\ Position <= Position' /\ Enqueued <= Enqueued' /\ rlap <= rlap'
          /\ Started' + final' <= Started + final
      BY <2>1, <2>2, Numbers DEF DrainTypeOK
    <3> QED  BY <1>1, <2>1, <3>1, StaleKeeps DEF OrderInv
  <2> QED  BY <2>3, <2>5, <2>6 DEF OrderInv
<1>5. ASSUME NEW r \in Readers, Dequeue(r) PROVE OrderInv'
  <2>1. CASE r = Holder
    BY <1>1, <1>5, <2>1, OrderByHolder
  <2>2. CASE r # Holder
    <3>1. rpc[r] # "off"
      BY <1>5, ReaderIs, LoadRightAt, LoadSqAt, LoadLeftAt, AdvanceIdxAt, AdvanceSqAt
    <3>2. done /\ r = "scanner"
      BY <2>2, <3>1, TwoReaders DEF Holder, DrainPhase
    <3> QED  BY <1>1, <1>5, <3>2, OrderByStale
  <2> QED  BY <2>1, <2>2
<1>6. CASE UNCHANGED drainVars
  <2>1. /\ UNCHANGED <<left, right, write_idx, write_sq, wpc, wlap>>
        /\ UNCHANGED <<read_idx, read_sq, rlap, rpc, regRight, final, done>>
    BY <1>6 DEF drainVars, vars
  <2>2. Position' = Position /\ Enqueued' = Enqueued /\ Started' = Started /\ Holder' = Holder
    BY <2>1, PosIs, PosIsNext DEF Enqueued, Started, Holder
  <2>3. PlaceInv' /\ HolderInv' /\ StaleInv'
    BY <1>1, <2>1, <2>2
       DEF OrderInv, PlaceInv, HolderInv, StaleInv, StaleAt, Seen, Behind, Sq
  <2> QED  BY <2>3 DEF OrderInv
<1> QED  BY <1>2, <1>3, <1>4, <1>5, <1>6 DEF DrainNext, Readers

(* The step on which the scanner is told OVERFLOW.                         *)
LEMMA FatalStep ==
  ASSUME DrainTypeOK, DrainRing, DrainPhase, Behaved => OrderInv, FatalOnlyAtWrap,
         [DrainNext]_drainVars
  PROVE  FatalOnlyAtWrap'
<1>0. (Fatal <=> rpc["scanner"] = "fatal") /\ (Fatal <=> rpc["scanner"] = "fatal")
  BY DEF Fatal
<1> SUFFICES ASSUME rpc'["scanner"] = "fatal", ~ overrun'
             PROVE  /\ regRight'["scanner"].idx = 0
                    /\ regRight'["scanner"].right = NextSeq(regRight'["scanner"].sq)
  BY NextNumbers DEF FatalOnlyAtWrap, Fatal, NextSeq
<1>1. CASE rpc["scanner"] = "fatal" /\ ~ overrun /\ regRight'["scanner"] = regRight["scanner"]
  BY <1>0, <1>1 DEF FatalOnlyAtWrap, NextSeq
<1>2. CASE BeginEnqueue \/ FinishEnqueue \/ Stop \/ StartDrain
             \/ UNCHANGED drainVars
  <2>1. ~ overrun
    BY <1>2, BeginIs, FinishIs, StopIs, StartDrainIs DEF drainVars, vars, DrainTypeOK
  <2>2. rpc'["scanner"] = rpc["scanner"] /\ regRight' = regRight
    BY <1>2, BeginIs, FinishIs, StopIs, StartDrainIs, StartDrainAt DEF drainVars, vars
  <2> QED  BY <1>1, <2>1, <2>2
<1>3. ASSUME NEW r \in Readers, Dequeue(r)
      PROVE  /\ regRight'["scanner"].idx = 0
             /\ regRight'["scanner"].right = NextSeq(regRight'["scanner"].sq)
  <2>1. rpc["scanner"] # "fatal" /\ ~ overrun
    BY <1>0, <1>3, ReaderIs DEF ByReader
  <2>2. r = "scanner" /\ LoadLeft(r)
    <3>1. "scanner" \in Readers
      BY TwoReaders
    <3>2. Others(r) => r = "scanner"
      BY <2>1, <3>1 DEF Others
    <3>3. rpc'[r] # "fatal" => ~ Others(r)
      BY <2>1, <3>2
    <3>4. ~ LoadRight(r) /\ ~ LoadSq(r)
      BY <3>3, LoadRightAt, LoadSqAt
    <3>5. ~ AdvanceIdx(r) /\ ~ AdvanceSq(r)
      <4>1. AdvanceIdx(r) => rpc'[r] \in {"wrap", "end", "idle"}
        BY AdvanceIdxAt
      <4> QED  BY <3>3, <4>1, AdvanceIdxAt, AdvanceSqAt
    <3>6. LoadLeft(r)
      BY <1>3, <3>4, <3>5, ReaderIs
    <3> QED  BY <3>2, <3>6, LoadLeftAt
  <2> DEFINE reg == regRight["scanner"]
  <2>3. /\ rpc["scanner"] = "left" /\ regRight' = regRight
        /\ Verdict(reg.right, left[reg.idx], reg.sq) = "OVERFLOW"
        /\ "scanner" \in Readers
    BY <2>2, LoadLeftAt, LoadLeftIs
  <2>4. OrderInv
    BY <1>0, <2>1, <2>3 DEF Behaved, Escaped
  <2>5. /\ reg \in Registers /\ reg.idx \in Slots /\ reg.lap \in Nat
        /\ rlap \in Nat /\ read_idx \in Slots /\ Size \in Nat
        /\ Position \in Nat /\ Enqueued \in Nat /\ Started \in Nat /\ final \in {0, 1}
        /\ rlap * Size \in Nat /\ rlap * Size <= Position
    BY <2>3, Numbers, ConstantsAssumption DEF DrainTypeOK, Registers
  <2>6. Position <= Enqueued /\ Started <= Position + Size /\ read_sq = Sq(rlap)
    BY <2>4 DEF OrderInv, PlaceInv
  <2>7. PICK l \in Nat :
          /\ Seen(reg.right, l, reg.idx, Enqueued) /\ Behind(l, reg.lap, reg.idx)
          /\ l * Size + reg.idx <= Enqueued /\ Started <= l * Size + reg.idx + Size + 1
          /\ reg.lap * Size <= Enqueued /\ reg.sq = Sq(reg.lap)
    <3>1. CASE ~ done
      <4>1. /\ reg.idx = read_idx /\ reg.sq = read_sq /\ reg.lap = rlap
            /\ Seen(reg.right, rlap, reg.idx, Enqueued)
        BY <2>3, <2>4, <3>1 DEF OrderInv, HolderInv, Holder
      <4>2. Position = rlap * Size + read_idx
        <5>1. rpc["manager"] # "wrap"
          BY <3>1 DEF DrainPhase
        <5> QED  BY <2>3, <2>5, <5>1, PosIs DEF Slots
      <4>3. Behind(rlap, rlap, read_idx)
        BY <2>5 DEF Behind
      <4>4. Started <= rlap * Size + read_idx + Size + 1
        BY <2>5, <2>6, <4>2
      <4>5. rlap * Size + read_idx <= Enqueued /\ rlap * Size <= Enqueued
        BY <2>5, <2>6, <4>2
      <4> QED  BY <2>5, <2>6, <4>1, <4>3, <4>4, <4>5
    <3>2. CASE done
      <4>1. PICK l \in Nat : StaleAt(l)
        BY <2>3, <2>4, <3>2 DEF OrderInv, StaleInv
      <4>2. /\ l * Size + reg.idx <= Position /\ Started + final <= l * Size + reg.idx + Size + 1
            /\ Seen(reg.right, l, reg.idx, Enqueued) /\ Behind(l, reg.lap, reg.idx)
            /\ reg.lap <= rlap /\ reg.sq = Sq(reg.lap)
        BY <2>3, <4>1 DEF StaleAt
      <4>3. l * Size + reg.idx \in Nat /\ reg.lap * Size \in Nat
        BY <2>5 DEF Slots
      <4>4. reg.lap * Size <= Enqueued
        <5>1. 0 \in Slots
          BY ConstantsAssumption DEF Slots
        <5>2. reg.lap * Size + 0 <= rlap * Size + 0
          BY <2>5, <4>2, <5>1, PositionOrder
        <5> QED  BY <2>5, <2>6, <4>3, <5>2
      <4>5. l * Size + reg.idx <= Enqueued
        BY <2>5, <2>6, <4>2, <4>3
      <4>6. Started <= l * Size + reg.idx + Size + 1
        <5> DEFINE p == l * Size + reg.idx
        <5>1. p \in Nat /\ Started + final <= p + Size + 1
          BY <4>2, <4>3
        <5> HIDE DEF p
        <5>2. Started <= p + Size + 1
          BY <2>5, <5>1
        <5> QED  BY <5>2 DEF p
      <4> QED  BY <4>2, <4>4, <4>5, <4>6
    <3> QED  BY <3>1, <3>2
  <2>8. l = reg.lap + 1 /\ reg.idx = 0 /\ reg.right = Sq(l)
    BY <2>3, <2>5, <2>7, Misled
  <2>9. reg.right = NextSeq(reg.sq)
    BY <2>5, <2>7, <2>8, SqNext
  <2> QED  BY <2>3, <2>8, <2>9
<1> QED  BY <1>2, <1>3 DEF DrainNext, Readers

-----------------------------------------------------------------------------
LEMMA DrainInvInit == DrainInit => DrainInv
<1> SUFFICES ASSUME DrainInit PROVE DrainInv
  OBVIOUS
<1>1. DrainTypeOK
  BY DrainTypeInit
<1>2. Sq(0) = 1 /\ Sq(-1) = 0 /\ 0 \in Slots
  BY ConstantsAssumption DEF Sq, Slots
<1>3. /\ left = [i \in Slots |-> 0] /\ right = [i \in Slots |-> 0]
      /\ read_idx = 0 /\ write_idx = 0 /\ read_sq = 1 /\ write_sq = 1
      /\ wpc = "idle" /\ wlap = 0 /\ rlap = 0
      /\ done = FALSE /\ final = 1
      /\ rpc["scanner"] = "idle" /\ rpc["manager"] = "off"
  BY TwoReaders DEF DrainInit, Slots, Readers
<1>4. DrainRing
  BY <1>2, <1>3 DEF DrainRing, LeftLap, RightLap, FieldLap, Slots
<1>5. Position = 0 /\ Enqueued = 0 /\ Started = 0
  BY <1>3, PosIs, ConstantsAssumption DEF Enqueued, Started
<1>6. OrderInv
  BY <1>2, <1>3, <1>5, ConstantsAssumption
     DEF OrderInv, PlaceInv, HolderInv, StaleInv, Holder
<1>7. DrainPhase /\ FatalOnlyAtWrap
  BY <1>3 DEF DrainPhase, FatalOnlyAtWrap, Fatal
<1> QED  BY <1>1, <1>4, <1>6, <1>7 DEF DrainInv

LEMMA DrainInvStep == DrainInv /\ [DrainNext]_drainVars => DrainInv'
<1> SUFFICES ASSUME DrainInv, [DrainNext]_drainVars PROVE DrainInv'
  OBVIOUS
<1>1. DrainTypeOK /\ DrainRing /\ DrainPhase /\ (Behaved => OrderInv)
      /\ FatalOnlyAtWrap
  BY DEF DrainInv
<1>2. DrainTypeOK'
  BY <1>1, DrainTypeStep
<1>3. DrainRing' /\ DrainPhase'
  BY <1>1, DrainRingStep, DrainPhaseStep
<1>4. Behaved' => OrderInv'
  BY <1>1, <1>2, OrderStep
<1>5. FatalOnlyAtWrap'
  BY <1>1, FatalStep
<1> QED  BY <1>2, <1>3, <1>4, <1>5 DEF DrainInv

(* A scanner that stops with "Something got wrong in cyclic queue" while   *)
(* its queue was never lapped did so between the manager's two stores at   *)
(* the end of the ring, whatever the size of the ring, the sequence        *)
(* numbers and the lag: LagAssumption is not used.                         *)
THEOREM FatalsAreAtTheWrap == DrainSpec => []FatalOnlyAtWrap
<1>1. DrainInv => FatalOnlyAtWrap
  BY DEF DrainInv
<1> QED  BY <1>1, DrainInvInit, DrainInvStep, PTL DEF DrainSpec
-----------------------------------------------------------------------------
(***************************************************************************)
(* The rate of heavy packets (HeavyRate), for any number of scanners, any  *)
(* interval between updates and traces of any length: no count is lost or  *)
(* taken twice, and the heavy packets the manager has fetched never exceed *)
(* the packets it has.                                                     *)
(***************************************************************************)
(* A scanner's heavy packets that are in, or past, the manager's counter   *)
(* have been preceded there by at least as many packets.                   *)
AddedHeavy(s)   == IF spc[s] = "add_heavy" THEN num_heavy[s] ELSE 0
HeavyCovered(s) == readHeavy[s] + heavy_count[s] + AddedHeavy(s) <= readTotal[s] + total_count[s]

(* What makes NeverHighInTotal inductive. *)
Ahead ==
  \A s \in Scanners : num_heavy[s] <= num_total[s] /\ HeavyCovered(s)

RateInv == RateTypeOK /\ NoCountLost /\ Ahead /\ NeverHighInTotal

(* The manager's loop stays within the scanners. *)
LEMMA NextScanner ==
  /\ 0 \in Scanners
  /\ \A j \in Scanners : ~ (j + 1 >= NumScanners) => j + 1 \in Scanners
BY RateAssumption DEF Scanners

(* Every scanner's counts and the manager's start at nothing. *)
LEMMA InitRateInv == RateInit => RateInv
<1> SUFFICES ASSUME RateInit PROVE RateInv
  OBVIOUS
<1>2. RateTypeOK
  BY NextScanner DEF RateInit, RateTypeOK, None
<1>3. NoCountLost
  BY DEF RateInit, NoCountLost, NotYetAdded, None
<1>4. Ahead
  BY DEF RateInit, Ahead, HeavyCovered, AddedHeavy, None
<1>5. NeverHighInTotal
  BY DEF RateInit, NeverHighInTotal, None
<1> QED  BY <1>2, <1>3, <1>4, <1>5 DEF RateInv

(* The scanners' steps. *)
LEMMA ScannerKeepsRateInv ==
  ASSUME RateInv, NEW s \in Scanners, ScannerStep(s)
  PROVE  RateInv'
<1> USE DEF RateInv, RateTypeOK
<1>1. CASE Scan(s)
  <2> PICK heavy \in {0, 1} : /\ num_heavy' = Add(num_heavy, s, heavy)
                              /\ scannedHeavy' = Add(scannedHeavy, s, heavy)
    BY <1>1 DEF Scan
  <2>1. RateTypeOK'
    BY <1>1 DEF Scan, Add, counters, sums, fetched
  <2>2. NoCountLost'
    BY <1>1 DEF Scan, Add, NoCountLost, NotYetAdded, counters, sums, fetched
  <2>3. Ahead'
    BY <1>1 DEF Scan, Add, Ahead, HeavyCovered, AddedHeavy, counters, sums, fetched
  <2>4. NeverHighInTotal'
    BY <1>1 DEF Scan, NeverHighInTotal, counters, sums, fetched
  <2> QED  BY <2>1, <2>2, <2>3, <2>4
<1>2. CASE AddTotal(s)
  <2>1. RateTypeOK'
    BY <1>2 DEF AddTotal, Add, locals, sums, seen, fetched
  <2>2. NoCountLost'
    BY <1>2 DEF AddTotal, Add, NoCountLost, NotYetAdded, locals, sums, seen, fetched
  <2>3. Ahead'
    BY <1>2 DEF AddTotal, Add, Ahead, HeavyCovered, AddedHeavy, locals, sums, seen, fetched
  <2>4. NeverHighInTotal'
    BY <1>2 DEF AddTotal, NeverHighInTotal, locals, sums, seen, fetched
  <2> QED  BY <2>1, <2>2, <2>3, <2>4
<1>3. CASE AddHeavy(s)
  <2>1. RateTypeOK'
    BY <1>3 DEF AddHeavy, Add, sums, seen, fetched
  <2>2. NoCountLost'
    BY <1>3 DEF AddHeavy, Add, NoCountLost, NotYetAdded, sums, seen, fetched
  <2>3. Ahead'
    BY <1>3 DEF AddHeavy, Add, Ahead, HeavyCovered, AddedHeavy, sums, seen, fetched
  <2>4. NeverHighInTotal'
    BY <1>3 DEF AddHeavy, NeverHighInTotal, sums, seen, fetched
  <2> QED  BY <2>1, <2>2, <2>3, <2>4
<1> QED  BY <1>1, <1>2, <1>3 DEF ScannerStep

(* The manager's steps: it fetches the heavy packets of a scanner first,   *)
(* and by the time it fetches the packets these are covered.               *)
LEMMA ManagerKeepsRateInv ==
  ASSUME RateInv, ManagerStep
  PROVE  RateInv'
<1> USE DEF RateInv, RateTypeOK
<1>1. CASE StartReading
  BY <1>1, NextScanner DEF StartReading, NoCountLost, NotYetAdded, Ahead, HeavyCovered, AddedHeavy,
                           NeverHighInTotal, locals, counters, seen, fetched
<1>2. CASE ReadHeavy
  <2>1. RateTypeOK'
    BY <1>2 DEF ReadHeavy, Fetched, Add, locals, seen
  <2>2. NoCountLost'
    BY <1>2 DEF ReadHeavy, Fetched, Add, NoCountLost, NotYetAdded, locals, seen
  <2>3. Ahead'
    BY <1>2 DEF ReadHeavy, Fetched, Add, Ahead, HeavyCovered, AddedHeavy, locals, seen
  <2>4. NeverHighInTotal'
    BY <1>2 DEF ReadHeavy, Fetched, Add, NeverHighInTotal, locals, seen
  <2> QED  BY <2>1, <2>2, <2>3, <2>4
<1>3. CASE ReadTotal
  <2>1. RateTypeOK'
    BY <1>3, NextScanner DEF ReadTotal, Fetched, Last, Add, locals, seen
  <2>2. NoCountLost'
    BY <1>3 DEF ReadTotal, Fetched, Last, Add, NoCountLost, NotYetAdded, locals, seen
  <2>3. Ahead'
    BY <1>3 DEF ReadTotal, Fetched, Last, Add, Ahead, HeavyCovered, AddedHeavy, locals, seen
  <2>4. readHeavy[mi] <= readTotal[mi] + total_count[mi]
    BY DEF Ahead, HeavyCovered, AddedHeavy
  <2>5. NeverHighInTotal'
    BY <1>3, <2>4 DEF ReadTotal, Fetched, Last, Add, NeverHighInTotal, locals, seen
  <2> QED  BY <2>1, <2>2, <2>3, <2>5
<1>4. CASE Decide
  BY <1>4 DEF Decide, NoCountLost, NotYetAdded, Ahead, HeavyCovered, AddedHeavy,
              NeverHighInTotal, locals, counters, sums, seen, fetched
<1> QED  BY <1>1, <1>2, <1>3, <1>4 DEF ManagerStep

(* A stuttering step. *)
LEMMA StutterKeepsRateInv == RateInv /\ UNCHANGED rateVars => RateInv'
BY DEF RateInv, RateTypeOK, NoCountLost, NotYetAdded, Ahead, HeavyCovered, AddedHeavy, NeverHighInTotal,
       rateVars, locals, counters, sums, seen, fetched

(* The counters of the rate always add up, and stay covered. *)
THEOREM RateInvariant == RateSpec => []RateInv
<1>1. RateInv /\ [RateNext]_rateVars => RateInv'
  BY ScannerKeepsRateInv, ManagerKeepsRateInv, StutterKeepsRateInv DEF RateNext
<1> QED  BY InitRateInv, <1>1, PTL DEF RateSpec

(* No count is lost and none is taken twice (get_heavy_packet_rate and     *)
(* multicore_manager_update, in any interleaving).                         *)
THEOREM CountsAddUp == RateSpec => []NoCountLost
<1>1. RateInv => NoCountLost
  BY DEF RateInv
<1> QED  BY RateInvariant, <1>1, PTL

(* Over all readings the manager never sees more heavy packets than        *)
(* packets: what adding the total first is good for.                       *)
THEOREM NeverHigh == RateSpec => []NeverHighInTotal
<1>1. RateInv => NeverHighInTotal
  BY DEF RateInv
<1> QED  BY RateInvariant, <1>1, PTL
=============================================================================
