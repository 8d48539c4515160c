------------------------------ MODULE Mca2Proofs ------------------------------
(***************************************************************************)
(* Proofs about a run of the system, for every number of scanners, size    *)
(* and number of work groups, and trace: who deals with whom and what is   *)
(* used when (first part), and where the packets are (second part), the    *)
(* latter until two dequeues of a list overlap in the switch of its lock.  *)
(*                                                                         *)
(* Nothing is locked in the switch to alert mode: that it is safe rests on *)
(* its order, which the invariant follows from the matrix over the thread  *)
(* counts to the flags of each scanner, and from there to what the scanner *)
(* has in hand.                                                            *)
(***************************************************************************)
EXTENDS Mca2, FiniteSetTheorems, SequenceTheorems, TLAPS

AllDone == \A s \in Scanners : done[s]
AllGone == \A s \in Scanners : pc[s] = "gone"

(* Main: a scanner runs only after it was started, and main stops the      *)
(* manager only after it has joined them all.                              *)
MainInv ==
  /\ main \in {"start_reader", "join_reader"} =>
       mpc = "off" /\ ~ alert_mode_used /\ ~ stopped /\ nth = 0
  /\ main \in {"start_reader", "join_reader", "start"} =>
       \A s \in Scanners : s >= nth => pc[s] = "off"
  /\ main = "join" => \A s \in Scanners : s < nth => pc[s] = "gone"
  /\ main \in {"stop", "join_manager", "end"} => AllGone

(* Packets: what a scanner is about to use is there. *)
PacketInv ==
  \A s \in Scanners :
    /\ pc[s] \in {"match", "table", "transfer", "enqueue"} => packet[s] # NoPacket
    /\ pc[s] = "reinsert" => next_packet[s] # NoPacket

DoneInv == scanners_done = Cardinality({s \in Scanners : pc[s] = "gone"})

(* Before alert mode nothing of it is there. *)
CalmInv ==
  ~ alert_mode_used =>
    /\ mpc \in {"off", "watch", "count", "prepare", "gone"}
    /\ Ded = 0 /\ Reg = NumScanners /\ ~ targetsFreed
    /\ \A s \in Scanners : next_target[s] = Undefined /\ ~ alert_mode_active[s] /\ isTableMachine[s]
    /\ \A wd \in Pairs : queueState[wd] = "null"

(* The switch: first the matrix is filled for Assigned dedicated threads,  *)
(* then the counts of threads are published ...                            *)
Filled    == mpc \in {"publish", "publish_dedicated"}
Published == alert_mode_used /\ ~ Filled
Assigned  == IF Filled THEN mi * WorkGroupSize ELSE Ded

MatrixInv ==
  alert_mode_used =>
    /\ mpc \notin {"off", "prepare"}
    /\ mpc \in {"watch", "count", "gone"} => stopped
    /\ Assigned \in 1 .. NumScanners
    /\ \A s \in Scanners : next_target[s] # Undefined =>
         s >= Assigned /\ next_target[s] \in 0 .. Assigned - 1
    /\ \A w, d \in Scanners : w >= Assigned /\ d < Assigned => queueState[<<w, d>>] # "null"
    /\ Filled => /\ Ded = 0
                 /\ Reg = IF mpc = "publish" THEN NumScanners ELSE NumScanners - Assigned
                 /\ \A s \in Scanners : ~ alert_mode_active[s] /\ isTableMachine[s]
    /\ Published => Reg = NumScanners - Ded

GroupInv == mpc = "prepare" => mi \in 1 .. MaxWorkGroups

(* ... then each scanner gets its lock, its machine and its mode.          *)
LockRight(d) == useLock[d] = IF Locked(d) THEN 1 ELSE 0
Switched(d)  == (isTableMachine[d] <=> d >= Ded) /\ LockRight(d)

SwitchInv ==
  /\ \A s \in Scanners : ~ isTableMachine[s] => s < Ded
  /\ \A s \in Scanners : alert_mode_active[s] => \A d \in 0 .. s : Switched(d)
  /\ mpc = "switch_type" =>
       /\ mi \in Scanners /\ mj \in {0, 1}
       /\ mj = 1 => LockRight(mi)
       /\ \A d \in Scanners : d < mi => Switched(d)
       /\ \A s \in Scanners : alert_mode_active[s] => s < mi
  /\ mpc = "switch_mode" =>
       /\ mi \in Scanners
       /\ \A d \in Scanners : d <= mi => Switched(d)
       /\ \A s \in Scanners : alert_mode_active[s] => s < mi

(* What a scanner does is for it to do. *)
RoleInv ==
  \A s \in Scanners :
    /\ pc[s] = "transfer" => alert_mode_active[s]
    /\ pc[s] \in {"enqueue", "steal", "reinsert"} =>
         alert_mode_active[s] /\ s >= Ded /\ dest_thread[s] \in 0 .. Ded - 1
    /\ next_writer_id[s] # Undefined =>
         Published /\ s < Ded /\ next_writer_id[s] \in Ded .. NumScanners - 1
    /\ pc[s] \in {"poll", "fallback"} => next_writer_id[s] # Undefined

QueueInv ==
  \A w, d \in Scanners : queue[<<w, d>>] # <<>> =>
    Published /\ w >= Ded /\ d < Ded /\ queueState[<<w, d>>] = "live"

(* The end: whoever sees stopped while alert mode is on may rely on every  *)
(* scanner having been told, or having gone.                               *)
Freeing ==
  \/ mpc \in {"free_targets", "drain", "free_queue"}
  \/ targetsFreed
  \/ \E wd \in Pairs : queueState[wd] = "freed"

StopInv ==
  /\ stopped => \/ AllDone \/ AllGone
                \/ mpc = "stop_all"
                \/ mpc \in {"watch", "gone"} /\ ~ alert_mode_used
  /\ mpc = "stop_all" => mi \in Scanners /\ stopped /\ \A s \in Scanners : s < mi => done[s]
  /\ Freeing => stopped /\ alert_mode_used /\ (AllDone \/ AllGone)

CrashInv ==
  /\ crashed # "null"
  /\ crashed = "freed" => stopped /\ AllDone
  /\ crashed = "matrix" => MaxWorkGroups * WorkGroupSize > NumScanners

IInv ==
  /\ TypeOK /\ MainInv /\ PacketInv /\ DoneInv /\ CalmInv /\ MatrixInv /\ GroupInv
  /\ SwitchInv /\ RoleInv /\ QueueInv /\ StopInv /\ CrashInv

-----------------------------------------------------------------------------
(* The threads start with nothing in hand, and no switch under way. *)
LEMMA InitIInv == Init => IInv
<1> SUFFICES ASSUME Init PROVE IInv
  OBVIOUS
<1> USE SystemAssumption DEF Init, SharedInit, ManagerInit, ReaderInit
<1>1. TypeOK
  <2>1. /\ list \in [Scanners -> Seq(Clones)] /\ free_queue \in [Scanners -> Seq(Clones)]
        /\ queue \in [Pairs -> Seq(Clones)]
    OBVIOUS
  <2>2. 0 \in Scanners /\ 0 \in 0 .. NumScanners /\ 0 \in 0 .. PacketsToSteal /\ 0 \in 0 .. NumPackets
        /\ NumScanners \in 0 .. NumScanners
    BY DEF Scanners
  <2> QED  BY <2>1, <2>2 DEF TypeOK, ScannerOrNone, ScannerLabels, ManagerLabels
<1>2. DoneInv
  <2>1. {s \in Scanners : pc[s] = "gone"} = {}
    OBVIOUS
  <2> QED  BY <2>1, FS_EmptySet DEF DoneInv
<1>3. MainInv /\ PacketInv /\ GroupInv /\ CrashInv
  BY DEF MainInv, PacketInv, GroupInv, CrashInv
<1>4. CalmInv /\ MatrixInv
  BY DEF CalmInv, MatrixInv, Ded, Reg
<1>5. SwitchInv /\ RoleInv
  BY DEF SwitchInv, RoleInv
<1>6. QueueInv
  BY DEF QueueInv, Pairs
<1>7. StopInv
  BY DEF StopInv, Freeing
<1> QED  BY <1>1, <1>2, <1>3, <1>4, <1>5, <1>6, <1>7 DEF IInv

-----------------------------------------------------------------------------
(* What the invariant says of one scanner. *)

(* Counts and numbers are numbers. *)
LEMMA Numbers ==
  ASSUME TypeOK
  PROVE  /\ NumScanners \in Nat \ {0} /\ Scanners = 0 .. NumScanners - 1
         /\ Ded \in 0 .. NumScanners /\ Reg \in 0 .. NumScanners
         /\ mi \in Nat /\ mj \in Nat
         /\ Undefined = -1 /\ ScannerOrNone = Scanners \cup {Undefined}
BY SystemAssumption DEF TypeOK, Scanners, Ded, Reg, Undefined, ScannerOrNone

(* A dedicated scanner's machine, or any scanner's mode, is there only     *)
(* once the counts are published; then they add up.                        *)
LEMMA PublishedFacts ==
  ASSUME IInv, NEW s \in Scanners, alert_mode_active[s] \/ ~ isTableMachine[s]
  PROVE  Published /\ Ded \in 1 .. NumScanners /\ Reg = NumScanners - Ded
<1>1. alert_mode_used /\ ~ Filled
  BY DEF IInv, CalmInv, MatrixInv
<1> QED  BY <1>1 DEF IInv, MatrixInv, Published, Assigned

(* Lines 207-214: the first writer to poll is a regular thread. *)
LEMMA FirstWriter ==
  ASSUME IInv, NEW s \in Scanners, ~ ReadsOwnList(s)
  PROVE  /\ Published /\ s < Ded /\ Ded \in 1 .. NumScanners - 1
<1>1. ~ isTableMachine[s] /\ Reg # 0
  BY DEF ReadsOwnList, Reg
<1>2. s < Ded
  BY <1>1 DEF IInv, SwitchInv
<1> QED  BY <1>1, <1>2, PublishedFacts, Numbers DEF IInv

(* Lines 273-276: so is every further one. *)
LEMMA Polled ==
  ASSUME IInv, NEW s \in Scanners, pc[s] \in {"poll", "fallback"}
  PROVE  /\ Published /\ s < Ded /\ next_writer_id[s] \in Ded .. NumScanners - 1
         /\ NextWriter(next_writer_id[s]) \in Ded .. NumScanners - 1
         /\ next_writer_id[s] \in Scanners /\ Ded .. NumScanners - 1 \subseteq Scanners
<1>1. Published /\ s < Ded /\ next_writer_id[s] \in Ded .. NumScanners - 1
  BY DEF IInv, RoleInv
<1> QED  BY <1>1, Numbers DEF IInv, NextWriter, Ded

(* MulticoreManager.c:394: whoever has a target is regular, and its target *)
(* and the next one are dedicated.                                         *)
LEMMA Targets ==
  ASSUME IInv, NEW s \in Scanners, pc[s] = "transfer", TargetReadable(s)
  PROVE  /\ Published /\ s >= Ded /\ next_target[s] \in 0 .. Ded - 1
         /\ (next_target[s] + Reg) % Ded \in 0 .. Ded - 1
         /\ 0 .. Ded - 1 \subseteq Scanners
<1>1. Published /\ Ded \in 1 .. NumScanners /\ Reg = NumScanners - Ded
  BY PublishedFacts DEF IInv, RoleInv
<1>2. Assigned = Ded
  BY <1>1 DEF Published, Assigned
<1>3. next_target[s] # Undefined
  BY DEF TargetReadable
<1>4. s >= Ded /\ next_target[s] \in 0 .. Ded - 1
  BY <1>1, <1>2, <1>3 DEF IInv, MatrixInv, Published
<1>5. next_target[s] + Reg \in Nat
  BY <1>1, <1>4, Numbers DEF IInv
<1> QED  BY <1>1, <1>4, <1>5, Numbers DEF IInv

(* A scanner that transfers or steals deals with a dedicated thread, whose *)
(* machine was changed and whose list was locked before.                   *)
LEMMA Partner ==
  ASSUME IInv, NEW s \in Scanners, pc[s] \in {"enqueue", "steal", "reinsert"}
  PROVE  /\ Published /\ s >= Ded /\ dest_thread[s] \in 0 .. Ded - 1 /\ dest_thread[s] \in Scanners
         /\ ~ isTableMachine[dest_thread[s]] /\ useLock[dest_thread[s]] = 1
<1>1. alert_mode_active[s] /\ s >= Ded /\ dest_thread[s] \in 0 .. Ded - 1
  BY DEF IInv, RoleInv
<1>2. Published /\ Ded \in 1 .. NumScanners /\ Reg = NumScanners - Ded
  BY <1>1, PublishedFacts
<1>3. dest_thread[s] \in Scanners /\ dest_thread[s] \in 0 .. s /\ dest_thread[s] < Ded /\ Reg > 0
  BY <1>1, <1>2, Numbers DEF IInv
<1>4. Switched(dest_thread[s])
  BY <1>1, <1>3 DEF IInv, SwitchInv
<1>5. ~ isTableMachine[dest_thread[s]]
  BY <1>3, <1>4, Numbers DEF IInv, Switched
<1> QED  BY <1>1, <1>2, <1>3, <1>4, <1>5 DEF Switched, LockRight, Locked

-----------------------------------------------------------------------------
(* Types. *)

(* What is taken from a list, and what is left of it. *)
LEMMA FirstType ==
  ASSUME TypeOK, NEW s \in Scanners
  PROVE  /\ First(s) \in Clones \cup {NoPacket}
         /\ RemoveFirst(s) => list' \in [Scanners -> Seq(Clones)]
<1>1. /\ list \in [Scanners -> Seq(Clones)] /\ list[s] \in Seq(Clones)
  BY DEF TypeOK
<1>2. list[s] # <<>> => Head(list[s]) \in Clones /\ Tail(list[s]) \in Seq(Clones)
  BY <1>1
<1> QED  BY <1>1, <1>2 DEF First, RemoveFirst


(* The scanners that are gone can be counted. *)
LEMMA CountGone ==
  ASSUME NEW q
  PROVE  LET gone == {s \in Scanners : q[s] = "gone"}
         IN /\ IsFiniteSet(gone) /\ Cardinality(gone) \in 0 .. NumScanners
            /\ Cardinality(gone) = NumScanners => gone = Scanners
<1> DEFINE gone == {s \in Scanners : q[s] = "gone"}
<1>1. IsFiniteSet(Scanners) /\ Cardinality(Scanners) = NumScanners
  BY SystemAssumption, FS_Interval DEF Scanners
<1>2. gone \subseteq Scanners
  OBVIOUS
<1> HIDE DEF gone
<1>3. IsFiniteSet(gone) /\ Cardinality(gone) <= NumScanners
  BY <1>1, <1>2, FS_Subset
<1>4. Cardinality(gone) \in Nat
  BY <1>3, FS_CardinalityType
<1>5. Cardinality(gone) = NumScanners => gone = Scanners
  BY <1>1, <1>2, FS_Subset
<1> QED  BY <1>3, <1>4, <1>5, SystemAssumption DEF gone

(* A scanner keeps the types. *)
LEMMA ScannerKeepsType ==
  ASSUME IInv, NEW s \in Scanners, ScannerStep(s), DoneInv',
         UNCHANGED <<managerLocals, readerVars, main, nth>>
  PROVE  TypeOK'
<1> USE DEF Goto, Hold, lists, matrix, targets, counts, modes, stopping, stealing, polling,
            scannerLocals, managerLocals, readerVars
<1>1. TypeOK
  BY DEF IInv
<1>2. /\ Undefined \in ScannerOrNone /\ Scanners \subseteq ScannerOrNone
      /\ NoPacket \in Clones \cup {NoPacket}
  BY DEF ScannerOrNone
<1>3. CASE Loop(s)
  <2>1. ~ ReadsOwnList(s) => Ded \in ScannerOrNone
    BY <1>2, FirstWriter, Numbers, <1>1
  <2>2. /\ next_writer_id' \in [Scanners -> ScannerOrNone]
        /\ last_writer_id' \in [Scanners -> ScannerOrNone]
        /\ pc' \in [Scanners -> ScannerLabels]
    <3>1. CASE done[s] \/ ReadsOwnList(s)
      BY <1>1, <1>3, <3>1 DEF Loop, TypeOK, ScannerLabels
    <3>2. CASE ~ done[s] /\ ~ ReadsOwnList(s)
      <4>1. pc' = [pc EXCEPT ![s] = "poll"]
        BY <1>3, <3>2 DEF Loop
      <4>2. PICK w \in ScannerOrNone : next_writer_id' = [next_writer_id EXCEPT ![s] = w]
        BY <1>1, <1>3, <2>1, <3>2 DEF Loop, TypeOK, Ded
      <4>3. next_writer_id' \in [Scanners -> ScannerOrNone] /\ next_writer_id'[s] \in ScannerOrNone
        BY <1>1, <4>2 DEF TypeOK
      <4>4. last_writer_id' = [last_writer_id EXCEPT ![s] = next_writer_id'[s]]
        BY <1>3, <3>2 DEF Loop
      <4> QED  BY <1>1, <4>1, <4>3, <4>4 DEF TypeOK, ScannerLabels
    <3> QED  BY <3>1, <3>2
  <2> QED  BY <1>1, <1>3, <2>2 DEF Loop, TypeOK
<1>4. CASE ReadOwn(s)
  <2>1. packet' \in [Scanners -> Clones \cup {NoPacket}] /\ list' \in [Scanners -> Seq(Clones)]
    BY <1>1, <1>4, FirstType DEF ReadOwn, TypeOK
  <2>2. stopped' \in BOOLEAN /\ done' \in [Scanners -> BOOLEAN] /\ pc' \in [Scanners -> ScannerLabels]
    BY <1>1, <1>4 DEF ReadOwn, StopAll, TypeOK, ScannerLabels
  <2> QED  BY <1>1, <1>4, <2>1, <2>2 DEF ReadOwn, TypeOK
<1>16. CASE BeginOwn(s)
  BY <1>1, <1>16 DEF BeginOwn, TypeOK, ScannerLabels
<1>17. CASE UnlinkOwn(s)
  <2>1. packet' \in [Scanners -> Clones \cup {NoPacket}] /\ list' \in [Scanners -> Seq(Clones)]
    BY <1>1, <1>17, FirstType DEF UnlinkOwn, TypeOK
  <2>2. pc' \in [Scanners -> ScannerLabels]
    BY <1>1, <1>17 DEF UnlinkOwn, TypeOK, ScannerLabels
  <2> QED  BY <1>1, <1>17, <2>1, <2>2 DEF UnlinkOwn, TypeOK
<1>5. CASE Poll(s)
  <2>1. NextWriter(next_writer_id[s]) \in ScannerOrNone
    BY <1>2, <1>5, Polled DEF Poll
  <2>2. /\ next_writer_id' \in [Scanners -> ScannerOrNone]
        /\ last_writer_id' \in [Scanners -> ScannerOrNone]
        /\ pc' \in [Scanners -> ScannerLabels]
    BY <1>1, <1>2, <1>5, <2>1 DEF Poll, TypeOK, ScannerLabels
  <2>3. <<next_writer_id[s], s>> \in Pairs
    BY <1>5, Polled DEF Poll, Pairs
  <2>4. /\ packet' \in [Scanners -> Clones \cup {NoPacket}]
        /\ queue' \in [Pairs -> Seq(Clones)]
    <3> DEFINE q == queue[<<next_writer_id[s], s>>]
    <3>1. q \in Seq(Clones)
      BY <1>1, <2>3 DEF TypeOK
    <3>2. q # <<>> => Head(q) \in Clones /\ Tail(q) \in Seq(Clones)
      BY <3>1
    <3>3. queue' = queue \/ queue' = [queue EXCEPT ![<<next_writer_id[s], s>>] = Tail(q)]
      BY <1>5 DEF Poll
    <3>4. q = <<>> => UNCHANGED <<queue, packet>>
      BY <1>5 DEF Poll
    <3>5. q # <<>> => packet' = [packet EXCEPT ![s] = Head(q)]
      BY <1>5 DEF Poll
    <3>6. queue' \in [Pairs -> Seq(Clones)]
      BY <1>1, <3>2, <3>3, <3>4 DEF TypeOK
    <3>7. packet' \in [Scanners -> Clones \cup {NoPacket}]
      BY <1>1, <3>2, <3>4, <3>5 DEF TypeOK
    <3> QED  BY <3>6, <3>7
  <2> QED  BY <1>1, <1>5, <2>2, <2>4 DEF Poll, TypeOK
<1>6. CASE Fallback(s)
  <2>1. packet' \in [Scanners -> Clones \cup {NoPacket}] /\ list' \in [Scanners -> Seq(Clones)]
    BY <1>1, <1>6, FirstType DEF Fallback, TypeOK
  <2>2. /\ stopped' \in BOOLEAN /\ done' \in [Scanners -> BOOLEAN]
        /\ pc' \in [Scanners -> ScannerLabels]
        /\ last_writer_id' \in [Scanners -> ScannerOrNone]
    BY <1>1, <1>2, <1>6 DEF Fallback, StopAll, TypeOK, ScannerLabels
  <2> QED  BY <1>1, <1>6, <2>1, <2>2 DEF Fallback, TypeOK
<1>7. CASE Check(s)
  BY <1>1, <1>2, <1>7 DEF Check, TypeOK, ScannerLabels
<1>8. CASE Match(s) \/ MatchTable(s)
  <2>1. packet[s] \in Clones
    BY <1>1, <1>8 DEF Match, MatchTable, IInv, PacketInv, TypeOK
  <2>2. /\ packet' \in [Scanners -> Clones \cup {NoPacket}] /\ free_queue' \in [Scanners -> Seq(Clones)]
        /\ pc' \in [Scanners -> ScannerLabels]
    <3>1. Append(free_queue[s], packet[s]) \in Seq(Clones)
      BY <1>1, <2>1 DEF TypeOK
    <3>2. CASE Match(s)
      BY <1>1, <1>2, <3>1, <3>2 DEF Match, Release, TypeOK, ScannerLabels
    <3>3. CASE MatchTable(s)
      <4>1. CASE alert_mode_active[s] /\ IsHeavy(packet[s])
        BY <1>1, <3>3, <4>1 DEF MatchTable, TypeOK, ScannerLabels
      <4>2. CASE ~ (alert_mode_active[s] /\ IsHeavy(packet[s]))
        <5>1. /\ free_queue' = [free_queue EXCEPT ![s] = Append(free_queue[s], packet[s])]
              /\ packet' = [packet EXCEPT ![s] = NoPacket] /\ pc' = [pc EXCEPT ![s] = "loop"]
          BY <3>3, <4>2 DEF MatchTable, Release
        <5> QED  BY <1>1, <1>2, <3>1, <5>1 DEF TypeOK, ScannerLabels
      <4> QED  BY <4>1, <4>2
    <3> QED  BY <1>8, <3>2, <3>3
  <2>3. CASE Match(s)
    BY <1>1, <2>2, <2>3 DEF Match, TypeOK
  <2>4. CASE MatchTable(s)
    BY <1>1, <2>2, <2>4 DEF MatchTable, TypeOK
  <2> QED  BY <1>8, <2>3, <2>4
<1>9. CASE PickTarget(s)
  <2>1. /\ dest_thread' \in [Scanners -> ScannerOrNone] /\ next_target' \in [Scanners -> ScannerOrNone]
        /\ pc' \in [Scanners -> ScannerLabels]
    <3>1. /\ next_target[s] \in ScannerOrNone /\ (next_target[s] + Reg) % Ded \in ScannerOrNone
      BY <1>2, <1>9, Targets DEF PickTarget
    <3> QED  BY <1>1, <1>9, <3>1 DEF PickTarget, TypeOK, ScannerLabels, Reg, Ded
  <2> QED  BY <1>1, <1>9, <2>1 DEF PickTarget, TypeOK
<1>10. CASE EnqueueHeavy(s)
  <2>1. packet[s] \in Clones
    BY <1>1, <1>10 DEF EnqueueHeavy, IInv, PacketInv, TypeOK
  <2>2. queue' \in [Pairs -> Seq(Clones)]
    <3> DEFINE wd == <<s, dest_thread[s]>>
    <3>1. wd \in Pairs
      BY <1>10, Partner DEF EnqueueHeavy, Pairs
    <3>2. queue \in [Pairs -> Seq(Clones)] /\ Append(queue[wd], packet[s]) \in Seq(Clones)
      BY <1>1, <2>1, <3>1 DEF TypeOK
    <3>3. queue' = [queue EXCEPT ![wd] = Append(queue[wd], packet[s])]
      BY <1>10 DEF EnqueueHeavy, PutHeavy
    <3> QED  BY <3>2, <3>3
  <2>3. /\ to_steal' \in [Scanners -> 0 .. PacketsToSteal] /\ pc' \in [Scanners -> ScannerLabels]
        /\ packet' \in [Scanners -> Clones \cup {NoPacket}]
    BY <1>1, <1>2, <1>10, SystemAssumption DEF EnqueueHeavy, TypeOK, ScannerLabels
  <2> QED  BY <1>1, <1>10, <2>2, <2>3 DEF EnqueueHeavy, TypeOK
<1>11. CASE StealTake(s)
  <2>1. dest_thread[s] \in Scanners
    BY <1>11, Partner DEF StealTake
  <2>2. list' \in [Scanners -> Seq(Clones)] /\ next_packet' \in [Scanners -> Clones \cup {NoPacket}]
    BY <1>1, <1>11, <2>1, FirstType DEF StealTake, TypeOK
  <2>3. to_steal' \in [Scanners -> 0 .. PacketsToSteal] /\ pc' \in [Scanners -> ScannerLabels]
    BY <1>1, <1>11, SystemAssumption DEF StealTake, TypeOK, ScannerLabels
  <2> QED  BY <1>1, <1>11, <2>2, <2>3 DEF StealTake, TypeOK
<1>18. CASE StealOverlap(s)
  <2> DEFINE d == dest_thread[s]
  <2>1. d \in Scanners
    BY <1>18, Partner DEF StealOverlap
  <2>2. /\ packet' = [packet EXCEPT ![d] = First(d)] /\ next_packet' = [next_packet EXCEPT ![s] = First(d)]
        /\ RemoveFirst(d) /\ crashed' = "overlap"
    BY <1>18 DEF StealOverlap
  <2> HIDE DEF d
  <2>3. First(d) \in Clones \cup {NoPacket} /\ list' \in [Scanners -> Seq(Clones)]
    BY <1>1, <2>1, <2>2, FirstType
  <2>4. /\ packet' \in [Scanners -> Clones \cup {NoPacket}]
        /\ next_packet' \in [Scanners -> Clones \cup {NoPacket}]
    BY <1>1, <2>2, <2>3 DEF TypeOK
  <2> QED  BY <1>1, <1>18, <2>2, <2>3, <2>4 DEF StealOverlap, TypeOK
<1>12. CASE StealPut(s)
  <2>1. next_packet[s] \in Clones
    BY <1>1, <1>12 DEF StealPut, IInv, PacketInv, TypeOK
  <2>2. list' \in [Scanners -> Seq(Clones)]
    BY <1>1, <1>12, <2>1 DEF StealPut, PutFirst, TypeOK
  <2>3. next_packet' \in [Scanners -> Clones \cup {NoPacket}] /\ pc' \in [Scanners -> ScannerLabels]
    BY <1>1, <1>2, <1>12 DEF StealPut, TypeOK, ScannerLabels
  <2> QED  BY <1>1, <1>12, <2>2, <2>3 DEF StealPut, TypeOK
<1>13. CASE StealEnd(s)
  BY <1>1, <1>2, <1>13 DEF StealEnd, TypeOK, ScannerLabels
<1>14. CASE ScannerDone(s)
  <2>1. scanners_done' \in 0 .. NumScanners
    BY CountGone DEF DoneInv
  <2>2. pc' \in [Scanners -> ScannerLabels]
    BY <1>1, <1>14 DEF ScannerDone, TypeOK, ScannerLabels
  <2> QED  BY <1>1, <1>14, <2>1, <2>2 DEF ScannerDone, TypeOK
<1>15. CASE Crash(s)
  <2>1. crashed' \in {"no", "freed", "no_target", "null", "matrix"}
    <3>1. \A wd \in Pairs : queueState[wd] \in {"null", "live", "freed"}
      BY <1>1 DEF TypeOK
    <3>2. pc[s] = "enqueue" => <<s, dest_thread[s]>> \in Pairs
      BY Partner DEF Pairs
    <3>3. pc[s] = "poll" => <<next_writer_id[s], s>> \in Pairs
      BY Polled DEF Pairs
    <3> QED  BY <1>15, <3>1, <3>2, <3>3 DEF Crash
  <2> QED  BY <1>1, <1>15, <2>1 DEF Crash, TypeOK
<1> QED  BY <1>3, <1>4, <1>5, <1>6, <1>7, <1>8, <1>9, <1>10, <1>11, <1>12, <1>13, <1>14, <1>15,
            <1>16, <1>17, <1>18 DEF ScannerStep

(* So do the manager, ... *)
LEMMA ManagerKeepsType ==
  ASSUME IInv, ManagerStep, UNCHANGED <<readerVars, main, nth>>
  PROVE  TypeOK'
<1> USE DEF MGoto, lists, matrix, targets, counts, modes, stopping, stealing, polling,
            scannerLocals, managerLocals, readerVars, scannerSide
<1>1. TypeOK
  BY DEF IInv
<1>2. /\ NumScanners \in Nat \ {0} /\ WorkGroupSize \in Nat \ {0} /\ MaxWorkGroups \in Nat \ {0}
      /\ mi \in Nat /\ mj \in Nat
  BY <1>1, SystemAssumption DEF TypeOK
<1>3. CASE Watch
  <2>1. mpc' \in ManagerLabels /\ mi' \in Nat /\ mj' \in Nat
    BY <1>1, <1>2, <1>3 DEF Watch, TypeOK, ManagerLabels, Ded
  <2> QED  BY <1>1, <1>3, <2>1 DEF Watch, TypeOK
<1>4. CASE CountDone
  <2>1. mpc' \in ManagerLabels /\ mi' \in Nat /\ mj' \in Nat
    BY <1>1, <1>2, <1>4 DEF CountDone, TypeOK, ManagerLabels, Ded
  <2>2. stopped' \in BOOLEAN
    BY <1>1, <1>4 DEF CountDone, TypeOK
  <2> QED  BY <1>1, <1>4, <2>1, <2>2 DEF CountDone, TypeOK
<1>5. CASE Prepare
  <2> DEFINE ded == mi * WorkGroupSize
  <2>1. ded \in 1 .. NumScanners
    <3>1. mi \in Nat \ {0} /\ ded <= NumScanners
      BY <1>2, <1>5 DEF Prepare, IInv, GroupInv
    <3>2. ded \in Nat /\ ded > 0
      BY <1>2, <3>1
    <3> QED  BY <1>2, <3>1, <3>2
  <2>2. \A s \in Scanners : Producer(s, ded) => (s - ded) % ded \in ScannerOrNone
    <3> SUFFICES ASSUME NEW s \in Scanners, s >= ded PROVE (s - ded) % ded \in Scanners
      BY DEF Producer, ScannerOrNone
    <3>1. s - ded \in Nat
      BY <1>2, <2>1 DEF Scanners
    <3>2. (s - ded) % ded \in 0 .. ded - 1
      BY <2>1, <3>1
    <3> QED  BY <1>2, <2>1, <3>2 DEF Scanners
  <2>3. next_target' \in [Scanners -> ScannerOrNone]
    BY <1>1, <1>5, <2>2 DEF Prepare, TypeOK
  <2>4. queueState' \in [Pairs -> {"null", "live", "freed"}]
    BY <1>1, <1>5 DEF Prepare, TypeOK
  <2> QED  BY <1>1, <1>2, <1>5, <2>3, <2>4 DEF Prepare, TypeOK, ManagerLabels
<1>6. CASE OverrunMatrix
  BY <1>1, <1>6 DEF OverrunMatrix, TypeOK
<1>7. CASE PublishRegular \/ PublishDedicated
  <2>1. mi * WorkGroupSize \in 0 .. NumScanners
    <3>1. Assigned \in 0 .. NumScanners /\ Filled
      BY <1>7 DEF PublishRegular, PublishDedicated, Filled, IInv, CalmInv, MatrixInv
    <3> QED  BY <3>1 DEF Assigned
  <2>2. NumScanners - mi * WorkGroupSize \in 0 .. NumScanners
    BY <1>2, <2>1
  <2>3. CASE PublishRegular
    BY <1>1, <1>2, <2>2, <2>3 DEF PublishRegular, TypeOK, ManagerLabels
  <2>4. CASE PublishDedicated
    BY <1>1, <1>2, <2>1, <2>4 DEF PublishDedicated, TypeOK, ManagerLabels
  <2> QED  BY <1>7, <2>3, <2>4
<1>8. CASE SwitchLock \/ SwitchType
  <2>1. (mi >= Ded) \in BOOLEAN
    OBVIOUS
  <2>2. CASE SwitchLock
    BY <1>1, <1>2, <2>2 DEF SwitchLock, TypeOK
  <2>3. CASE SwitchType
    BY <1>1, <1>2, <2>1, <2>3 DEF SwitchType, TypeOK, ManagerLabels
  <2> QED  BY <1>8, <2>2, <2>3
<1>9. CASE SwitchMode
  <2>1. mpc' \in ManagerLabels /\ mi' \in Nat /\ mj' \in Nat
    BY <1>1, <1>2, <1>9 DEF SwitchMode, TypeOK, ManagerLabels, Ded
  <2>2. alert_mode_active' \in [Scanners -> BOOLEAN]
    BY <1>1, <1>9 DEF SwitchMode, TypeOK
  <2> QED  BY <1>1, <1>9, <2>1, <2>2 DEF SwitchMode, TypeOK
<1>10. CASE RegularsDone
  <2>1. mpc' \in ManagerLabels /\ mi' \in Nat /\ mj' \in Nat
    BY <1>1, <1>2, <1>10 DEF RegularsDone, TypeOK, ManagerLabels, Ded
  <2> QED  BY <1>1, <1>10, <2>1 DEF RegularsDone, TypeOK
<1>11. CASE StopDedicated
  <2>1. mpc' \in ManagerLabels /\ mi' \in Nat /\ mj' \in Nat
    BY <1>1, <1>2, <1>11 DEF StopDedicated, TypeOK, ManagerLabels, Ded
  <2>2. done' \in [Scanners -> BOOLEAN]
    BY <1>1, <1>11 DEF StopDedicated, TypeOK
  <2> QED  BY <1>1, <1>11, <2>1, <2>2 DEF StopDedicated, TypeOK
<1>12. CASE InputsEmpty
  BY <1>1, <1>2, <1>12 DEF InputsEmpty, TypeOK, ManagerLabels
<1>13. CASE Stop
  <2>1. mpc' \in ManagerLabels /\ mi' \in Nat /\ mj' \in Nat
    BY <1>1, <1>2, <1>13 DEF Stop, TypeOK, ManagerLabels, Ded
  <2> QED  BY <1>1, <1>13, <2>1 DEF Stop, TypeOK
<1>14. CASE StopNext
  <2>1. mpc' \in ManagerLabels /\ mi' \in Nat /\ mj' \in Nat
    BY <1>1, <1>2, <1>14 DEF StopNext, TypeOK, ManagerLabels, Ded
  <2>2. done' \in [Scanners -> BOOLEAN]
    BY <1>1, <1>14 DEF StopNext, TypeOK
  <2> QED  BY <1>1, <1>14, <2>1, <2>2 DEF StopNext, TypeOK
<1>15. CASE AlertLoop
  <2>1. mpc' \in ManagerLabels /\ mi' \in Nat /\ mj' \in Nat
    BY <1>1, <1>2, <1>15 DEF AlertLoop, TypeOK, ManagerLabels, Ded
  <2> QED  BY <1>1, <1>15, <2>1 DEF AlertLoop, TypeOK
<1>16. CASE FreeTargets
  <2>1. mpc' \in ManagerLabels /\ mi' \in Nat /\ mj' \in Nat
    BY <1>1, <1>2, <1>16 DEF FreeTargets, TypeOK, ManagerLabels, Ded
  <2> QED  BY <1>1, <1>16, <2>1 DEF FreeTargets, TypeOK
<1>17. CASE Drain
  <2>1. mpc' \in ManagerLabels /\ mi' \in Nat /\ mj' \in Nat
    BY <1>1, <1>2, <1>17 DEF Drain, TypeOK, ManagerLabels, Ded
  <2> DEFINE wd == <<mj + Ded, mi>>
  <2>2. queue' = [queue EXCEPT ![wd] = <<>>]
    BY <1>17 DEF Drain
  <2> HIDE DEF wd
  <2>3. queue \in [Pairs -> Seq(Clones)] /\ <<>> \in Seq(Clones)
    BY <1>1 DEF TypeOK
  <2>4. queue' \in [Pairs -> Seq(Clones)]
    BY <2>2, <2>3
  <2> QED  BY <1>1, <1>17, <2>1, <2>4 DEF Drain, TypeOK
<1>18. CASE FreeQueue
  <2> DEFINE wd == <<mj + Ded, mi>>
  <2>1. queue' = [queue EXCEPT ![wd] = <<>>] /\ queueState' = [queueState EXCEPT ![wd] = "freed"]
    BY <1>18 DEF FreeQueue
  <2> HIDE DEF wd
  <2>2. /\ queue \in [Pairs -> Seq(Clones)] /\ queueState \in [Pairs -> {"null", "live", "freed"}]
        /\ <<>> \in Seq(Clones)
    BY <1>1 DEF TypeOK
  <2>3. queueState' \in [Pairs -> {"null", "live", "freed"}] /\ queue' \in [Pairs -> Seq(Clones)]
    BY <2>1, <2>2
  <2>4. mi' \in Nat /\ mj' \in Nat /\ mpc' \in ManagerLabels
    BY <1>1, <1>2, <1>18 DEF FreeQueue, TypeOK, ManagerLabels
  <2> QED  BY <1>1, <1>18, <2>3, <2>4 DEF FreeQueue, TypeOK
<1> QED  BY <1>3, <1>4, <1>5, <1>6, <1>7, <1>8, <1>9, <1>10, <1>11, <1>12, <1>13, <1>14, <1>15, <1>16, <1>17, <1>18
         DEF ManagerStep

(* ... the reader ... *)
LEMMA ReaderKeepsType ==
  ASSUME IInv, ReaderStep, UNCHANGED <<managerLocals, main, nth>>
  PROVE  TypeOK'
<1> USE DEF lists, matrix, targets, counts, modes, stopping, stealing, polling,
            scannerLocals, managerLocals, unreadable
<1>1. TypeOK
  BY DEF IInv
<1>2. CASE ReadPacket
  <2>1. count' \in 1 .. NumPackets
    BY <1>1, <1>2, SystemAssumption DEF ReadPacket, TypeOK
  <2>2. \A s \in Scanners : Append(list[s], <<count', s>>) \in Seq(Clones)
    BY <1>1, <2>1 DEF TypeOK, Clones
  <2>3. list' \in [Scanners -> Seq(Clones)]
    BY <1>2, <2>2 DEF ReadPacket
  <2> QED  BY <1>1, <1>2, <2>1, <2>3 DEF ReadPacket, TypeOK
<1>3. CASE EndOfTrace
  BY <1>1, <1>3 DEF EndOfTrace, MarkDone, TypeOK
<1> QED  BY <1>2, <1>3 DEF ReaderStep

(* ... and main. *)
LEMMA MainKeepsType ==
  ASSUME IInv, MainThread
  PROVE  TypeOK'
<1> USE DEF lists, matrix, targets, counts, modes, stopping, stealing, polling,
            scannerLocals, managerLocals, readerVars, shared
<1>1. TypeOK
  BY DEF IInv
<1>2. NumScanners \in Nat \ {0} /\ Scanners = 0 .. NumScanners - 1 /\ nth \in Scanners
  BY <1>1, Numbers DEF TypeOK
<1>3. CASE StartReader
  BY <1>1, <1>3 DEF StartReader, TypeOK
<1>4. CASE StartManager
  BY <1>1, <1>4 DEF StartManager, TypeOK, ManagerLabels
<1>5. CASE StartScanner
  <2>1. nth' \in Scanners
    BY <1>2, <1>5 DEF StartScanner
  <2>2. pc' \in [Scanners -> ScannerLabels]
    BY <1>1, <1>5 DEF StartScanner, TypeOK, ScannerLabels
  <2> QED  BY <1>1, <1>5, <2>1, <2>2 DEF StartScanner, TypeOK
<1>6. CASE JoinScanner
  <2>1. nth' \in Scanners
    BY <1>2, <1>6 DEF JoinScanner
  <2> QED  BY <1>1, <1>6, <2>1 DEF JoinScanner, TypeOK
<1>7. CASE StopManager \/ JoinManager
  BY <1>1, <1>7 DEF StopManager, JoinManager, TypeOK
<1> QED  BY <1>3, <1>4, <1>5, <1>6, <1>7 DEF MainThread

-----------------------------------------------------------------------------
(* The threads one by one.  First what main and the reader can disturb.    *)

(* The invariants that are about alert mode do not look at main, the       *)
(* reader, or a scanner that is only now started.                          *)
Alerted == CalmInv /\ MatrixInv /\ GroupInv /\ SwitchInv /\ QueueInv

LEMMA AlertedKept ==
  ASSUME Alerted, UNCHANGED <<queue, queueState, next_target, targetsFreed, counts, modes, useLock, managerLocals>>,
         stopped => stopped'
  PROVE  Alerted'
<1> USE DEF counts, modes, managerLocals
<1>1. /\ Ded' = Ded /\ Reg' = Reg /\ Filled' = Filled /\ Published' = Published /\ Assigned' = Assigned
  BY DEF Ded, Reg, Filled, Published, Assigned
<1>2. \A d : LockRight(d)' = LockRight(d)
  BY DEF LockRight, Locked, Ded, Reg
<1>3. CalmInv'
  BY <1>1 DEF Alerted, CalmInv
<1>4. MatrixInv'
  BY <1>1 DEF Alerted, MatrixInv
<1>5. GroupInv'
  BY DEF Alerted, GroupInv
<1>6. SwitchInv'
  BY <1>1, <1>2 DEF Alerted, SwitchInv, Switched
<1>7. QueueInv'
  BY <1>1 DEF Alerted, QueueInv
<1> QED  BY <1>3, <1>4, <1>5, <1>6, <1>7 DEF Alerted

-----------------------------------------------------------------------------
(* A scanner's step. *)

(* It moves that scanner only, and touches none of the manager's things    *)
(* but the stop flags, which it only sets.                                 *)
LEMMA ScannerMoves ==
  ASSUME TypeOK, NEW s \in Scanners, ScannerStep(s)
  PROVE  /\ pc[s] \notin {"off", "gone"} /\ pc'[s] # "off"
         /\ \A u \in Scanners \ {s} : pc'[u] = pc[u]
         /\ UNCHANGED <<counts, modes, useLock, queueState, targetsFreed>>
         /\ UNCHANGED stopping \/ StopAll
<1> USE DEF Goto, lists, matrix, targets, stopping, scannerLocals, TypeOK
<1>1. CASE Loop(s)
  BY <1>1 DEF Loop
<1>2. CASE ReadOwn(s)
  BY <1>2 DEF ReadOwn
<1>3. CASE Poll(s)
  BY <1>3 DEF Poll
<1>4. CASE Fallback(s)
  BY <1>4 DEF Fallback
<1>5. CASE Check(s)
  BY <1>5 DEF Check
<1>6. CASE Match(s)
  BY <1>6 DEF Match
<1>7. CASE MatchTable(s)
  BY <1>7 DEF MatchTable
<1>8. CASE PickTarget(s)
  BY <1>8 DEF PickTarget
<1>9. CASE EnqueueHeavy(s)
  BY <1>9 DEF EnqueueHeavy
<1>10. CASE StealTake(s)
  BY <1>10 DEF StealTake
<1>11. CASE StealPut(s)
  BY <1>11 DEF StealPut
<1>12. CASE StealEnd(s)
  BY <1>12 DEF StealEnd
<1>13. CASE ScannerDone(s)
  BY <1>13 DEF ScannerDone
<1>14. CASE Crash(s)
  BY <1>14 DEF Crash
<1>15. CASE BeginOwn(s) \/ UnlinkOwn(s)
  BY <1>15 DEF BeginOwn, UnlinkOwn
<1>16. CASE StealOverlap(s)
  BY <1>16 DEF StealOverlap
<1> QED  BY <1>1, <1>2, <1>3, <1>4, <1>5, <1>6, <1>7, <1>8, <1>9, <1>10, <1>11, <1>12, <1>13, <1>14,
            <1>15, <1>16 DEF ScannerStep

(* It is none that main has not started, or has joined. *)
LEMMA ScannerKeepsMain ==
  ASSUME IInv, NEW s \in Scanners, ScannerStep(s), UNCHANGED <<managerLocals, readerVars, main, nth>>
  PROVE  MainInv'
<1>1. /\ pc[s] \notin {"off", "gone"} /\ \A u \in Scanners \ {s} : pc'[u] = pc[u]
      /\ UNCHANGED <<main, nth, mpc, alert_mode_used>>
  BY ScannerMoves DEF IInv, counts, managerLocals
<1>2. main \notin {"start_reader", "join_reader", "stop", "join_manager", "end"}
  BY <1>1, Numbers DEF IInv, MainInv, AllGone
<1>3. CASE main = "start"
  BY <1>1, <1>3 DEF IInv, MainInv
<1>4. CASE main = "join"
  BY <1>1, <1>4 DEF IInv, MainInv
<1> QED  BY <1>1, <1>2, <1>3, <1>4 DEF IInv, MainInv, TypeOK

(* scanners_done counts the scanners that are gone. *)
LEMMA ScannerKeepsCount ==
  ASSUME IInv, NEW s \in Scanners, ScannerStep(s)
  PROVE  DoneInv'
<1> DEFINE gone == {u \in Scanners : pc[u] = "gone"}
<1>1. /\ pc[s] \notin {"off", "gone"} /\ \A u \in Scanners \ {s} : pc'[u] = pc[u]
  BY ScannerMoves DEF IInv
<1>2. IsFiniteSet(gone) /\ s \notin gone
  BY <1>1, CountGone
<1>3. CASE ScannerDone(s)
  <2>1. gone' = gone \cup {s}
    BY <1>1, <1>3 DEF ScannerDone, Goto, IInv, TypeOK
  <2>2. Cardinality(gone \cup {s}) = Cardinality(gone) + 1
    BY <1>2, FS_AddElement
  <2> QED  BY <1>3, <2>1, <2>2 DEF ScannerDone, DoneInv, IInv
<1>4. CASE ~ ScannerDone(s)
  <2>1. pc'[s] # "gone" /\ scanners_done' = scanners_done
    BY <1>4 DEF ScannerStep, Loop, ReadOwn, BeginOwn, UnlinkOwn, Poll, Fallback, Check, Match, MatchTable,
       PickTarget, EnqueueHeavy, StealTake, StealOverlap, StealPut, StealEnd, Crash, Goto, IInv, TypeOK,
       scannerLocals
  <2>2. gone' = gone
    BY <1>1, <2>1
  <2> QED  BY <2>1, <2>2 DEF DoneInv, IInv
<1> QED  BY <1>3, <1>4

(* A scanner has a packet when it scans it, hands it over or puts it back. *)
LEMMA ScannerKeepsPackets ==
  ASSUME IInv, NEW s \in Scanners, ScannerStep(s)
  PROVE  PacketInv'
<1> USE DEF Goto, Hold, Release, stealing, scannerLocals
<1>1. TypeOK /\ PacketInv
  BY DEF IInv
<1>2. CASE Loop(s) \/ ReadOwn(s) \/ Poll(s) \/ Fallback(s) \/ Check(s) \/ ScannerDone(s)
  BY <1>1, <1>2 DEF Loop, ReadOwn, Poll, Fallback, Check, ScannerDone, TypeOK, PacketInv
<1>3. CASE Match(s) \/ MatchTable(s) \/ PickTarget(s) \/ EnqueueHeavy(s)
  BY <1>1, <1>3 DEF Match, MatchTable, PickTarget, EnqueueHeavy, TypeOK, PacketInv
<1>4. CASE StealTake(s) \/ StealPut(s) \/ StealEnd(s) \/ Crash(s)
  BY <1>1, <1>4 DEF StealTake, StealPut, StealEnd, Crash, TypeOK, PacketInv
<1>5. CASE BeginOwn(s) \/ UnlinkOwn(s)
  BY <1>1, <1>5 DEF BeginOwn, UnlinkOwn, TypeOK, PacketInv
<1>6. CASE StealOverlap(s)
  <2>1. pc' = pc /\ pc[s] = "steal" /\ \A u \in Scanners : u # s => next_packet'[u] = next_packet[u]
    BY <1>1, <1>6 DEF StealOverlap, TypeOK
  <2>2. pc[dest_thread[s]] = "unlink" /\ \A u \in Scanners : u # dest_thread[s] => packet'[u] = packet[u]
    BY <1>1, <1>6 DEF StealOverlap, TypeOK
  <2> QED  BY <1>1, <2>1, <2>2 DEF PacketInv
<1> QED  BY <1>2, <1>3, <1>4, <1>5, <1>6 DEF ScannerStep

(* Whatever it does is for it to do. *)
LEMMA ScannerKeepsRoles ==
  ASSUME IInv, NEW s \in Scanners, ScannerStep(s), UNCHANGED managerLocals
  PROVE  RoleInv'
<1> USE DEF Goto, scannerLocals, stealing, polling
<1>1. TypeOK /\ RoleInv
  BY DEF IInv
<1>2. /\ UNCHANGED <<alert_mode_active, Ded, Published>> /\ \A u \in Scanners \ {s} : pc'[u] = pc[u]
  BY ScannerMoves DEF IInv, counts, modes, Ded, Published, Filled, managerLocals
<1>3. CASE Loop(s)
  <2>1. UNCHANGED dest_thread /\ pc'[s] \in {"exit", "own", "poll"}
    BY <1>1, <1>3 DEF Loop, TypeOK
  <2>2. ~ done[s] /\ ~ ReadsOwnList(s) => Published /\ s < Ded /\ Ded \in Ded .. NumScanners - 1 /\ Ded # Undefined
    BY <1>1, FirstWriter, Numbers
  <2>3. next_writer_id' = next_writer_id \/
          (~ done[s] /\ ~ ReadsOwnList(s) /\ next_writer_id[s] = Undefined
            /\ next_writer_id' = [next_writer_id EXCEPT ![s] = Ded])
    BY <1>1, <1>3 DEF Loop, TypeOK, Ded
  <2>4. pc'[s] = "poll" => next_writer_id'[s] # Undefined
    BY <1>1, <1>3, <2>2 DEF Loop, TypeOK, Ded
  <2> QED  BY <1>1, <1>2, <2>1, <2>2, <2>3, <2>4 DEF RoleInv, TypeOK
<1>4. CASE Poll(s)
  <2>1. /\ UNCHANGED dest_thread /\ pc'[s] \in {"check", "fallback", "poll"}
        /\ next_writer_id' = [next_writer_id EXCEPT ![s] = NextWriter(next_writer_id[s])]
    BY <1>1, <1>4 DEF Poll, TypeOK
  <2>2. /\ Published /\ s < Ded /\ NextWriter(next_writer_id[s]) \in Ded .. NumScanners - 1
        /\ NextWriter(next_writer_id[s]) # Undefined
    BY <1>1, <1>4, Polled, Numbers DEF Poll
  <2> QED  BY <1>1, <1>2, <2>1, <2>2 DEF RoleInv, TypeOK
<1>5. CASE ReadOwn(s) \/ Fallback(s) \/ Check(s) \/ Match(s) \/ ScannerDone(s) \/ Crash(s)
           \/ BeginOwn(s) \/ UnlinkOwn(s)
  <2>1. UNCHANGED <<dest_thread, next_writer_id>>
    BY <1>5 DEF ReadOwn, Fallback, Check, Match, ScannerDone, Crash, BeginOwn, UnlinkOwn
  <2>2. pc'[s] \notin {"transfer", "enqueue", "steal", "reinsert", "fallback"} \/ pc' = pc
    BY <1>1, <1>5 DEF ReadOwn, Fallback, Check, Match, ScannerDone, Crash, BeginOwn, UnlinkOwn, TypeOK
  <2>3. pc'[s] = "poll" => pc[s] \in {"poll", "fallback"}
    BY <1>1, <1>5 DEF ReadOwn, Fallback, Check, Match, ScannerDone, Crash, BeginOwn, UnlinkOwn, TypeOK
  <2> QED  BY <1>1, <1>2, <2>1, <2>2, <2>3 DEF RoleInv, TypeOK
<1>6. CASE MatchTable(s)
  <2>1. UNCHANGED <<dest_thread, next_writer_id>>
    BY <1>6 DEF MatchTable
  <2>2. pc'[s] = "loop" \/ (pc'[s] = "transfer" /\ alert_mode_active[s])
    BY <1>1, <1>6 DEF MatchTable, TypeOK
  <2> QED  BY <1>1, <1>2, <2>1, <2>2 DEF RoleInv, TypeOK
<1>7. CASE PickTarget(s)
  <2>1. /\ UNCHANGED next_writer_id /\ pc'[s] = "enqueue" /\ alert_mode_active[s]
        /\ dest_thread' = [dest_thread EXCEPT ![s] = next_target[s]]
    BY <1>1, <1>7 DEF PickTarget, TypeOK, RoleInv
  <2>2. s >= Ded /\ next_target[s] \in 0 .. Ded - 1
    BY <1>7, Targets DEF PickTarget
  <2> QED  BY <1>1, <1>2, <2>1, <2>2 DEF RoleInv, TypeOK
<1>8. CASE EnqueueHeavy(s) \/ StealTake(s) \/ StealPut(s)
  <2>1. /\ UNCHANGED <<next_writer_id, dest_thread>> /\ pc'[s] \in {"steal", "reinsert"}
        /\ pc[s] \in {"enqueue", "steal", "reinsert"}
    BY <1>1, <1>8 DEF EnqueueHeavy, StealTake, StealPut, TypeOK
  <2> QED  BY <1>1, <1>2, <2>1 DEF RoleInv, TypeOK
<1>9. CASE StealEnd(s)
  <2>1. /\ UNCHANGED next_writer_id /\ pc'[s] = "loop"
        /\ \A u \in Scanners \ {s} : dest_thread'[u] = dest_thread[u]
    BY <1>1, <1>9 DEF StealEnd, TypeOK
  <2> QED  BY <1>1, <1>2, <2>1 DEF RoleInv, TypeOK
<1>10. CASE StealOverlap(s)
  <2>1. UNCHANGED <<pc, next_writer_id, dest_thread>>
    BY <1>10 DEF StealOverlap
  <2> QED  BY <1>1, <1>2, <2>1 DEF RoleInv
<1> QED  BY <1>3, <1>4, <1>5, <1>6, <1>7, <1>8, <1>9, <1>10 DEF ScannerStep

(* The only things of alert mode it changes are a queue it is a party to   *)
(* and its next target.                                                    *)
LEMMA ScannerKeepsAlerted ==
  ASSUME IInv, NEW s \in Scanners, ScannerStep(s), UNCHANGED managerLocals
  PROVE  Alerted'
<1> USE DEF managerLocals, counts, modes
<1>1. TypeOK /\ Alerted
  BY DEF IInv, Alerted
<1>2. /\ UNCHANGED <<counts, modes, useLock, queueState, targetsFreed>>
      /\ stopped => stopped'
  BY <1>1, ScannerMoves DEF stopping, StopAll
<1>3. Ded' = Ded /\ Reg' = Reg /\ Filled' = Filled /\ Published' = Published /\ Assigned' = Assigned
  BY <1>2 DEF Ded, Reg, Filled, Published, Assigned
<1>4. UNCHANGED next_target => CalmInv' /\ MatrixInv'
  BY <1>1, <1>2, <1>3 DEF Alerted, CalmInv, MatrixInv
<1>5. GroupInv' /\ SwitchInv'
  BY <1>1, <1>2, <1>3 DEF Alerted, GroupInv, SwitchInv, Switched, LockRight, Locked
<1>6. UNCHANGED queue => QueueInv'
  BY <1>1, <1>2, <1>3 DEF Alerted, QueueInv
<1>7. CASE Poll(s)
  <2>1. UNCHANGED next_target
    BY <1>7 DEF Poll, targets
  <2>2. \A wd \in Pairs : queue'[wd] # <<>> => queue[wd] # <<>>
    BY <1>1, <1>7 DEF Poll, TypeOK
  <2>3. QueueInv'
    BY <1>1, <1>2, <1>3, <2>2 DEF Alerted, QueueInv, Pairs
  <2> QED  BY <1>4, <1>5, <2>1, <2>3 DEF Alerted
<1>8. CASE PickTarget(s)
  <2>1. /\ Published /\ s >= Ded /\ (next_target[s] + Reg) % Ded \in 0 .. Ded - 1
        /\ next_target' = [next_target EXCEPT ![s] = (next_target[s] + Reg) % Ded]
    BY <1>8, Targets DEF PickTarget, Ded, Reg
  <2>2. CalmInv'
    BY <1>1, <1>2, <1>3, <2>1 DEF Alerted, CalmInv, Published
  <2>3. MatrixInv'
    BY <1>1, <1>2, <1>3, <2>1 DEF Alerted, MatrixInv, Published, Assigned, TypeOK
  <2>4. UNCHANGED queue
    BY <1>8 DEF PickTarget, matrix
  <2> QED  BY <1>5, <1>6, <2>2, <2>3, <2>4 DEF Alerted
<1>9. CASE EnqueueHeavy(s)
  <2>1. UNCHANGED next_target
    BY <1>9 DEF EnqueueHeavy, targets
  <2>2. /\ Published /\ s >= Ded /\ dest_thread[s] < Ded /\ queueState[<<s, dest_thread[s]>>] = "live"
    BY <1>9, Partner, Numbers, <1>1 DEF EnqueueHeavy
  <2>3. \A wd \in Pairs : wd # <<s, dest_thread[s]>> => queue'[wd] = queue[wd]
    BY <1>1, <1>9 DEF EnqueueHeavy, PutHeavy, TypeOK
  <2>4. QueueInv'
    BY <1>1, <1>2, <1>3, <2>2, <2>3 DEF Alerted, QueueInv, Pairs
  <2> QED  BY <1>4, <1>5, <2>1, <2>4 DEF Alerted
<1>10. CASE ~ Poll(s) /\ ~ PickTarget(s) /\ ~ EnqueueHeavy(s)
  <2>1. UNCHANGED <<queue, next_target>>
    BY <1>10 DEF ScannerStep, Loop, ReadOwn, BeginOwn, UnlinkOwn, Fallback, Check, Match, MatchTable,
       StealTake, StealOverlap, StealPut, StealEnd, ScannerDone, Crash, matrix, targets
  <2> QED  BY <1>4, <1>5, <1>6, <2>1 DEF Alerted
<1> QED  BY <1>7, <1>8, <1>9, <1>10

(* What a scanner stops, it stops for all at once. *)
LEMMA ScannerKeepsStop ==
  ASSUME IInv, NEW s \in Scanners, ScannerStep(s), UNCHANGED managerLocals
  PROVE  StopInv'
<1> USE DEF managerLocals, counts, stopping
<1>1. /\ pc[s] # "gone" /\ UNCHANGED <<counts, queueState, targetsFreed>>
      /\ UNCHANGED stopping \/ StopAll
  BY ScannerMoves DEF IInv
<1>2. ~ AllGone /\ (Freeing' <=> Freeing)
  BY <1>1 DEF AllGone, Freeing
<1>3. CASE StopAll
  BY <1>1, <1>2, <1>3 DEF IInv, StopInv, StopAll, AllDone
<1>4. CASE UNCHANGED stopping
  BY <1>1, <1>2, <1>4 DEF IInv, StopInv, AllDone
<1> QED  BY <1>1, <1>3, <1>4

(* It dies of a freed queue or target, or of a target it never got: every  *)
(* queue between a regular and a dedicated thread was made.                *)
LEMMA ScannerKeepsCrash ==
  ASSUME IInv, NEW s \in Scanners, ScannerStep(s), UNCHANGED managerLocals
  PROVE  CrashInv'
<1>1. pc[s] # "gone" /\ (UNCHANGED stopping \/ StopAll)
  BY ScannerMoves DEF IInv
<1>2. stopped /\ AllDone => stopped' /\ AllDone'
  BY <1>1 DEF AllDone, stopping, StopAll
<1>3. CASE Crash(s)
  <2>1. \/ crashed' = "no_target"
        \/ crashed' = "freed" /\ targetsFreed
        \/ \E w, d \in Scanners : /\ crashed' = queueState[<<w, d>>] /\ crashed' # "live"
                                  /\ Published /\ w >= Ded /\ d < Ded
    <3>1. CASE pc[s] = "transfer"
      BY <1>3, <3>1 DEF Crash
    <3>2. CASE pc[s] = "enqueue"
      <4>1. /\ dest_thread[s] \in Scanners /\ Published /\ s >= Ded /\ dest_thread[s] < Ded
        BY <3>2, Partner, Numbers DEF IInv
      <4> QED  BY <1>3, <3>2, <4>1 DEF Crash
    <3>3. CASE pc[s] = "poll"
      BY <1>3, <3>3, Polled, Numbers DEF Crash, IInv
    <3> QED  BY <1>3, <3>1, <3>2, <3>3 DEF Crash
  <2>2. \A w, d \in Scanners : Published /\ w >= Ded /\ d < Ded => queueState[<<w, d>>] \in {"live", "freed"}
    BY DEF IInv, MatrixInv, Published, Assigned, TypeOK, Pairs
  <2>3. crashed' \in {"no_target", "freed"} /\ (crashed' = "freed" => Freeing)
    BY <2>1, <2>2 DEF Freeing, Pairs
  <2>4. Freeing => stopped /\ AllDone
    BY <1>1 DEF IInv, StopInv, AllGone
  <2> QED  BY <1>2, <2>3, <2>4 DEF CrashInv
<1>4. CASE ~ Crash(s)
  <2>1. crashed' \in {crashed, "overlap"}
    BY <1>4 DEF ScannerStep, Loop, ReadOwn, BeginOwn, UnlinkOwn, Poll, Fallback, Check, Match, MatchTable,
       PickTarget, EnqueueHeavy, StealTake, StealOverlap, StealPut, StealEnd, ScannerDone
  <2> QED  BY <1>2, <2>1 DEF IInv, CrashInv
<1> QED  BY <1>3, <1>4

-----------------------------------------------------------------------------
(* The manager's step. *)

(* It leaves the scanners' locals alone, and takes no flag of theirs back; *)
(* once the counts are published it does not change them again.            *)
LEMMA ManagerMoves ==
  ASSUME IInv, ManagerStep
  PROVE  /\ mpc # "off" /\ UNCHANGED <<scannerLocals, scanners_done>>
         /\ stopped => stopped'
         /\ \A s \in Scanners : done[s] => done'[s]
         /\ \A s \in Scanners : alert_mode_active[s] => alert_mode_active'[s]
         /\ alert_mode_used => alert_mode_used'
         /\ Published => Published' /\ Ded' = Ded /\ Reg' = Reg
<1> USE DEF MGoto, stopping, counts, modes, Ded, Reg, Published, Filled, scannerSide
<1>1. TypeOK
  BY DEF IInv
<1>2. mpc = "prepare" => ~ alert_mode_used
  BY DEF IInv, MatrixInv
<1>3. CASE Watch \/ CountDone \/ Prepare \/ OverrunMatrix
  <2>1. CASE Watch
    BY <2>1 DEF Watch
  <2>2. CASE CountDone
    BY <1>1, <2>2 DEF CountDone, TypeOK
  <2>3. CASE Prepare
    BY <1>2, <2>3 DEF Prepare
  <2>4. CASE OverrunMatrix
    BY <2>4 DEF OverrunMatrix, managerLocals
  <2> QED  BY <1>3, <2>1, <2>2, <2>3, <2>4
<1>4. CASE PublishRegular \/ PublishDedicated
  BY <1>4 DEF PublishRegular, PublishDedicated
<1>5. CASE SwitchLock \/ SwitchType \/ SwitchMode
  BY <1>1, <1>5 DEF SwitchLock, SwitchType, SwitchMode, TypeOK
<1>6. CASE RegularsDone \/ StopDedicated \/ InputsEmpty
  BY <1>1, <1>6 DEF RegularsDone, StopDedicated, InputsEmpty, TypeOK
<1>7. CASE Stop \/ StopNext
  BY <1>1, <1>7 DEF Stop, StopNext, TypeOK
<1>8. CASE AlertLoop \/ FreeTargets \/ Drain \/ FreeQueue
  BY <1>8 DEF AlertLoop, FreeTargets, Drain, FreeQueue
<1> QED  BY <1>3, <1>4, <1>5, <1>6, <1>7, <1>8 DEF ManagerStep

(* So nothing changes for what the scanners have in hand. *)
LEMMA ManagerKeepsScanners ==
  ASSUME IInv, ManagerStep, UNCHANGED <<readerVars, main, nth>>
  PROVE  MainInv' /\ PacketInv' /\ DoneInv' /\ RoleInv'
<1>1. /\ mpc # "off" /\ UNCHANGED <<pc, packet, next_packet, dest_thread, next_writer_id, scanners_done>>
      /\ \A s \in Scanners : alert_mode_active[s] => alert_mode_active'[s]
      /\ Published => Published' /\ Ded' = Ded
  BY ManagerMoves DEF scannerLocals, stealing, polling
<1>2. MainInv' /\ PacketInv' /\ DoneInv'
  BY <1>1 DEF IInv, MainInv, PacketInv, DoneInv, AllGone
<1>3. \A s \in Scanners : alert_mode_active[s] => Published
  BY PublishedFacts
<1>4. RoleInv'
  BY <1>1, <1>3 DEF IInv, RoleInv
<1> QED  BY <1>2, <1>4

(* Steps that switch nothing on or off, whatever they tell the scanners.   *)
LEMMA ManagerLoops ==
  ASSUME IInv, Watch \/ CountDone \/ RegularsDone \/ StopDedicated \/ InputsEmpty \/ Stop
                \/ StopNext \/ AlertLoop
  PROVE  Alerted'
<1> USE DEF MGoto, counts, modes, matrix, targets, lists, stopping
<1>1. /\ UNCHANGED <<queue, queueState, next_target, targetsFreed, useLock, counts, modes>>
      /\ mpc' \notin {"switch_type", "switch_mode", "publish", "publish_dedicated", "off"}
      /\ mpc \notin {"publish", "publish_dedicated"}
      /\ mpc' = "prepare" => mpc = "watch" /\ ~ stopped /\ mi' \in 1 .. MaxWorkGroups
      /\ mpc' \in {"watch", "count", "gone"} => mpc \in {"watch", "count"}
      /\ mpc \in {"watch", "count"} => mpc' \in {"watch", "count", "gone", "prepare"}
  BY DEF Watch, CountDone, RegularsDone, StopDedicated, InputsEmpty, Stop, StopNext, AlertLoop
<1>2. stopped => stopped'
    BY DEF Watch, CountDone, RegularsDone, StopDedicated, InputsEmpty, Stop, StopNext, AlertLoop
<1>3. Ded' = Ded /\ Reg' = Reg /\ ~ Filled' /\ ~ Filled /\ Published' = Published /\ Assigned' = Assigned
  BY <1>1 DEF Ded, Reg, Filled, Published, Assigned
<1>4. \A d : LockRight(d)' = LockRight(d)
  BY <1>1 DEF LockRight, Locked, Ded, Reg
<1>5. mpc \in {"watch", "count"} \/ alert_mode_used
  BY DEF IInv, CalmInv, Watch, CountDone, RegularsDone, StopDedicated, InputsEmpty, Stop, StopNext, AlertLoop
<1>6. CalmInv'
  BY <1>1, <1>3, <1>5 DEF IInv, CalmInv
<1>7. MatrixInv'
  BY <1>1, <1>2, <1>3 DEF IInv, MatrixInv
<1>8. GroupInv'
  BY <1>1 DEF IInv, GroupInv
<1>9. SwitchInv'
  BY <1>1, <1>3, <1>4 DEF IInv, SwitchInv, Switched
<1>10. QueueInv'
  BY <1>1, <1>3 DEF IInv, QueueInv
<1> QED  BY <1>6, <1>7, <1>8, <1>9, <1>10 DEF Alerted

(* The matrix is filled, for as many dedicated threads as will be assigned. *)
LEMMA PrepareKeepsAlerted ==
  ASSUME IInv, Prepare
  PROVE  Alerted'
<1> USE DEF MGoto, modes, Ded, Reg
<1> DEFINE ded == mi * WorkGroupSize
<1>1. TypeOK
  BY DEF IInv
<1>2. ded \in 1 .. NumScanners
  <2>1. mi \in Nat \ {0} /\ WorkGroupSize \in Nat \ {0} /\ ded <= NumScanners
    BY <1>1, SystemAssumption DEF Prepare, IInv, GroupInv, TypeOK
  <2>2. ded \in Nat /\ ded > 0
    BY <2>1
  <2> QED  BY <2>1, <2>2, SystemAssumption
<1>3. /\ ~ alert_mode_used /\ Ded = 0 /\ Reg = NumScanners
      /\ \A s \in Scanners : next_target[s] = Undefined /\ ~ alert_mode_active[s] /\ isTableMachine[s]
  BY DEF Prepare, IInv, MatrixInv, CalmInv
<1>4. \A w, d \in Scanners : queue[<<w, d>>] = <<>>
  BY <1>3 DEF IInv, QueueInv, Published
<1>5. /\ alert_mode_used' /\ Filled' /\ ~ Published' /\ Assigned' = ded /\ mpc' = "publish" /\ mi' = mi
      /\ UNCHANGED <<Ded, Reg, modes, queue>>
  BY DEF Prepare, Filled, Published, Assigned
<1>6. \A s \in Scanners : next_target'[s] # Undefined =>
        s >= ded /\ next_target'[s] \in 0 .. ded - 1
  <2> SUFFICES ASSUME NEW s \in Scanners, next_target'[s] # Undefined
               PROVE  s >= ded /\ next_target'[s] \in 0 .. ded - 1
    OBVIOUS
  <2>1. s >= ded /\ next_target'[s] = (s - ded) % ded
    BY <1>3 DEF Prepare, Producer
  <2>2. s - ded \in Nat
    BY <1>2, <2>1 DEF Scanners
  <2>3. (s - ded) % ded \in 0 .. ded - 1
    BY <1>2, <2>2
  <2> QED  BY <2>1, <2>3
<1>7. \A w, d \in Scanners : w >= ded /\ d < ded => queueState'[<<w, d>>] # "null"
  BY DEF Prepare, Producer, Pairs
<1> HIDE DEF ded
<1>8. MatrixInv'
  BY <1>2, <1>3, <1>5, <1>6, <1>7 DEF MatrixInv
<1>9. CalmInv' /\ GroupInv' /\ SwitchInv'
  BY <1>3, <1>5 DEF CalmInv, GroupInv, SwitchInv
<1>10. QueueInv'
  BY <1>4, <1>5 DEF QueueInv
<1> QED  BY <1>8, <1>9, <1>10 DEF Alerted

(* Line 114: nobody asks for the number of regular threads who does not    *)
(* have an alert machine or mode.                                          *)
LEMMA PublishRegularKeepsAlerted ==
  ASSUME IInv, PublishRegular
  PROVE  Alerted'
<1> USE DEF MGoto, modes, matrix, targets, Ded
<1>1. Filled /\ alert_mode_used /\ mpc = "publish"
  BY DEF PublishRegular, Filled, IInv, CalmInv
<1>2. /\ UNCHANGED <<queue, queueState, next_target, targetsFreed, modes, alert_mode_used, Ded, mi>>
      /\ mpc' = "publish_dedicated" /\ Filled' /\ ~ Published' /\ ~ Published
      /\ Assigned' = Assigned /\ Reg' = NumScanners - Assigned
  BY <1>1 DEF PublishRegular, Filled, Published, Assigned, Reg
<1>3. MatrixInv'
  BY <1>1, <1>2 DEF IInv, MatrixInv
<1>4. CalmInv' /\ GroupInv'
  BY <1>1, <1>2 DEF CalmInv, GroupInv
<1>5. SwitchInv'
  BY <1>1, <1>2 DEF IInv, MatrixInv, SwitchInv
<1>6. QueueInv'
  BY <1>2 DEF IInv, QueueInv
<1> QED  BY <1>3, <1>4, <1>5, <1>6 DEF Alerted

(* Line 115. *)
LEMMA PublishDedicatedKeepsAlerted ==
  ASSUME IInv, PublishDedicated
  PROVE  Alerted'
<1> USE DEF MGoto, modes, matrix, targets, Reg
<1>1. Filled /\ alert_mode_used /\ mpc = "publish_dedicated"
  BY DEF PublishDedicated, Filled, IInv, CalmInv
<1>2. /\ UNCHANGED <<queue, queueState, next_target, targetsFreed, modes, alert_mode_used, Reg>>
      /\ mpc' = "switch_type" /\ mi' = 0 /\ mj' = 0 /\ ~ Filled' /\ Published' /\ ~ Published
      /\ Ded' = Assigned /\ Assigned' = Assigned
  BY <1>1 DEF PublishDedicated, Filled, Published, Assigned, Ded
<1>3. MatrixInv'
  BY <1>1, <1>2 DEF IInv, MatrixInv
<1>4. CalmInv' /\ GroupInv'
  BY <1>1, <1>2 DEF CalmInv, GroupInv
<1>5. /\ 0 \in Scanners /\ \A d \in Scanners : ~ (d < 0)
      /\ \A s \in Scanners : ~ alert_mode_active[s] /\ isTableMachine[s]
  BY <1>1, SystemAssumption DEF IInv, MatrixInv, Scanners
<1>6. SwitchInv'
  BY <1>2, <1>5 DEF SwitchInv
<1>7. QueueInv'
  BY <1>2 DEF IInv, QueueInv
<1> QED  BY <1>3, <1>4, <1>6, <1>7 DEF Alerted

(* Lines 118-134 go through the scanners in order, so that no scanner is   *)
(* in alert mode before every dedicated thread up to it was switched.      *)
LEMMA SwitchKeepsAlerted ==
  ASSUME IInv, SwitchLock \/ SwitchType \/ SwitchMode
  PROVE  Alerted'
<1> USE DEF MGoto, modes, counts, matrix, targets, lists
<1>1. TypeOK /\ NumScanners \in Nat \ {0} /\ Scanners = 0 .. NumScanners - 1 /\ Ded \in Nat
  BY Numbers DEF IInv
<1>2. /\ UNCHANGED <<queue, queueState, next_target, targetsFreed, counts>>
      /\ mpc \in {"switch_type", "switch_mode"} /\ mpc' \in {"switch_type", "switch_mode", "regulars_done"}
      /\ ~ Filled /\ ~ Filled' /\ Published' = Published /\ Ded' = Ded /\ Reg' = Reg /\ Assigned' = Assigned
  BY DEF SwitchLock, SwitchType, SwitchMode, Filled, Published, Ded, Reg, Assigned
<1>3. alert_mode_used /\ Published /\ mi \in Scanners
  BY <1>2 DEF IInv, CalmInv, SwitchInv, Published
<1>4. CalmInv' /\ MatrixInv' /\ GroupInv' /\ QueueInv'
  BY <1>2, <1>3 DEF IInv, CalmInv, MatrixInv, GroupInv, QueueInv
<1>5. \A d : Locked(d)' = Locked(d)
  BY <1>2 DEF Locked
<1>6. CASE SwitchLock
  <2>1. /\ UNCHANGED modes /\ mi' = mi /\ mj' = 1 /\ mpc' = "switch_type" /\ mpc = "switch_type"
        /\ \A d \in Scanners \ {mi} : useLock'[d] = useLock[d]
        /\ useLock'[mi] = IF Locked(mi) THEN 1 ELSE 0
    BY <1>1, <1>3, <1>6 DEF SwitchLock, TypeOK
  <2>2. LockRight(mi)' /\ \A d \in Scanners \ {mi} : LockRight(d)' = LockRight(d)
    BY <1>5, <2>1 DEF LockRight
  <2>3. SwitchInv'
    BY <1>1, <1>2, <1>3, <2>1, <2>2 DEF IInv, SwitchInv, Switched
  <2> QED  BY <1>4, <2>3 DEF Alerted
<1>7. CASE SwitchType
  <2>1. /\ UNCHANGED <<alert_mode_active, useLock>> /\ mi' = mi /\ mpc' = "switch_mode" /\ mpc = "switch_type"
        /\ mj = 1 /\ \A d \in Scanners \ {mi} : isTableMachine'[d] = isTableMachine[d]
        /\ isTableMachine'[mi] <=> mi >= Ded
    BY <1>1, <1>3, <1>7 DEF SwitchType, TypeOK
  <2>2. \A d \in Scanners : LockRight(d)' = LockRight(d)
    BY <1>5, <2>1 DEF LockRight
  <2>3. SwitchInv'
    BY <1>1, <1>2, <1>3, <2>1, <2>2 DEF IInv, SwitchInv, Switched
  <2> QED  BY <1>4, <2>3 DEF Alerted
<1>8. CASE SwitchMode
  <2>1. /\ UNCHANGED <<isTableMachine, useLock>> /\ mpc = "switch_mode" /\ mj' = 0
        /\ \A s \in Scanners : alert_mode_active'[s] => alert_mode_active[s] \/ s = mi
        /\ \/ mpc' = "switch_type" /\ mi' = mi + 1 /\ mi + 1 \in Scanners
           \/ mpc' = "regulars_done"
    BY <1>1, <1>3, <1>8 DEF SwitchMode, TypeOK
  <2>2. \A d \in Scanners : Switched(d)' = Switched(d)
    BY <1>2, <1>5, <2>1 DEF Switched, LockRight
  <2>3. \A d \in Scanners : d <= mi => Switched(d)
    BY <2>1 DEF IInv, SwitchInv
  <2>4. \A s \in Scanners : alert_mode_active[s] => s < mi
    BY <2>1 DEF IInv, SwitchInv
  <2>5. SwitchInv'
    BY <1>1, <1>2, <1>3, <2>1, <2>2, <2>3, <2>4 DEF IInv, SwitchInv
  <2> QED  BY <1>4, <2>5 DEF Alerted
<1> QED  BY <1>6, <1>7, <1>8

(* Lines 214-251 only take from the queues, and free what was made. *)
LEMMA FreeKeepsAlerted ==
  ASSUME IInv, FreeTargets \/ Drain \/ FreeQueue
  PROVE  Alerted'
<1> USE DEF MGoto, modes, counts, targets, lists, stopping
<1>1. TypeOK
  BY DEF IInv
<1>2. /\ UNCHANGED <<next_target, useLock, counts, modes, stopped>>
      /\ mpc \in {"free_targets", "drain", "free_queue"} /\ mpc' \in {"drain", "free_queue", "count"}
  BY DEF FreeTargets, Drain, FreeQueue
<1>3. alert_mode_used /\ stopped /\ Published /\ ~ Filled /\ ~ Filled'
  BY <1>2 DEF IInv, StopInv, Freeing, Published, Filled
<1>4. Ded' = Ded /\ Reg' = Reg /\ Published' = Published /\ Assigned' = Assigned
  BY <1>2, <1>3 DEF Ded, Reg, Published, Assigned
<1>5. \A d : LockRight(d)' = LockRight(d)
  BY <1>2, <1>4 DEF LockRight, Locked
<1>6. \A wd \in Pairs : /\ queueState'[wd] = queueState[wd] \/ (queueState'[wd] = "freed" /\ queue'[wd] = <<>>)
                        /\ queue'[wd] = queue[wd] \/ queue'[wd] = <<>>
  <2>1. CASE FreeTargets
    BY <2>1 DEF FreeTargets, matrix
  <2>2. CASE Drain
    BY <1>1, <2>2 DEF Drain, TypeOK
  <2>3. CASE FreeQueue
    BY <1>1, <2>3 DEF FreeQueue, TypeOK
  <2> QED  BY <2>1, <2>2, <2>3
<1>7. CalmInv' /\ GroupInv'
  BY <1>2, <1>3 DEF CalmInv, GroupInv
<1>8. MatrixInv'
  BY <1>2, <1>3, <1>4, <1>6 DEF IInv, MatrixInv, Pairs
<1>9. SwitchInv'
  BY <1>2, <1>4, <1>5 DEF IInv, SwitchInv, Switched
<1>10. QueueInv'
  BY <1>4, <1>6 DEF IInv, QueueInv, Pairs
<1> QED  BY <1>7, <1>8, <1>9, <1>10 DEF Alerted

(* Every step of the manager. *)
LEMMA ManagerKeepsAlerted ==
  ASSUME IInv, ManagerStep
  PROVE  Alerted'
<1>1. CASE OverrunMatrix
  BY <1>1, AlertedKept DEF OverrunMatrix, Alerted, IInv, matrix, targets, lists, stopping
<1> QED  BY <1>1, ManagerLoops, PrepareKeepsAlerted, PublishRegularKeepsAlerted,
            PublishDedicatedKeepsAlerted, SwitchKeepsAlerted, FreeKeepsAlerted DEF ManagerStep

(* The manager sees stopped only after it has told the scanners, or they   *)
(* have, or all have gone.                                                 *)
LEMMA ManagerKeepsStop ==
  ASSUME IInv, ManagerStep
  PROVE  StopInv'
<1> USE DEF MGoto, stopping, counts, matrix, targets
<1>1. TypeOK
  BY DEF IInv
<1>2. /\ UNCHANGED pc /\ (stopped => stopped') /\ (alert_mode_used => alert_mode_used')
      /\ (AllDone => AllDone') /\ (AllGone => AllGone')
  BY ManagerMoves DEF scannerLocals, AllDone, AllGone
<1>3. CASE Stop
  <2>1. /\ mpc' = "stop_all" /\ mi' = 0 /\ stopped' /\ alert_mode_used
        /\ UNCHANGED <<queueState, targetsFreed>> /\ mpc = "stop"
    BY <1>3 DEF Stop, IInv, CalmInv
  <2>2. 0 \in Scanners /\ \A s \in Scanners : ~ (s < 0)
    BY SystemAssumption DEF Scanners
  <2> QED  BY <1>2, <2>1, <2>2 DEF IInv, StopInv, Freeing
<1>4. CASE StopNext
  <2>1. /\ UNCHANGED <<stopped, alert_mode_used, queueState, targetsFreed>>
        /\ mpc = "stop_all" /\ stopped /\ mi \in Scanners /\ \A s \in Scanners : s < mi => done[s]
    BY <1>4 DEF StopNext, IInv, StopInv
  <2>2. \A s \in Scanners : s <= mi => done'[s]
    BY <1>1, <1>4, <2>1 DEF StopNext, TypeOK, Scanners
  <2>3. \/ mpc' = "stop_all" /\ mi' = mi + 1 /\ mi + 1 \in Scanners
        \/ mpc' = "alert" /\ AllDone'
    BY <1>4, <2>1, <2>2, SystemAssumption DEF StopNext, Scanners, AllDone
  <2>4. \A s \in Scanners : s < mi + 1 => s <= mi
    BY <2>1 DEF Scanners
  <2> QED  BY <1>2, <2>1, <2>2, <2>3, <2>4 DEF IInv, StopInv, Freeing
<1>5. CASE CountDone
  <2>1. /\ mpc = "count" /\ mpc' = "watch" /\ UNCHANGED <<alert_mode_used, queueState, targetsFreed>>
        /\ stopped' => stopped \/ scanners_done = NumScanners
    BY <1>1, <1>5 DEF CountDone, TypeOK
  <2>2. scanners_done = NumScanners => AllGone
    BY CountGone DEF IInv, DoneInv, AllGone
  <2> QED  BY <1>2, <2>1, <2>2 DEF IInv, StopInv, Freeing
<1>6. CASE Watch
  <2>1. /\ UNCHANGED <<stopped, alert_mode_used, queueState, targetsFreed>> /\ mpc = "watch"
        /\ mpc' \in {"gone", "count", "prepare"} /\ (stopped => mpc' = "gone")
    BY <1>6 DEF Watch
  <2> QED  BY <1>2, <2>1 DEF IInv, StopInv, Freeing
<1>7. CASE OverrunMatrix
  BY <1>2, <1>7 DEF OverrunMatrix, managerLocals, IInv, StopInv, Freeing, AllDone
<1>8. CASE Prepare
  <2>1. /\ UNCHANGED <<stopped, targetsFreed>> /\ mpc = "prepare" /\ mpc' = "publish"
        /\ \A wd \in Pairs : queueState'[wd] = "freed" => queueState[wd] = "freed"
    BY <1>8 DEF Prepare
  <2> QED  BY <1>2, <2>1 DEF IInv, StopInv, Freeing
<1>9. CASE AlertLoop
  <2>1. /\ UNCHANGED <<stopped, alert_mode_used, queueState, targetsFreed>> /\ mpc = "alert"
        /\ mpc' \in {"free_targets", "regulars_done"} /\ (mpc' = "free_targets" => stopped)
        /\ alert_mode_used
    BY <1>9 DEF AlertLoop, IInv, CalmInv
  <2> QED  BY <1>2, <2>1 DEF IInv, StopInv, Freeing
<1>10. CASE FreeTargets \/ Drain \/ FreeQueue
  <2>1. /\ UNCHANGED <<stopped, alert_mode_used>> /\ mpc \in {"free_targets", "drain", "free_queue"}
        /\ mpc' \in {"drain", "free_queue", "count"}
    BY <1>10 DEF FreeTargets, Drain, FreeQueue
  <2> QED  BY <1>2, <2>1 DEF IInv, StopInv, Freeing
<1>11. CASE PublishRegular \/ PublishDedicated \/ SwitchLock \/ SwitchType \/ SwitchMode
  <2>1. /\ UNCHANGED <<stopped, queueState, targetsFreed>> /\ mpc \notin {"watch", "gone", "stop_all"}
        /\ mpc' \in {"publish_dedicated", "switch_type", "switch_mode", "regulars_done"}
    BY <1>11 DEF PublishRegular, PublishDedicated, SwitchLock, SwitchType, SwitchMode
  <2> QED  BY <1>2, <2>1 DEF IInv, StopInv, Freeing
<1>12. CASE RegularsDone \/ StopDedicated \/ InputsEmpty
  <2>1. /\ UNCHANGED <<stopped, queueState, targetsFreed>> /\ mpc \notin {"watch", "gone", "stop_all"}
        /\ mpc' \in {"stop_dedicated", "inputs_empty", "stop", "alert"}
    BY <1>12 DEF RegularsDone, StopDedicated, InputsEmpty
  <2> QED  BY <1>2, <2>1 DEF IInv, StopInv, Freeing
<1> QED  BY <1>3, <1>4, <1>5, <1>6, <1>7, <1>8, <1>9, <1>10, <1>11, <1>12 DEF ManagerStep

(* It dies only of work groups that are more than the threads. *)
LEMMA ManagerKeepsCrash ==
  ASSUME IInv, ManagerStep
  PROVE  CrashInv'
<1>1. (stopped => stopped') /\ (AllDone => AllDone')
  BY ManagerMoves DEF AllDone
<1>2. CASE OverrunMatrix
  <2>1. /\ crashed' = "matrix" /\ mi * WorkGroupSize > NumScanners
        /\ mi \in Nat /\ mi <= MaxWorkGroups
    BY <1>2 DEF OverrunMatrix, IInv, GroupInv
  <2>2. mi * WorkGroupSize + (MaxWorkGroups - mi) * WorkGroupSize = MaxWorkGroups * WorkGroupSize
    BY <2>1, SystemAssumption
  <2>3. (MaxWorkGroups - mi) * WorkGroupSize >= 0
    BY <2>1, SystemAssumption
  <2>4. MaxWorkGroups * WorkGroupSize > NumScanners
    <3> DEFINE used == mi * WorkGroupSize
               rest == (MaxWorkGroups - mi) * WorkGroupSize
    <3>1. used \in Int /\ rest \in Int /\ NumScanners \in Int
      BY <2>1, SystemAssumption
    <3> HIDE DEF used, rest
    <3>2. used + rest > NumScanners
      BY <2>1, <2>3, <3>1 DEF used, rest
    <3> QED  BY <2>2, <3>2 DEF used, rest
  <2> QED  BY <2>1, <2>4 DEF CrashInv
<1>3. CASE ~ OverrunMatrix
  <2>1. crashed' = crashed
    BY <1>3 DEF ManagerStep, scannerSide, Watch, CountDone, Prepare, PublishRegular, PublishDedicated,
       SwitchLock, SwitchType, SwitchMode, RegularsDone, StopDedicated, InputsEmpty, Stop, StopNext,
       AlertLoop, FreeTargets, Drain, FreeQueue
  <2> QED  BY <1>1, <2>1 DEF IInv, CrashInv
<1> QED  BY <1>2, <1>3

-----------------------------------------------------------------------------
(* The reader's step fills or closes lists, and no more. *)
LEMMA ReaderKeepsInv ==
  ASSUME IInv, ReaderStep, UNCHANGED <<managerLocals, main, nth>>
  PROVE  IInv'
<1>1. UNCHANGED <<useLock, free_queue, matrix, targets, counts, scanners_done, stopping, modes,
                  scannerLocals, crashed>>
  BY DEF ReaderStep, ReadPacket, EndOfTrace, unreadable
<1> USE <1>1 DEF matrix, targets, counts, stopping, modes, scannerLocals, stealing, polling, managerLocals
<1>2. Alerted'
  BY AlertedKept DEF IInv, Alerted
<1>3. MainInv' /\ PacketInv' /\ DoneInv' /\ CrashInv'
  BY DEF IInv, MainInv, PacketInv, DoneInv, CrashInv, AllGone, AllDone
<1>4. Ded' = Ded /\ Published' = Published
  BY DEF Ded, Published, Filled
<1>5. RoleInv'
  BY <1>4 DEF IInv, RoleInv
<1>6. StopInv'
  BY DEF IInv, StopInv, Freeing, AllDone, AllGone
<1>7. TypeOK'
  BY ReaderKeepsType
<1> QED  BY <1>2, <1>3, <1>5, <1>6, <1>7 DEF IInv, Alerted

(* Main starts threads that are not there yet, and says stop when none of  *)
(* the scanners is there any more.                                         *)
LEMMA MainKeepsInv ==
  ASSUME IInv, MainThread
  PROVE  IInv'
<1> USE DEF shared, lists, matrix, targets, counts, stopping, modes, scannerLocals, stealing, polling, readerVars
<1>1. TypeOK /\ TypeOK'
  BY MainKeepsType DEF IInv
<1>2. NumScanners \in Nat \ {0} /\ Scanners = 0 .. NumScanners - 1 /\ nth \in Scanners
  BY <1>1, Numbers DEF TypeOK
<1>3. /\ UNCHANGED <<lists, matrix, targets, counts, modes, scanners_done, done, crashed>>
      /\ UNCHANGED <<packet, next_packet, dest_thread, next_writer_id>> /\ (stopped => stopped')
  BY DEF MainThread, StartReader, StartManager, StartScanner, JoinScanner, StopManager, JoinManager
<1>4. CrashInv'
  BY <1>3 DEF IInv, CrashInv, AllDone
<1>5. ~ StartManager => UNCHANGED managerLocals
  BY DEF MainThread, StartReader, StartScanner, JoinScanner, StopManager, JoinManager
<1>6. CASE StartManager
  <2>1. /\ UNCHANGED <<pc, stopped, nth>> /\ mpc' = "watch" /\ mpc = "off" /\ main' = "start"
        /\ ~ alert_mode_used /\ ~ stopped /\ nth = 0 /\ \A s \in Scanners : s >= nth => pc[s] = "off"
    BY <1>6 DEF StartManager, managerLocals, IInv, MainInv
  <2>2. ~ Published /\ ~ Published' /\ Ded' = Ded /\ Reg' = Reg
    BY <1>3, <2>1 DEF Published, Filled, Ded, Reg
  <2>3. \A d : LockRight(d)' = LockRight(d)
    BY <1>3, <2>2 DEF LockRight, Locked
  <2>4. MainInv' /\ PacketInv' /\ DoneInv'
    BY <1>3, <2>1 DEF IInv, MainInv, PacketInv, DoneInv
  <2>5. CalmInv' /\ MatrixInv' /\ GroupInv'
    BY <1>3, <2>1, <2>2 DEF IInv, CalmInv, MatrixInv, GroupInv
  <2>6. SwitchInv'
    BY <1>3, <2>1, <2>2, <2>3 DEF IInv, SwitchInv, Switched
  <2>7. RoleInv' /\ QueueInv'
    BY <1>3, <2>1, <2>2 DEF IInv, RoleInv, QueueInv
  <2>8. StopInv'
    BY <1>3, <2>1 DEF IInv, StopInv, Freeing
  <2> QED  BY <1>1, <1>4, <2>4, <2>5, <2>6, <2>7, <2>8 DEF IInv
<1>7. CASE ~ StartManager
  <2>1. /\ Alerted' /\ Ded' = Ded /\ Published' = Published
    BY <1>3, <1>5, <1>7, AlertedKept DEF IInv, Alerted, Ded, Published, Filled, managerLocals
  <2>2. CASE StartScanner
    <3>1. /\ main = "start" /\ pc[nth] = "off" /\ pc'[nth] = "loop" /\ UNCHANGED stopped
          /\ \A s \in Scanners \ {nth} : pc'[s] = pc[s]
      BY <1>1, <1>2, <2>2 DEF StartScanner, IInv, MainInv, TypeOK
    <3>2. MainInv'
      BY <1>1, <1>2, <2>2, <3>1 DEF StartScanner, IInv, MainInv
    <3>3. {s \in Scanners : pc'[s] = "gone"} = {s \in Scanners : pc[s] = "gone"}
      BY <1>2, <3>1
    <3>4. PacketInv' /\ DoneInv'
      BY <1>3, <3>1, <3>3 DEF IInv, PacketInv, DoneInv
    <3>5. RoleInv'
      BY <1>3, <2>1, <3>1 DEF IInv, RoleInv
    <3>6. StopInv'
      BY <1>2, <1>3, <1>5, <1>7, <3>1 DEF IInv, StopInv, Freeing, AllDone, AllGone, managerLocals
    <3> QED  BY <1>1, <1>4, <2>1, <3>2, <3>4, <3>5, <3>6 DEF IInv, Alerted
  <2>3. CASE ~ StartScanner
    <3>1. UNCHANGED pc
      BY <1>7, <2>3 DEF MainThread, StartReader, JoinScanner, StopManager, JoinManager
    <3>2. PacketInv' /\ DoneInv' /\ RoleInv'
      BY <1>3, <2>1, <3>1 DEF IInv, PacketInv, DoneInv, RoleInv
    <3>3. CASE StopManager
      <4>1. MainInv' /\ AllGone'
        BY <1>5, <1>7, <3>1, <3>3 DEF StopManager, IInv, MainInv, AllGone, managerLocals
      <4>2. StopInv'
        BY <1>3, <1>5, <1>7, <3>1, <3>3, <4>1 DEF StopManager, IInv, StopInv, Freeing, managerLocals
      <4> QED  BY <1>1, <1>4, <2>1, <3>2, <4>1, <4>2 DEF IInv, Alerted
    <3>4. CASE StartReader \/ JoinScanner \/ JoinManager
      <4>1. UNCHANGED stopped
        BY <3>4 DEF StartReader, JoinScanner, JoinManager
      <4>2. StopInv'
        BY <1>3, <1>5, <1>7, <3>1, <4>1 DEF IInv, StopInv, Freeing, AllDone, AllGone, managerLocals
      <4>3. CASE StartReader
        BY <1>1, <1>4, <2>1, <3>1, <3>2, <4>2, <4>3 DEF StartReader, IInv, Alerted, MainInv, managerLocals
      <4>4. CASE JoinManager
        BY <1>1, <1>4, <2>1, <3>1, <3>2, <4>2, <4>4 DEF JoinManager, IInv, Alerted, MainInv, AllGone
      <4>5. CASE JoinScanner
        <5>1. MainInv'
          BY <1>1, <1>2, <3>1, <4>5 DEF JoinScanner, IInv, MainInv, AllGone
        <5> QED  BY <1>1, <1>4, <2>1, <3>2, <4>2, <5>1 DEF IInv, Alerted
      <4> QED  BY <3>4, <4>3, <4>4, <4>5
    <3> QED  BY <1>7, <2>3, <3>3, <3>4 DEF MainThread
  <2> QED  BY <2>2, <2>3
<1> QED  BY <1>6, <1>7

-----------------------------------------------------------------------------
(* Every step of every thread keeps the invariant. *)
LEMMA StepKeepsIInv == IInv /\ [Next]_vars => IInv'
<1> SUFFICES ASSUME IInv, [Next]_vars PROVE IInv'
  OBVIOUS
<1>1. CASE MainThread
  BY <1>1, MainKeepsInv
<1>2. CASE ReaderThread
  BY <1>2, ReaderKeepsInv DEF ReaderThread
<1>3. CASE ManagerThread
  BY <1>3, ManagerKeepsType, ManagerKeepsScanners, ManagerKeepsAlerted, ManagerKeepsStop, ManagerKeepsCrash
     DEF ManagerThread, IInv, Alerted
<1>4. ASSUME NEW s \in Scanners, ScannerThread(s) PROVE IInv'
  <2>1. ScannerStep(s) /\ UNCHANGED <<managerLocals, readerVars, main, nth>>
    BY <1>4 DEF ScannerThread
  <2>2. MainInv' /\ DoneInv' /\ PacketInv' /\ RoleInv'
    BY <2>1, ScannerKeepsMain, ScannerKeepsCount, ScannerKeepsPackets, ScannerKeepsRoles
  <2>3. Alerted' /\ StopInv' /\ CrashInv'
    BY <2>1, ScannerKeepsAlerted, ScannerKeepsStop, ScannerKeepsCrash
  <2>4. TypeOK'
    BY <2>1, <2>2, ScannerKeepsType
  <2> QED  BY <2>2, <2>3, <2>4 DEF IInv, Alerted
<1>5. CASE UNCHANGED vars
  <2> USE <1>5 DEF vars, shared, lists, matrix, targets, counts, stopping, modes, scannerLocals, stealing,
                   polling, managerLocals, readerVars
  <2>1. Alerted' /\ Ded' = Ded /\ Published' = Published
    BY AlertedKept DEF IInv, Alerted, Ded, Published, Filled
  <2>2. TypeOK' /\ MainInv' /\ PacketInv' /\ DoneInv'
    BY DEF IInv, TypeOK, MainInv, PacketInv, DoneInv, AllGone
  <2>3. RoleInv'
    BY <2>1 DEF IInv, RoleInv
  <2>4. StopInv' /\ CrashInv'
    BY DEF IInv, StopInv, CrashInv, Freeing, AllDone, AllGone
  <2> QED  BY <2>1, <2>2, <2>3, <2>4 DEF IInv, Alerted
<1> QED  BY <1>1, <1>2, <1>3, <1>4, <1>5 DEF Next, Ended

(* So it holds in every run. *)
LEMMA AlwaysIInv == Spec => []IInv
BY InitIInv, StepKeepsIInv, PTL DEF Spec

(* Whatever the threads do to each other's lists, queues and flags, what is *)
(* in them is of its type.                                                  *)
THEOREM TypeCorrect == Spec => []TypeOK
<1>1. IInv => TypeOK
  BY DEF IInv
<1> QED  BY <1>1, AlwaysIInv, PTL

(* "Change scanners machine type (only after initializing queues)": the    *)
(* thread that a packet goes to, or is stolen from, was switched before.   *)
THEOREM PartnersReady == Spec => []PartnerReady
<1>1. IInv => PartnerReady
  <2> SUFFICES ASSUME IInv, NEW s \in Scanners, pc[s] \in {"enqueue", "steal"}
               PROVE  /\ s >= num_of_dedicated_threads
                      /\ dest_thread[s] < num_of_dedicated_threads
                      /\ ~ isTableMachine[dest_thread[s]]
                      /\ useLock[dest_thread[s]] = 1
    BY DEF PartnerReady
  <2> QED  BY Partner, Numbers DEF IInv, Ded
<1> QED  BY <1>1, AlwaysIInv, PTL

(* Rows of the matrix are regular threads, columns are dedicated ones, and *)
(* only queues that were made and not freed hold packets.                  *)
THEOREM QueuesFollowRoles == Spec => []QueuesMatchRoles
<1>1. IInv => QueuesMatchRoles
  BY DEF IInv, QueueInv, QueuesMatchRoles, Pairs, Ded
<1> QED  BY <1>1, AlwaysIInv, PTL

(* Nobody follows a pointer that was not set, or one that was freed before *)
(* the scanners were told, and only work groups that ask for more threads  *)
(* than there are take the manager past the matrix.                        *)
THEOREM NobodyDiesEarly == Spec => []NoEarlyCrash
<1>1. IInv => NoEarlyCrash
  BY DEF IInv, CrashInv, NoEarlyCrash, AllDone
<1> QED  BY <1>1, AlwaysIInv, PTL

(* While the manager drains the queues, no dedicated thread goes on with a *)
(* packet it has got from one.                                             *)
THEOREM DrainedNotScanned == Spec => NoScanWhileDraining
<1> DEFINE A == \A s \in Scanners :
                  mpc \in {"drain", "free_queue"} /\ pc[s] = "check" => (pc[s])' \in {"check", "exit"}
<1>1. IInv /\ [Next]_vars => [A]_vars
  <2> SUFFICES ASSUME IInv, Next, NEW s \in Scanners, mpc \in {"drain", "free_queue"}, pc[s] = "check"
               PROVE  pc'[s] \in {"check", "exit"}
    BY DEF vars
  <2>1. done[s]
    BY DEF IInv, StopInv, Freeing, AllDone, AllGone
  <2>2. CASE MainThread
    <3>1. StartScanner => pc[nth] = "off" /\ pc' = [pc EXCEPT ![nth] = "loop"]
      BY Numbers DEF StartScanner, IInv, MainInv, TypeOK
    <3>2. ~ StartScanner => pc' = pc
      BY <2>2 DEF MainThread, StartReader, StartManager, JoinScanner, StopManager, JoinManager, scannerLocals
    <3> QED  BY <3>1, <3>2 DEF IInv, TypeOK
  <2>3. CASE ReaderThread
    BY <2>3 DEF ReaderThread, ReaderStep, ReadPacket, EndOfTrace, unreadable, scannerLocals
  <2>4. CASE ManagerThread
    BY <2>4, ManagerMoves DEF ManagerThread, scannerLocals
  <2>5. ASSUME NEW u \in Scanners, ScannerThread(u) PROVE pc'[s] \in {"check", "exit"}
    <3>1. CASE u # s
      BY <2>5, <3>1, ScannerMoves DEF ScannerThread, IInv
    <3>2. CASE u = s
      <4>1. Check(s) \/ Crash(s)
        BY <2>5, <3>2 DEF ScannerThread, ScannerStep, Loop, ReadOwn, BeginOwn, UnlinkOwn, Poll, Fallback,
           Match, MatchTable, PickTarget, EnqueueHeavy, StealTake, StealOverlap, StealPut, StealEnd,
           ScannerDone
      <4> QED  BY <2>1, <4>1 DEF Check, Crash, Goto, IInv, TypeOK, scannerLocals
    <3> QED  BY <3>1, <3>2
  <2>6. CASE Ended
    BY <2>6 DEF Ended, vars, scannerLocals
  <2> QED  BY <2>2, <2>3, <2>4, <2>5, <2>6 DEF Next
<1>2. Spec => [][A]_vars
  BY <1>1, AlwaysIInv, PTL DEF Spec
<1> QED  BY <1>2 DEF NoScanWhileDraining

-----------------------------------------------------------------------------
(***************************************************************************)
(* The packets of a run: where they are, that none is in two places or     *)
(* lost before the stop, and in which order they go on.                    *)
(*                                                                         *)
(* A step of a scanner takes the first packet of one place and puts it     *)
(* last, or when it steals first, in another. So the lemmas are about a    *)
(* function from places to what is in them, before such a step (F) and     *)
(* after it (G), and only then about the scanners.                         *)
(***************************************************************************)
List(s)    == <<"list", s>>
Hand(s)    == <<"hand", s>>
Stolen(s)  == <<"stolen", s>>
Scanned(s) == <<"scanned", s>>
Queue(w, d) == <<"queue", <<w, d>>>>

Holdings == [p \in Places |-> In(p)]
Filling  == [Places -> Seq(Clones)]

(* What a step does with the packets. *)
Taken(F, G, p, q) ==
  /\ p # q /\ F[p] # <<>> /\ G[p] = Tail(F[p])
  /\ \A r \in Places \ {p, q} : G[r] = F[r]
Moved(F, G, p, q)    == Taken(F, G, p, q) /\ G[q] = Append(F[q], Head(F[p]))
PutBack(F, G, p, q)  == Taken(F, G, p, q) /\ G[q] = <<Head(F[p])>> \o F[q]
Lost(F, G, p)        == G[p] = <<>> /\ \A r \in Places \ {p} : G[r] = F[r]

(* NoCloneTwice, and what there is. *)
Apart(F) ==
  \A p, q \in Places : \A i \in DOMAIN F[p], j \in DOMAIN F[q] :
    F[p][i] = F[q][j] => p = q /\ i = j
Present(F, c) == \E p \in Places : \E i \in DOMAIN F[p] : F[p][i] = c

(* Where the packets of a regular thread, of its list, can be. *)
HomeAt(p, c, ded) ==
  c[2] >= ded => /\ p[1] = "list"  => c[2] = p[2]
                 /\ p[1] = "queue" => c[2] = p[2][1]
                 /\ p[1] = "hand"  => c[2] = p[2] \/ p[2] < ded
                 /\ p[1] # "stolen"
Home(F, ded) == \A p \in Places : \A i \in DOMAIN F[p] : HomeAt(p, F[p][i], ded)

(* How far away p is from having been scanned, on the way of the packets   *)
(* of w to thread s; 0 if it is not on that way.                           *)
Distance(w, s, p) ==
  CASE p = List(w)     -> 5
    [] p = Hand(w)     -> 4
    [] p = Queue(w, s) -> 3
    [] p = Hand(s) /\ s # w -> 2
    [] p = Scanned(s)  -> 1
    [] OTHER           -> 0

InOrder(F, ded) ==
  \A w \in Scanners : w >= ded =>
    /\ \A p \in Places : \A i, j \in DOMAIN F[p] :
         i < j /\ F[p][i][2] = w /\ F[p][j][2] = w => F[p][i][1] < F[p][j][1]
    /\ \A s \in Scanners : \A p, q \in Places :
         0 < Distance(w, s, p) /\ Distance(w, s, p) < Distance(w, s, q) =>
           \A i \in DOMAIN F[p], j \in DOMAIN F[q] :
             F[p][i][2] = w /\ F[q][j][2] = w => F[p][i][1] < F[q][j][1]

(* From p to q is a step on that way, of the first packet of p.            *)
OnWay(F, p, q, ded) ==
  LET w == F[p][1][2] IN
  w >= ded =>
    /\ \E s \in Scanners : Distance(w, s, q) # 0
    /\ \A s \in Scanners : Distance(w, s, q) # 0 =>
         /\ Distance(w, s, q) < Distance(w, s, p)
         /\ \A r \in Places : Distance(w, s, q) < Distance(w, s, r) /\ Distance(w, s, r) < Distance(w, s, p)
              => F[r] = <<>>

(* The reader is gone before a scanner or the manager is started. *)
ReaderInv ==
  /\ main \notin {"start_reader", "join_reader"} => reader = "gone"
  /\ reader = "gone" => count = NumPackets /\ \A s \in Scanners : listDone[s]

(* A thread takes a packet with empty hands. *)
HandInv ==
  \A s \in Scanners :
    /\ packet[s] # NoPacket => pc[s] \in {"check", "match", "table", "transfer", "enqueue"}
    /\ next_packet[s] # NoPacket => pc[s] = "reinsert"

FlowInv == Apart(Holdings) /\ Home(Holdings, Ded) /\ InOrder(Holdings, Ded)

(* What is there has been read, and what was read is there. *)
KeptInv ==
  /\ \A c \in Clones : Present(Holdings, c) => c[1] <= count
  /\ ~ stopped /\ (\A s \in Scanners : ~ done[s]) =>
       \A c \in Clones : c[1] <= count => Present(Holdings, c)

(* Before alert mode each scanner goes through its own copies one by one,  *)
(* and none stops before it is at the end.                                 *)
Copies(s, n) == [i \in 1 .. n |-> <<i, s>>]

Calm(s) ==
  /\ ~ done[s]
  /\ free_queue[s] \o OneOf(packet[s]) \o list[s] = Copies(s, count)
  /\ pc[s] = "check" /\ packet[s] = NoPacket => list[s] = <<>>
  /\ pc[s] \in {"exit", "gone"} => packet[s] = NoPacket /\ list[s] = <<>>

CalmScan == ~ alert_mode_used => \A s \in Scanners : Calm(s)

PInv == IInv /\ ReaderInv /\ HandInv /\ FlowInv /\ KeptInv /\ CalmScan

-----------------------------------------------------------------------------
(* What a step leaves, element by element. *)

LEMMA Domains ==
  ASSUME NEW F \in Filling, NEW p \in Places
  PROVE  F[p] \in Seq(Clones) /\ Len(F[p]) \in Nat /\ DOMAIN F[p] = 1 .. Len(F[p])
<1>1. F[p] \in Seq(Clones)
  BY DEF Filling
<1> QED  BY <1>1, LenProperties

LEMMA Elements ==
  ASSUME NEW f \in Seq(Clones), f # <<>>
  PROVE  /\ 1 \in DOMAIN f /\ Head(f) = f[1] /\ Tail(f) \in Seq(Clones)
         /\ \A i \in DOMAIN Tail(f) : i \in Nat \ {0} /\ i + 1 \in DOMAIN f /\ Tail(f)[i] = f[i + 1]
         /\ \A i \in DOMAIN f : i # 1 => i - 1 \in DOMAIN Tail(f)
<1>1. Len(Tail(f)) = Len(f) - 1 /\ Tail(f) \in Seq(Clones) /\ Head(f) = f[1] /\ Len(f) \in Nat \ {0}
  BY HeadTailProperties, EmptySeq, LenProperties
<1>2. DOMAIN f = 1 .. Len(f) /\ DOMAIN Tail(f) = 1 .. Len(Tail(f))
  BY <1>1
<1>3. \A i \in 1 .. Len(Tail(f)) : Tail(f)[i] = f[i + 1]
  BY HeadTailProperties
<1> QED  BY <1>1, <1>2, <1>3

(* A packet that is moved, or put back, is the only one that changes its   *)
(* place, and the others keep their order.  Came: where it was before.     *)
Came(F, G, r, i, x, j) ==
  x \in Places /\ j \in DOMAIN F[x] /\ F[x][j] = G[r][i]

LEMMA MovedElements ==
  ASSUME NEW F \in Filling, NEW G \in Filling, NEW p \in Places, NEW q \in Places, Moved(F, G, p, q)
  PROVE  /\ 1 \in DOMAIN F[p]
         /\ \A i \in DOMAIN G[p] : i \in Nat \ {0} /\ Came(F, G, p, i, p, i + 1)
         /\ \A i \in DOMAIN F[p] : i # 1 => i - 1 \in DOMAIN G[p]
         /\ \A i \in DOMAIN G[q] \ {Len(F[q]) + 1} : Came(F, G, q, i, q, i) /\ i < Len(F[q]) + 1
         /\ Came(F, G, q, Len(F[q]) + 1, p, 1) /\ Len(F[q]) + 1 \in DOMAIN G[q]
         /\ DOMAIN F[q] \subseteq DOMAIN G[q]
<1>1. F[p] \in Seq(Clones) /\ F[q] \in Seq(Clones) /\ F[p] # <<>> /\ G[p] = Tail(F[p])
      /\ G[q] = Append(F[q], Head(F[p]))
  BY DEF Moved, Taken, Filling
<1>2. Head(F[p]) = F[p][1] /\ F[p][1] \in Clones /\ 1 \in DOMAIN F[p]
  BY <1>1, Elements, ElementOfSeq
<1>3. /\ Len(G[q]) = Len(F[q]) + 1 /\ G[q][Len(F[q]) + 1] = F[p][1]
      /\ \A i \in 1 .. Len(F[q]) : G[q][i] = F[q][i]
  BY <1>1, <1>2, AppendProperties
<1>4. Len(F[q]) \in Nat /\ DOMAIN F[q] = 1 .. Len(F[q]) /\ DOMAIN G[q] = 1 .. Len(G[q])
  BY <1>1, Domains
<1> QED  BY <1>1, <1>2, <1>3, <1>4, Elements DEF Came

LEMMA PutBackElements ==
  ASSUME NEW F \in Filling, NEW G \in Filling, NEW p \in Places, NEW q \in Places, PutBack(F, G, p, q)
  PROVE  /\ 1 \in DOMAIN F[p]
         /\ \A i \in DOMAIN G[p] : i \in Nat \ {0} /\ Came(F, G, p, i, p, i + 1)
         /\ \A i \in DOMAIN F[p] : i # 1 => i - 1 \in DOMAIN G[p]
         /\ \A i \in DOMAIN G[q] \ {1} : i \in Nat /\ Came(F, G, q, i, q, i - 1)
         /\ Came(F, G, q, 1, p, 1) /\ 1 \in DOMAIN G[q]
         /\ \A i \in DOMAIN F[q] : i \in Nat /\ i + 1 \in DOMAIN G[q]
<1>1. F[p] \in Seq(Clones) /\ F[q] \in Seq(Clones) /\ F[p] # <<>> /\ G[p] = Tail(F[p])
      /\ G[q] = <<Head(F[p])>> \o F[q]
  BY DEF PutBack, Taken, Filling
<1>2. Head(F[p]) = F[p][1] /\ F[p][1] \in Clones /\ 1 \in DOMAIN F[p]
  BY <1>1, Elements, ElementOfSeq
<1>3. <<F[p][1]>> \in Seq(Clones) /\ Len(<<F[p][1]>>) = 1 /\ <<F[p][1]>>[1] = F[p][1]
  BY <1>2
<1>4. /\ Len(G[q]) = 1 + Len(F[q]) /\ G[q][1] = F[p][1]
      /\ \A i \in 1 .. 1 + Len(F[q]) : G[q][i] = IF i <= 1 THEN F[p][1] ELSE F[q][i - 1]
  BY <1>1, <1>2, <1>3, ConcatProperties
<1>5. Len(F[q]) \in Nat /\ DOMAIN F[q] = 1 .. Len(F[q]) /\ DOMAIN G[q] = 1 .. Len(G[q])
  BY <1>1, Domains
<1> QED  BY <1>1, <1>2, <1>4, <1>5, Elements DEF Came

(* Where the packet at place i of r was before it was moved or put back:   *)
(* at place j of x.                                                        *)
MovedFrom(F, p, q, r, i, x, j) ==
  \/ r = p /\ x = p /\ j = i + 1
  \/ r = q /\ i = Len(F[q]) + 1 /\ x = p /\ j = 1
  \/ r = q /\ i < Len(F[q]) + 1 /\ x = q /\ j = i
  \/ r \notin {p, q} /\ x = r /\ j = i

PutBackFrom(p, q, r, i, x, j) ==
  \/ r = p /\ x = p /\ j = i + 1
  \/ r = q /\ i = 1 /\ x = p /\ j = 1
  \/ r = q /\ i # 1 /\ x = q /\ j = i - 1
  \/ r \notin {p, q} /\ x = r /\ j = i

LEMMA MovedSource ==
  ASSUME NEW F \in Filling, NEW G \in Filling, NEW p \in Places, NEW q \in Places, Moved(F, G, p, q),
         NEW r \in Places, NEW i \in DOMAIN G[r]
  PROVE  i \in Nat /\ \E x \in Places, j \in Nat : Came(F, G, r, i, x, j) /\ MovedFrom(F, p, q, r, i, x, j)
<1>1. DOMAIN G[r] \subseteq Nat
  BY Domains
<1>2. CASE r = p
  <2>1. i + 1 \in DOMAIN F[p] /\ F[p][i + 1] = G[r][i]
    BY <1>2, MovedElements DEF Came
  <2> QED  BY <1>1, <1>2, <2>1 DEF Came, MovedFrom
<1>3. CASE r = q /\ i # Len(F[q]) + 1
  <2>1. i \in DOMAIN F[q] /\ F[q][i] = G[r][i] /\ i < Len(F[q]) + 1
    BY <1>3, MovedElements DEF Came
  <2> QED  BY <1>1, <1>3, <2>1 DEF Came, MovedFrom
<1>4. CASE r = q /\ i = Len(F[q]) + 1
  <2>1. 1 \in DOMAIN F[p] /\ F[p][1] = G[r][i]
    BY <1>4, MovedElements DEF Came
  <2> QED  BY <1>1, <1>4, <2>1 DEF Came, MovedFrom
<1>5. CASE r \notin {p, q}
  BY <1>1, <1>5 DEF Moved, Taken, Came, MovedFrom
<1> QED  BY <1>2, <1>3, <1>4, <1>5

LEMMA PutBackSource ==
  ASSUME NEW F \in Filling, NEW G \in Filling, NEW p \in Places, NEW q \in Places, PutBack(F, G, p, q),
         NEW r \in Places, NEW i \in DOMAIN G[r]
  PROVE  i \in Nat /\ \E x \in Places, j \in Nat : Came(F, G, r, i, x, j) /\ PutBackFrom(p, q, r, i, x, j)
<1>1. DOMAIN G[r] \subseteq Nat
  BY Domains
<1>2. CASE r = p
  <2>1. i + 1 \in DOMAIN F[p] /\ F[p][i + 1] = G[r][i]
    BY <1>2, PutBackElements DEF Came
  <2> QED  BY <1>1, <1>2, <2>1 DEF Came, PutBackFrom
<1>3. CASE r = q /\ i # 1
  <2>1. i - 1 \in DOMAIN F[q] /\ F[q][i - 1] = G[r][i] /\ DOMAIN F[q] \subseteq Nat
    BY <1>3, PutBackElements, Domains DEF Came
  <2> QED  BY <1>1, <1>3, <2>1 DEF Came, PutBackFrom
<1>4. CASE r = q /\ i = 1
  <2>1. 1 \in DOMAIN F[p] /\ F[p][1] = G[r][i]
    BY <1>4, PutBackElements DEF Came
  <2> QED  BY <1>1, <1>4, <2>1 DEF Came, PutBackFrom
<1>5. CASE r \notin {p, q}
  BY <1>1, <1>5 DEF PutBack, Taken, Came, PutBackFrom
<1> QED  BY <1>2, <1>3, <1>4, <1>5

(* A step that takes a packet from one place to another makes no copy ... *)
LEMMA StayApart ==
  ASSUME NEW F \in Filling, NEW G \in Filling, NEW p \in Places, NEW q \in Places,
         Moved(F, G, p, q) \/ PutBack(F, G, p, q), Apart(F)
  PROVE  Apart(G)
<1> SUFFICES ASSUME NEW r \in Places, NEW i \in DOMAIN G[r], NEW t \in Places, NEW k \in DOMAIN G[t],
                    G[r][i] = G[t][k]
             PROVE  r = t /\ i = k
  BY DEF Apart
<1>1. p # q
  BY DEF Moved, PutBack, Taken
<1>2. CASE Moved(F, G, p, q)
  <2>1. PICK x \in Places, j \in Nat : Came(F, G, r, i, x, j) /\ MovedFrom(F, p, q, r, i, x, j)
    BY <1>2, MovedSource
  <2>2. PICK y \in Places, l \in Nat : Came(F, G, t, k, y, l) /\ MovedFrom(F, p, q, t, k, y, l)
    BY <1>2, MovedSource
  <2>3. x = y /\ j = l
    BY <2>1, <2>2 DEF Apart, Came
  <2>4. DOMAIN G[p] \subseteq Nat \ {0} /\ i \in Nat /\ k \in Nat
    BY Domains
  <2> QED  BY <1>1, <2>1, <2>2, <2>3, <2>4 DEF MovedFrom
<1>3. CASE PutBack(F, G, p, q)
  <2>1. PICK x \in Places, j \in Nat : Came(F, G, r, i, x, j) /\ PutBackFrom(p, q, r, i, x, j)
    BY <1>3, PutBackSource
  <2>2. PICK y \in Places, l \in Nat : Came(F, G, t, k, y, l) /\ PutBackFrom(p, q, t, k, y, l)
    BY <1>3, PutBackSource
  <2>3. x = y /\ j = l
    BY <2>1, <2>2 DEF Apart, Came
  <2>4. DOMAIN G[p] \subseteq Nat \ {0} /\ i \in Nat /\ k \in Nat
    BY Domains
  <2> QED  BY <1>1, <2>1, <2>2, <2>3, <2>4 DEF PutBackFrom
<1> QED  BY <1>2, <1>3

(* ... and loses none. *)
LEMMA StayPresent ==
  ASSUME NEW F \in Filling, NEW G \in Filling, NEW p \in Places, NEW q \in Places,
         Moved(F, G, p, q) \/ PutBack(F, G, p, q), NEW c
  PROVE  Present(G, c) <=> Present(F, c)
<1>1. Present(G, c) => Present(F, c)
  <2> SUFFICES ASSUME NEW r \in Places, NEW i \in DOMAIN G[r], G[r][i] = c
               PROVE  \E x \in Places : \E j \in DOMAIN F[x] : F[x][j] = c
    BY DEF Present
  <2> QED  BY MovedSource, PutBackSource DEF Came
<1>2. Present(F, c) => Present(G, c)
  <2> SUFFICES ASSUME NEW r \in Places, NEW i \in DOMAIN F[r], F[r][i] = c
               PROVE  \E x \in Places : \E j \in DOMAIN G[x] : G[x][j] = c
    BY DEF Present
  <2>1. CASE r \notin {p, q}
    BY <2>1 DEF Moved, PutBack, Taken
  <2>2. CASE r = p /\ i = 1
    BY <2>2, MovedElements, PutBackElements DEF Came
  <2>3. CASE r = p /\ i # 1
    <3>1. i - 1 \in DOMAIN G[p] /\ G[p][i - 1] = F[p][i - 1 + 1]
      BY <2>3, MovedElements, PutBackElements DEF Came
    <3>2. i \in Nat
      BY Domains
    <3> QED  BY <2>3, <3>1, <3>2
  <2>4. CASE r = q /\ Moved(F, G, p, q)
    <3>1. i \in DOMAIN G[q] /\ i # Len(F[q]) + 1
      BY <2>4, MovedElements, Domains
    <3>2. G[q][i] = F[q][i]
      BY <2>4, <3>1, MovedElements DEF Came
    <3> QED  BY <2>4, <3>1, <3>2
  <2>5. CASE r = q /\ PutBack(F, G, p, q)
    <3>1. i \in Nat \ {0} /\ i + 1 \in DOMAIN G[q] \ {1}
      BY <2>5, PutBackElements, Domains
    <3>2. G[q][i + 1] = F[q][i + 1 - 1]
      BY <2>5, <3>1, PutBackElements DEF Came
    <3> QED  BY <2>5, <3>1, <3>2
  <2> QED  BY <2>1, <2>2, <2>3, <2>4, <2>5
<1> QED  BY <1>1, <1>2

(* Who keeps to where the packets of a regular thread can be, and to their *)
(* way, keeps their order.                                                 *)
LEMMA StayHome ==
  ASSUME NEW F \in Filling, NEW G \in Filling, NEW p \in Places, NEW q \in Places,
         Moved(F, G, p, q) \/ PutBack(F, G, p, q), NEW ded, Home(F, ded), HomeAt(q, F[p][1], ded)
  PROVE  Home(G, ded)
<1> SUFFICES ASSUME NEW r \in Places, NEW i \in DOMAIN G[r] PROVE HomeAt(r, G[r][i], ded)
  BY DEF Home
<1>1. ASSUME NEW x \in Places, NEW j, Came(F, G, r, i, x, j), x = r \/ (r = q /\ x = p /\ j = 1)
      PROVE  HomeAt(r, G[r][i], ded)
  BY <1>1 DEF Home, Came
<1>2. CASE Moved(F, G, p, q)
  <2>1. PICK x \in Places, j \in Nat : Came(F, G, r, i, x, j) /\ MovedFrom(F, p, q, r, i, x, j)
    BY <1>2, MovedSource
  <2> QED  BY <1>1, <2>1 DEF MovedFrom
<1>3. CASE PutBack(F, G, p, q)
  <2>1. PICK x \in Places, j \in Nat : Came(F, G, r, i, x, j) /\ PutBackFrom(p, q, r, i, x, j)
    BY <1>3, PutBackSource
  <2> QED  BY <1>1, <2>1 DEF PutBackFrom
<1> QED  BY <1>2, <1>3

LEMMA DistanceFacts ==
  ASSUME NEW w \in Scanners, NEW s \in Scanners, NEW p \in Places, NEW q \in Places
  PROVE  /\ Distance(w, s, p) \in 0 .. 5
         /\ Distance(w, s, p) = Distance(w, s, q) /\ Distance(w, s, p) # 0 => p = q
BY DEF Distance, List, Hand, Queue, Scanned

LEMMA StayInOrder ==
  ASSUME NEW F \in Filling, NEW G \in Filling, NEW p \in Places, NEW q \in Places, Moved(F, G, p, q),
         NEW ded, InOrder(F, ded), OnWay(F, p, q, ded)
  PROVE  InOrder(G, ded)
<1>1. p # q
  BY DEF Moved, Taken
<1> SUFFICES ASSUME NEW w \in Scanners, w >= ded, NEW r \in Places, NEW t \in Places,
                    NEW i \in DOMAIN G[r], NEW k \in DOMAIN G[t], G[r][i][2] = w, G[t][k][2] = w,
                    \/ r = t /\ i < k
                    \/ \E s \in Scanners : 0 < Distance(w, s, r) /\ Distance(w, s, r) < Distance(w, s, t)
             PROVE  G[r][i][1] < G[t][k][1]
  BY DEF InOrder
<1>2. PICK x \in Places, j \in Nat : Came(F, G, r, i, x, j) /\ MovedFrom(F, p, q, r, i, x, j)
  BY MovedSource
<1>3. PICK y \in Places, l \in Nat : Came(F, G, t, k, y, l) /\ MovedFrom(F, p, q, t, k, y, l)
  BY MovedSource
<1>4. /\ j \in DOMAIN F[x] /\ F[x][j] = G[r][i] /\ l \in DOMAIN F[y] /\ F[y][l] = G[t][k]
      /\ i \in Nat \ {0} /\ k \in Nat \ {0} /\ Len(F[q]) \in Nat
  BY <1>2, <1>3, Domains DEF Came
<1>5. ASSUME j < l, x = y PROVE F[x][j][1] < F[y][l][1]
  BY <1>4, <1>5 DEF InOrder
<1>6. ASSUME NEW s \in Scanners, 0 < Distance(w, s, x), Distance(w, s, x) < Distance(w, s, y)
      PROVE  F[x][j][1] < F[y][l][1]
  BY <1>4, <1>6 DEF InOrder
<1>7. CASE r = t /\ i < k
  <2>1. CASE x = y
    <3>1. j < l
      BY <1>1, <1>2, <1>3, <1>4, <1>7, <2>1 DEF MovedFrom
    <3> QED  BY <1>4, <1>5, <2>1, <3>1
  <2>2. CASE x # y
    <3>1. r = q /\ x = q /\ y = p /\ l = 1
      BY <1>1, <1>2, <1>3, <1>4, <1>7, <2>2 DEF MovedFrom
    <3>2. PICK s \in Scanners : Distance(w, s, q) # 0 /\ Distance(w, s, q) < Distance(w, s, p)
      BY <1>4, <3>1 DEF OnWay
    <3>3. 0 < Distance(w, s, q)
      BY <3>2, DistanceFacts
    <3> QED  BY <1>4, <1>6, <3>1, <3>2, <3>3
  <2> QED  BY <2>1, <2>2
<1>8. ASSUME NEW s \in Scanners, 0 < Distance(w, s, r), Distance(w, s, r) < Distance(w, s, t)
      PROVE  G[r][i][1] < G[t][k][1]
  <2> USE <1>8
  <2>1. r # t /\ Distance(w, s, r) # 0 /\ Distance(w, s, t) # 0
    BY DistanceFacts
  <2>2. CASE x = r /\ y = t
    BY <1>4, <1>6, <2>2
  <2>3. CASE x # r
    <3>1. r = q /\ x = p /\ j = 1 /\ w = F[p][1][2]
      BY <1>2, <1>4, <2>3 DEF MovedFrom
    <3>2. /\ Distance(w, s, q) < Distance(w, s, p)
          /\ \A z \in Places : Distance(w, s, q) < Distance(w, s, z) /\ Distance(w, s, z) < Distance(w, s, p)
                => F[z] = <<>>
      BY <2>1, <3>1 DEF OnWay
    <3>3. y = t /\ (t = p => l = k + 1) /\ (t # p => l = k)
      BY <1>1, <1>3, <2>1, <3>1 DEF MovedFrom
    <3>4. CASE t = p
      BY <1>4, <1>5, <3>1, <3>3, <3>4
    <3>5. CASE t # p
      <4>1. F[t] # <<>>
        BY <1>4, <3>3
      <4>2. Distance(w, s, p) < Distance(w, s, t)
        BY <2>1, <3>1, <3>2, <3>5, <4>1, DistanceFacts
      <4>3. 0 < Distance(w, s, p)
        BY <3>1, <3>2, DistanceFacts
      <4> QED  BY <1>4, <1>6, <3>1, <3>3, <4>2, <4>3
    <3> QED  BY <3>4, <3>5
  <2>4. CASE x = r /\ y # t
    <3>1. t = q /\ y = p /\ l = 1 /\ w = F[p][1][2]
      BY <1>3, <1>4, <2>4 DEF MovedFrom
    <3>2. Distance(w, s, q) < Distance(w, s, p)
      BY <2>1, <3>1 DEF OnWay
    <3>3. Distance(w, s, r) < Distance(w, s, p)
      BY <3>1, <3>2, DistanceFacts
    <3> QED  BY <1>4, <1>6, <2>4, <3>1, <3>3
  <2> QED  BY <2>2, <2>3, <2>4
<1> QED  BY <1>7, <1>8

LEMMA BackInOrder ==
  ASSUME NEW F \in Filling, NEW G \in Filling, NEW p \in Places, NEW q \in Places, PutBack(F, G, p, q),
         NEW ded \in Int, InOrder(F, ded), F[p][1][2] < ded
  PROVE  InOrder(G, ded)
<1> SUFFICES ASSUME NEW w \in Scanners, w >= ded, NEW r \in Places, NEW t \in Places,
                    NEW i \in DOMAIN G[r], NEW k \in DOMAIN G[t], G[r][i][2] = w, G[t][k][2] = w,
                    \/ r = t /\ i < k
                    \/ \E s \in Scanners : 0 < Distance(w, s, r) /\ Distance(w, s, r) < Distance(w, s, t)
             PROVE  G[r][i][1] < G[t][k][1]
  BY DEF InOrder
<1>1. PICK x \in Places, j \in Nat : Came(F, G, r, i, x, j) /\ PutBackFrom(p, q, r, i, x, j)
  BY PutBackSource
<1>2. PICK y \in Places, l \in Nat : Came(F, G, t, k, y, l) /\ PutBackFrom(p, q, t, k, y, l)
  BY PutBackSource
<1>3. /\ j \in DOMAIN F[x] /\ F[x][j] = G[r][i] /\ l \in DOMAIN F[y] /\ F[y][l] = G[t][k]
      /\ i \in Nat \ {0} /\ k \in Nat \ {0}
  BY <1>1, <1>2, Domains DEF Came
<1>4. w \in Int /\ ~ (w < ded)
  BY DEF Scanners
<1>5. p # q /\ ~ (x = p /\ j = 1) /\ ~ (y = p /\ l = 1)
  BY <1>3, <1>4 DEF PutBack, Taken
<1>6. x = r /\ y = t /\ (r = t /\ i < k => j < l)
  BY <1>1, <1>2, <1>3, <1>5 DEF PutBackFrom
<1> QED  BY <1>3, <1>6 DEF InOrder

(* What is lost is nowhere, and all else is where it was. *)
LEMMA LostOrKept ==
  ASSUME NEW F \in Filling, NEW G \in Filling, NEW p \in Places, Lost(F, G, p), NEW ded
  PROVE  /\ Apart(F) => Apart(G)
         /\ Home(F, ded) => Home(G, ded)
         /\ InOrder(F, ded) => InOrder(G, ded)
         /\ \A c : Present(G, c) => Present(F, c)
<1>1. \A r \in Places : \A i \in DOMAIN G[r] : i \in DOMAIN F[r] /\ G[r][i] = F[r][i]
  BY DEF Lost
<1> QED  BY <1>1 DEF Apart, Home, InOrder, Present

-----------------------------------------------------------------------------
(* The steps of the scanners as moves from place to place. *)

LEMMA Contents ==
  /\ \A s \in Scanners :
       /\ List(s) \in Places /\ Hand(s) \in Places /\ Stolen(s) \in Places /\ Scanned(s) \in Places
       /\ Holdings[List(s)] = list[s] /\ Holdings'[List(s)] = list'[s]
       /\ Holdings[Hand(s)] = OneOf(packet[s]) /\ Holdings'[Hand(s)] = OneOf(packet'[s])
       /\ Holdings[Stolen(s)] = OneOf(next_packet[s]) /\ Holdings'[Stolen(s)] = OneOf(next_packet'[s])
       /\ Holdings[Scanned(s)] = free_queue[s] /\ Holdings'[Scanned(s)] = free_queue'[s]
  /\ \A w, d \in Scanners :
       /\ Queue(w, d) \in Places
       /\ Holdings[Queue(w, d)] = queue[<<w, d>>] /\ Holdings'[Queue(w, d)] = queue'[<<w, d>>]
BY DEF Places, Pairs, Holdings, In, List, Hand, Stolen, Scanned, Queue

LEMMA Kinds ==
  ASSUME NEW p \in Places
  PROVE  \/ \E s \in Scanners : p = List(s) \/ p = Hand(s) \/ p = Stolen(s) \/ p = Scanned(s)
         \/ \E w, d \in Scanners : p = Queue(w, d)
BY DEF Places, Pairs, List, Hand, Stolen, Scanned, Queue

LEMMA OneOfType ==
  ASSUME NEW c
  PROVE  /\ c = NoPacket => OneOf(c) = <<>>
         /\ c # NoPacket => OneOf(c) = <<c>> /\ OneOf(c) # <<>> /\ Head(OneOf(c)) = c /\ Tail(OneOf(c)) = <<>>
         /\ c \in Clones => OneOf(c) \in Seq(Clones)
         /\ Append(<<>>, c) = <<c>>
<1>1. <<c>> \in Seq({c}) /\ <<c>> # <<>> /\ Head(<<c>>) = c /\ Tail(<<c>>) = <<>>
  OBVIOUS
<1>2. c \in Clones => <<c>> \in Seq(Clones)
  OBVIOUS
<1>3. Append(<<>>, c) = <<c>>
  OBVIOUS
<1> QED  BY <1>1, <1>2, <1>3 DEF OneOf

LEMMA NotAClone == NoPacket \notin Clones
BY DEF NoPacket, Clones

LEMMA HoldingsType ==
  /\ TypeOK  => Holdings \in Filling
  /\ TypeOK' => Holdings' \in Filling
<1>1. <<>> \in Seq(Clones)
  OBVIOUS
<1>2. ASSUME TypeOK, NEW p \in Places PROVE Holdings[p] \in Seq(Clones)
  <2>1. \A s \in Scanners : OneOf(packet[s]) \in Seq(Clones) /\ OneOf(next_packet[s]) \in Seq(Clones)
    BY <1>1, <1>2, OneOfType DEF TypeOK
  <2>2. \A s \in Scanners : list[s] \in Seq(Clones) /\ free_queue[s] \in Seq(Clones)
    BY <1>2 DEF TypeOK
  <2>3. \A w, d \in Scanners : queue[<<w, d>>] \in Seq(Clones)
    BY <1>2 DEF TypeOK, Pairs
  <2>4. CASE \E s \in Scanners : p = List(s) \/ p = Hand(s) \/ p = Stolen(s) \/ p = Scanned(s)
    BY <2>1, <2>2, <2>4, Contents
  <2>5. CASE \E w, d \in Scanners : p = Queue(w, d)
    BY <2>3, <2>5, Contents
  <2> QED  BY <2>4, <2>5, Kinds
<1>3. ASSUME TypeOK', NEW p \in Places PROVE Holdings'[p] \in Seq(Clones)
  <2>1. \A s \in Scanners : OneOf(packet'[s]) \in Seq(Clones) /\ OneOf(next_packet'[s]) \in Seq(Clones)
    BY <1>1, <1>3, OneOfType DEF TypeOK
  <2>2. \A s \in Scanners : list'[s] \in Seq(Clones) /\ free_queue'[s] \in Seq(Clones)
    BY <1>3 DEF TypeOK
  <2>3. \A w, d \in Scanners : queue'[<<w, d>>] \in Seq(Clones)
    BY <1>3 DEF TypeOK, Pairs
  <2>4. CASE \E s \in Scanners : p = List(s) \/ p = Hand(s) \/ p = Stolen(s) \/ p = Scanned(s)
    BY <2>1, <2>2, <2>4, Contents
  <2>5. CASE \E w, d \in Scanners : p = Queue(w, d)
    BY <2>3, <2>5, Contents
  <2> QED  BY <2>4, <2>5, Kinds
<1> QED  BY <1>2, <1>3 DEF Filling, Holdings

(* Where nothing is written nothing changes. *)
LEMMA OthersKept ==
  ASSUME NEW S,
         \A s \in Scanners :
           /\ List(s) \notin S => list'[s] = list[s]
           /\ Hand(s) \notin S => packet'[s] = packet[s]
           /\ Stolen(s) \notin S => next_packet'[s] = next_packet[s]
           /\ Scanned(s) \notin S => free_queue'[s] = free_queue[s],
         \A w, d \in Scanners : Queue(w, d) \notin S => queue'[<<w, d>>] = queue[<<w, d>>]
  PROVE  \A p \in Places \ S : Holdings'[p] = Holdings[p]
<1> SUFFICES ASSUME NEW p \in Places, p \notin S PROVE Holdings'[p] = Holdings[p]
  OBVIOUS
<1>1. ASSUME NEW s \in Scanners, p = List(s) \/ p = Hand(s) \/ p = Stolen(s) \/ p = Scanned(s)
      PROVE  Holdings'[p] = Holdings[p]
  <2>1. p = List(s) \/ p = Scanned(s) => Holdings'[p] = Holdings[p]
    BY Contents
  <2>2. p = Hand(s) \/ p = Stolen(s) => Holdings'[p] = Holdings[p]
    BY Contents
  <2> QED  BY <1>1, <2>1, <2>2
<1>2. ASSUME NEW w \in Scanners, NEW d \in Scanners, p = Queue(w, d)
      PROVE  Holdings'[p] = Holdings[p]
  <2>1. queue'[<<w, d>>] = queue[<<w, d>>]
    BY <1>2
  <2>2. Holdings'[Queue(w, d)] = queue'[<<w, d>>] /\ Holdings[Queue(w, d)] = queue[<<w, d>>]
    BY Contents
  <2> QED  BY <1>2, <2>1, <2>2
<1> QED  BY <1>1, <1>2, Kinds

LEMMA AllKept ==
  ASSUME UNCHANGED <<list, packet, next_packet, free_queue, queue>>
  PROVE  Holdings' = Holdings
BY OthersKept DEF Holdings

(* What a step of a scanner does with the packets, and between whom. *)
Flow(s) ==
  \/ Holdings' = Holdings
  \/ Moved(Holdings, Holdings', List(s), Hand(s))
  \/ Moved(Holdings, Holdings', Hand(s), Scanned(s))
  \/ /\ s < Ded
     /\ \E w \in Scanners : Moved(Holdings, Holdings', Queue(w, s), Hand(s))
  \/ /\ s >= Ded
     /\ \E d \in Scanners : d < Ded /\ Moved(Holdings, Holdings', Hand(s), Queue(s, d))
  \/ \E d \in Scanners : d < Ded /\ Moved(Holdings, Holdings', List(d), Stolen(s))
  \/ /\ s >= Ded
     /\ PutBack(Holdings, Holdings', Stolen(s), List(s))
  \/ done[s] /\ Lost(Holdings, Holdings', Hand(s))

(* Taking the first packet of a list into empty hands. *)
LEMMA TakesFirst ==
  ASSUME TypeOK, NEW s \in Scanners, packet[s] = NoPacket, Hold(s, First(s)), RemoveFirst(s),
         UNCHANGED <<next_packet, free_queue, queue>>
  PROVE  Holdings' = Holdings \/ Moved(Holdings, Holdings', List(s), Hand(s))
<1>1. CASE list[s] = <<>>
  <2>1. UNCHANGED <<list, packet>>
    BY <1>1 DEF TypeOK, Hold, First, RemoveFirst
  <2> QED  BY <2>1, AllKept
<1>2. CASE list[s] # <<>>
  <2>1. /\ list' = [list EXCEPT ![s] = Tail(list[s])]
        /\ packet' = [packet EXCEPT ![s] = Head(list[s])]
    BY <1>2 DEF Hold, First, RemoveFirst
  <2>2. /\ list'[s] = Tail(list[s]) /\ packet'[s] = Head(list[s]) /\ Head(list[s]) \in Clones
        /\ \A t \in Scanners : t # s => list'[t] = list[t] /\ packet'[t] = packet[t]
    <3>1. list[s] \in Seq(Clones)
      BY DEF TypeOK
    <3>2. Head(list[s]) \in Clones
      BY <1>2, <3>1
    <3> QED  BY <2>1, <3>2 DEF TypeOK
  <2>3. OneOf(packet[s]) = <<>> /\ OneOf(packet'[s]) = Append(<<>>, Head(list[s]))
    BY <2>2, OneOfType, NotAClone
  <2>4. \A t \in Scanners : (List(t) = List(s) <=> t = s) /\ (Hand(t) = Hand(s) <=> t = s)
    BY DEF List, Hand
  <2>5. \A p \in Places \ {List(s), Hand(s)} : Holdings'[p] = Holdings[p]
    <3> DEFINE S == {List(s), Hand(s)}
    <3> HIDE DEF S
    <3>1. /\ \A t \in Scanners : /\ List(t) \notin S => list'[t] = list[t]
                                 /\ Hand(t) \notin S => packet'[t] = packet[t]
                                 /\ Stolen(t) \notin S => next_packet'[t] = next_packet[t]
                                 /\ Scanned(t) \notin S => free_queue'[t] = free_queue[t]
          /\ \A w, d \in Scanners : Queue(w, d) \notin S => queue'[<<w, d>>] = queue[<<w, d>>]
      BY <2>2, <2>4 DEF S
    <3>2. \A p \in Places \ S : Holdings'[p] = Holdings[p]
      BY <3>1, OthersKept
    <3> QED  BY <3>2 DEF S
  <2>6. List(s) # Hand(s)
    BY DEF List, Hand
  <2> QED  BY <1>2, <2>2, <2>3, <2>5, <2>6, Contents DEF Moved, Taken
<1> QED  BY <1>1, <1>2

(* Different places have different names. *)
LEMMA Names ==
  /\ \A s, t \in Scanners :
       /\ List(s) = List(t) <=> s = t
       /\ Hand(s) = Hand(t) <=> s = t
       /\ Stolen(s) = Stolen(t) <=> s = t
       /\ Scanned(s) = Scanned(t) <=> s = t
       /\ List(s) # Hand(t) /\ List(s) # Stolen(t) /\ List(s) # Scanned(t)
       /\ Hand(s) # Stolen(t) /\ Hand(s) # Scanned(t) /\ Stolen(s) # Scanned(t)
  /\ \A w, d, v, e \in Scanners : Queue(w, d) = Queue(v, e) <=> <<w, d>> = <<v, e>>
  /\ \A w, d, s \in Scanners :
       Queue(w, d) # List(s) /\ Queue(w, d) # Hand(s) /\ Queue(w, d) # Stolen(s) /\ Queue(w, d) # Scanned(s)
BY DEF List, Hand, Stolen, Scanned, Queue

(* list_enqueue(&(scanner->free_queue), packet) *)
LEMMA Releases ==
  ASSUME TypeOK, NEW s \in Scanners, packet[s] # NoPacket, Release(s), UNCHANGED <<list, next_packet, queue>>
  PROVE  Moved(Holdings, Holdings', Hand(s), Scanned(s))
<1>1. /\ free_queue' = [free_queue EXCEPT ![s] = Append(free_queue[s], packet[s])]
      /\ packet' = [packet EXCEPT ![s] = NoPacket]
  BY DEF Release, Hold
<1>2. /\ free_queue'[s] = Append(free_queue[s], packet[s]) /\ packet'[s] = NoPacket
      /\ \A t \in Scanners : t # s => free_queue'[t] = free_queue[t] /\ packet'[t] = packet[t]
  BY <1>1 DEF TypeOK
<1>3. \A p \in Places \ {Hand(s), Scanned(s)} : Holdings'[p] = Holdings[p]
  <2> DEFINE S == {Hand(s), Scanned(s)}
  <2> HIDE DEF S
  <2>1. /\ \A t \in Scanners : /\ List(t) \notin S => list'[t] = list[t]
                               /\ Hand(t) \notin S => packet'[t] = packet[t]
                               /\ Stolen(t) \notin S => next_packet'[t] = next_packet[t]
                               /\ Scanned(t) \notin S => free_queue'[t] = free_queue[t]
        /\ \A w, d \in Scanners : Queue(w, d) \notin S => queue'[<<w, d>>] = queue[<<w, d>>]
    BY <1>2, Names DEF S
  <2>2. \A p \in Places \ S : Holdings'[p] = Holdings[p]
    BY <2>1, OthersKept
  <2> QED  BY <2>2 DEF S
<1>4. /\ OneOf(packet[s]) # <<>> /\ Head(OneOf(packet[s])) = packet[s]
      /\ Tail(OneOf(packet[s])) = <<>> /\ OneOf(packet'[s]) = <<>>
  BY <1>2, OneOfType
<1> QED  BY <1>2, <1>3, <1>4, Contents, Names DEF Moved, Taken

(* A packet from a heavy-packet queue, into empty hands. *)
LEMMA TakesHeavy ==
  ASSUME TypeOK, NEW s \in Scanners, NEW w \in Scanners, packet[s] = NoPacket, queue[<<w, s>>] # <<>>,
         Hold(s, Head(queue[<<w, s>>])), queue' = [queue EXCEPT ![<<w, s>>] = Tail(queue[<<w, s>>])],
         UNCHANGED <<list, next_packet, free_queue>>
  PROVE  Moved(Holdings, Holdings', Queue(w, s), Hand(s))
<1>1. /\ queue'[<<w, s>>] = Tail(queue[<<w, s>>])
      /\ \A v, d \in Scanners : <<v, d>> # <<w, s>> => queue'[<<v, d>>] = queue[<<v, d>>]
  BY DEF TypeOK, Pairs
<1>2. /\ packet'[s] = Head(queue[<<w, s>>]) /\ \A t \in Scanners : t # s => packet'[t] = packet[t]
  BY DEF Hold, TypeOK
<1>3. Head(queue[<<w, s>>]) \in Clones
  <2>1. queue[<<w, s>>] \in Seq(Clones)
    BY DEF TypeOK, Pairs
  <2> QED  BY <2>1
<1>4. OneOf(packet[s]) = <<>> /\ OneOf(packet'[s]) = Append(<<>>, Head(queue[<<w, s>>]))
  BY <1>2, <1>3, OneOfType, NotAClone
<1>5. \A p \in Places \ {Queue(w, s), Hand(s)} : Holdings'[p] = Holdings[p]
  <2> DEFINE S == {Queue(w, s), Hand(s)}
  <2> HIDE DEF S
  <2>1. /\ \A t \in Scanners : /\ List(t) \notin S => list'[t] = list[t]
                               /\ Hand(t) \notin S => packet'[t] = packet[t]
                               /\ Stolen(t) \notin S => next_packet'[t] = next_packet[t]
                               /\ Scanned(t) \notin S => free_queue'[t] = free_queue[t]
        /\ \A v, d \in Scanners : Queue(v, d) \notin S => queue'[<<v, d>>] = queue[<<v, d>>]
    BY <1>1, <1>2, Names DEF S
  <2>2. \A p \in Places \ S : Holdings'[p] = Holdings[p]
    BY <2>1, OthersKept
  <2> QED  BY <2>2 DEF S
<1>6. /\ Holdings[Queue(w, s)] = queue[<<w, s>>] /\ Holdings'[Queue(w, s)] = queue'[<<w, s>>]
      /\ Holdings[Hand(s)] = OneOf(packet[s]) /\ Holdings'[Hand(s)] = OneOf(packet'[s])
      /\ Queue(w, s) # Hand(s)
  BY Contents, Names
<1> QED  BY <1>1, <1>4, <1>5, <1>6 DEF Moved, Taken

(* multicore_manager_transfer_packet *)
LEMMA GivesHeavy ==
  ASSUME TypeOK, NEW s \in Scanners, NEW d \in Scanners, packet[s] # NoPacket,
         PutHeavy(<<s, d>>, packet[s]), Hold(s, NoPacket), UNCHANGED <<list, next_packet, free_queue>>
  PROVE  Moved(Holdings, Holdings', Hand(s), Queue(s, d))
<1>1. /\ queue'[<<s, d>>] = Append(queue[<<s, d>>], packet[s])
      /\ \A v, e \in Scanners : <<v, e>> # <<s, d>> => queue'[<<v, e>>] = queue[<<v, e>>]
  BY DEF PutHeavy, TypeOK, Pairs
<1>2. /\ packet'[s] = NoPacket /\ \A t \in Scanners : t # s => packet'[t] = packet[t]
  BY DEF Hold, TypeOK
<1>3. /\ OneOf(packet[s]) # <<>> /\ Head(OneOf(packet[s])) = packet[s]
      /\ Tail(OneOf(packet[s])) = <<>> /\ OneOf(packet'[s]) = <<>>
  BY <1>2, OneOfType
<1>4. \A p \in Places \ {Queue(s, d), Hand(s)} : Holdings'[p] = Holdings[p]
  <2> DEFINE S == {Queue(s, d), Hand(s)}
  <2> HIDE DEF S
  <2>1. /\ \A t \in Scanners : /\ List(t) \notin S => list'[t] = list[t]
                               /\ Hand(t) \notin S => packet'[t] = packet[t]
                               /\ Stolen(t) \notin S => next_packet'[t] = next_packet[t]
                               /\ Scanned(t) \notin S => free_queue'[t] = free_queue[t]
        /\ \A v, e \in Scanners : Queue(v, e) \notin S => queue'[<<v, e>>] = queue[<<v, e>>]
    BY <1>1, <1>2, Names DEF S
  <2>2. \A p \in Places \ S : Holdings'[p] = Holdings[p]
    BY <2>1, OthersKept
  <2> QED  BY <2>2 DEF S
<1>5. /\ Holdings[Queue(s, d)] = queue[<<s, d>>] /\ Holdings'[Queue(s, d)] = queue'[<<s, d>>]
      /\ Holdings[Hand(s)] = OneOf(packet[s]) /\ Holdings'[Hand(s)] = OneOf(packet'[s])
      /\ Queue(s, d) # Hand(s)
  BY Contents, Names
<1> QED  BY <1>1, <1>3, <1>4, <1>5 DEF Moved, Taken

(* Scanner.c:482, a packet from another thread's list. *)
LEMMA Steals ==
  ASSUME TypeOK, NEW s \in Scanners, NEW d \in Scanners, next_packet[s] = NoPacket,
         next_packet' = [next_packet EXCEPT ![s] = First(d)], RemoveFirst(d),
         UNCHANGED <<packet, free_queue, queue>>
  PROVE  Holdings' = Holdings \/ Moved(Holdings, Holdings', List(d), Stolen(s))
<1>1. CASE list[d] = <<>>
  <2>1. UNCHANGED <<list, next_packet>>
    BY <1>1 DEF TypeOK, First, RemoveFirst
  <2> QED  BY <2>1, AllKept
<1>2. CASE list[d] # <<>>
  <2>1. /\ list' = [list EXCEPT ![d] = Tail(list[d])]
        /\ next_packet' = [next_packet EXCEPT ![s] = Head(list[d])]
    BY <1>2 DEF First, RemoveFirst
  <2>2. /\ list'[d] = Tail(list[d]) /\ next_packet'[s] = Head(list[d]) /\ Head(list[d]) \in Clones
        /\ \A t \in Scanners : /\ t # d => list'[t] = list[t]
                               /\ t # s => next_packet'[t] = next_packet[t]
    <3>1. list[d] \in Seq(Clones)
      BY DEF TypeOK
    <3>2. Head(list[d]) \in Clones
      BY <1>2, <3>1
    <3> QED  BY <2>1, <3>2 DEF TypeOK
  <2>3. OneOf(next_packet[s]) = <<>> /\ OneOf(next_packet'[s]) = Append(<<>>, Head(list[d]))
    BY <2>2, OneOfType, NotAClone
  <2>4. \A p \in Places \ {List(d), Stolen(s)} : Holdings'[p] = Holdings[p]
    <3> DEFINE S == {List(d), Stolen(s)}
    <3> HIDE DEF S
    <3>1. /\ \A t \in Scanners : /\ List(t) \notin S => list'[t] = list[t]
                                 /\ Hand(t) \notin S => packet'[t] = packet[t]
                                 /\ Stolen(t) \notin S => next_packet'[t] = next_packet[t]
                                 /\ Scanned(t) \notin S => free_queue'[t] = free_queue[t]
          /\ \A w, e \in Scanners : Queue(w, e) \notin S => queue'[<<w, e>>] = queue[<<w, e>>]
      BY <2>2, Names DEF S
    <3>2. \A p \in Places \ S : Holdings'[p] = Holdings[p]
      BY <3>1, OthersKept
    <3> QED  BY <3>2 DEF S
  <2>5. /\ Holdings[List(d)] = list[d] /\ Holdings'[List(d)] = list'[d]
        /\ Holdings[Stolen(s)] = OneOf(next_packet[s]) /\ Holdings'[Stolen(s)] = OneOf(next_packet'[s])
        /\ List(d) # Stolen(s)
    BY Contents, Names
  <2> QED  BY <1>2, <2>2, <2>3, <2>4, <2>5 DEF Moved, Taken
<1> QED  BY <1>1, <1>2

(* Scanner.c:485, it goes to the front of the own list. *)
LEMMA Reinserts ==
  ASSUME TypeOK, NEW s \in Scanners, next_packet[s] # NoPacket, PutFirst(s, next_packet[s]),
         next_packet' = [next_packet EXCEPT ![s] = NoPacket], UNCHANGED <<packet, free_queue, queue>>
  PROVE  PutBack(Holdings, Holdings', Stolen(s), List(s))
<1>1. /\ list'[s] = <<next_packet[s]>> \o list[s] /\ next_packet'[s] = NoPacket
      /\ \A t \in Scanners : t # s => list'[t] = list[t] /\ next_packet'[t] = next_packet[t]
  BY DEF PutFirst, TypeOK
<1>2. /\ OneOf(next_packet[s]) # <<>> /\ Head(OneOf(next_packet[s])) = next_packet[s]
      /\ Tail(OneOf(next_packet[s])) = <<>> /\ OneOf(next_packet'[s]) = <<>>
  BY <1>1, OneOfType
<1>3. \A p \in Places \ {Stolen(s), List(s)} : Holdings'[p] = Holdings[p]
  <2> DEFINE S == {Stolen(s), List(s)}
  <2> HIDE DEF S
  <2>1. /\ \A t \in Scanners : /\ List(t) \notin S => list'[t] = list[t]
                               /\ Hand(t) \notin S => packet'[t] = packet[t]
                               /\ Stolen(t) \notin S => next_packet'[t] = next_packet[t]
                               /\ Scanned(t) \notin S => free_queue'[t] = free_queue[t]
        /\ \A w, d \in Scanners : Queue(w, d) \notin S => queue'[<<w, d>>] = queue[<<w, d>>]
    BY <1>1, Names DEF S
  <2>2. \A p \in Places \ S : Holdings'[p] = Holdings[p]
    BY <2>1, OthersKept
  <2> QED  BY <2>2 DEF S
<1> QED  BY <1>1, <1>2, <1>3, Contents, Names DEF PutBack, Taken

(* Scanner.c:570, a scanner that was told to stop forgets its packet. *)
LEMMA Forgets ==
  ASSUME TypeOK, NEW s \in Scanners, Hold(s, NoPacket), UNCHANGED <<list, next_packet, free_queue, queue>>
  PROVE  /\ Lost(Holdings, Holdings', Hand(s))
         /\ packet[s] = NoPacket => Holdings' = Holdings
<1>1. packet'[s] = NoPacket /\ \A t \in Scanners : t # s => packet'[t] = packet[t]
  BY DEF Hold, TypeOK
<1>2. \A p \in Places \ {Hand(s)} : Holdings'[p] = Holdings[p]
  <2> DEFINE S == {Hand(s)}
  <2> HIDE DEF S
  <2>1. /\ \A t \in Scanners : /\ List(t) \notin S => list'[t] = list[t]
                               /\ Hand(t) \notin S => packet'[t] = packet[t]
                               /\ Stolen(t) \notin S => next_packet'[t] = next_packet[t]
                               /\ Scanned(t) \notin S => free_queue'[t] = free_queue[t]
        /\ \A w, d \in Scanners : Queue(w, d) \notin S => queue'[<<w, d>>] = queue[<<w, d>>]
    BY <1>1, Names DEF S
  <2>2. \A p \in Places \ S : Holdings'[p] = Holdings[p]
    BY <2>1, OthersKept
  <2> QED  BY <2>2 DEF S
<1>3. packet[s] = NoPacket => packet' = packet
  BY DEF Hold, TypeOK
<1>4. packet[s] = NoPacket => Holdings' = Holdings
  BY <1>3, AllKept
<1>5. OneOf(packet'[s]) = <<>>
  BY <1>1, OneOfType
<1> QED  BY <1>2, <1>4, <1>5, Contents DEF Lost

(* Every step of a scanner is one of these, as long as no thief dequeues   *)
(* where the owner is about to.                                            *)
LEMMA ScannerFlows ==
  ASSUME IInv, HandInv, NEW s \in Scanners, ScannerStep(s), ListsWhole'
  PROVE  Flow(s)
<1> USE DEF lists, matrix, stopping, stealing, scannerLocals
<1>1. TypeOK
  BY DEF IInv
<1>2. CASE Loop(s) \/ PickTarget(s) \/ StealEnd(s) \/ ScannerDone(s) \/ Crash(s) \/ BeginOwn(s)
  BY <1>2, AllKept DEF Loop, PickTarget, StealEnd, ScannerDone, Crash, BeginOwn, Flow
<1>3. CASE ReadOwn(s) \/ UnlinkOwn(s) \/ Fallback(s)
  <2>1. /\ packet[s] = NoPacket /\ Hold(s, First(s)) /\ RemoveFirst(s)
        /\ UNCHANGED <<next_packet, free_queue, queue>>
    BY <1>3 DEF ReadOwn, UnlinkOwn, Fallback, HandInv
  <2> QED  BY <1>1, <2>1, TakesFirst DEF Flow
<1>4. CASE Poll(s)
  <2>1. next_writer_id[s] \in Scanners /\ s < Ded
    BY <1>4, Polled DEF Poll
  <2>2. packet[s] = NoPacket /\ UNCHANGED <<list, next_packet, free_queue>>
    BY <1>4 DEF Poll, HandInv
  <2>3. CASE queue[<<next_writer_id[s], s>>] = <<>>
    BY <1>4, <2>2, <2>3, AllKept DEF Poll, Flow
  <2>4. CASE queue[<<next_writer_id[s], s>>] # <<>>
    <3> DEFINE w == next_writer_id[s]
    <3>1. Hold(s, Head(queue[<<w, s>>])) /\ queue' = [queue EXCEPT ![<<w, s>>] = Tail(queue[<<w, s>>])]
      BY <1>4, <2>4 DEF Poll
    <3> HIDE DEF w
    <3>2. Moved(Holdings, Holdings', Queue(w, s), Hand(s))
      BY <1>1, <2>1, <2>2, <2>4, <3>1, TakesHeavy DEF w
    <3> QED  BY <2>1, <3>2 DEF Flow, w
  <2> QED  BY <2>3, <2>4
<1>5. CASE Check(s)
  <2>1. UNCHANGED <<list, next_packet, free_queue, queue>>
    BY <1>5 DEF Check
  <2>2. CASE done[s] \/ packet[s] = NoPacket
    BY <1>1, <1>5, <2>1, <2>2, Forgets DEF Check, Flow
  <2>3. CASE ~ (done[s] \/ packet[s] = NoPacket)
    BY <1>5, <2>1, <2>3, AllKept DEF Check, Flow
  <2> QED  BY <2>2, <2>3
<1>6. CASE Match(s) \/ MatchTable(s)
  <2>1. packet[s] # NoPacket /\ UNCHANGED <<list, next_packet, queue>>
    BY <1>6 DEF Match, MatchTable, IInv, PacketInv
  <2>2. Release(s) \/ UNCHANGED <<packet, free_queue>>
    BY <1>6 DEF Match, MatchTable
  <2> QED  BY <1>1, <2>1, <2>2, Releases, AllKept DEF Flow
<1>7. CASE EnqueueHeavy(s)
  <2> DEFINE d == dest_thread[s]
  <2>1. d \in Scanners /\ d < Ded /\ s >= Ded
    BY <1>7, Partner, <1>1, Numbers DEF EnqueueHeavy
  <2>2. /\ packet[s] # NoPacket /\ PutHeavy(<<s, d>>, packet[s]) /\ Hold(s, NoPacket)
        /\ UNCHANGED <<list, next_packet, free_queue>>
    BY <1>7 DEF EnqueueHeavy, IInv, PacketInv
  <2> HIDE DEF d
  <2>3. Moved(Holdings, Holdings', Hand(s), Queue(s, d))
    BY <1>1, <2>1, <2>2, GivesHeavy
  <2> QED  BY <2>1, <2>3 DEF Flow
<1>8. CASE StealTake(s)
  <2> DEFINE d == dest_thread[s]
  <2>1. d \in Scanners /\ d < Ded
    BY <1>8, Partner, <1>1, Numbers DEF StealTake
  <2>2. /\ next_packet[s] = NoPacket /\ next_packet' = [next_packet EXCEPT ![s] = First(d)] /\ RemoveFirst(d)
        /\ UNCHANGED <<packet, free_queue, queue>>
    BY <1>8 DEF StealTake, HandInv
  <2> HIDE DEF d
  <2>3. Holdings' = Holdings \/ Moved(Holdings, Holdings', List(d), Stolen(s))
    BY <1>1, <2>1, <2>2, Steals
  <2> QED  BY <2>1, <2>3 DEF Flow
<1>9. CASE StealPut(s)
  <2>1. s >= Ded
    BY <1>9, Partner DEF StealPut
  <2>2. /\ next_packet[s] # NoPacket /\ PutFirst(s, next_packet[s])
        /\ next_packet' = [next_packet EXCEPT ![s] = NoPacket] /\ UNCHANGED <<packet, free_queue, queue>>
    BY <1>9 DEF StealPut, IInv, PacketInv
  <2> QED  BY <1>1, <2>1, <2>2, Reinserts DEF Flow
<1>10. ~ StealOverlap(s)
  BY DEF StealOverlap, ListsWhole
<1> QED  BY <1>2, <1>3, <1>4, <1>5, <1>6, <1>7, <1>8, <1>9, <1>10 DEF ScannerStep

(* Its hands are empty when it comes to take a packet. *)
LEMMA ScannerKeepsHands ==
  ASSUME IInv, HandInv, NEW s \in Scanners, ScannerStep(s), ListsWhole'
  PROVE  HandInv'
<1> USE DEF Goto, Hold, Release, stealing, scannerLocals
<1>1. /\ pc \in [Scanners -> ScannerLabels] /\ packet \in [Scanners -> Clones \cup {NoPacket}]
      /\ next_packet \in [Scanners -> Clones \cup {NoPacket}]
  BY DEF IInv, TypeOK
<1>0. ~ StealOverlap(s)
  BY DEF StealOverlap, ListsWhole
<1>2. \A t \in Scanners : t # s => pc'[t] = pc[t] /\ packet'[t] = packet[t] /\ next_packet'[t] = next_packet[t]
  BY <1>0, <1>1 DEF ScannerStep, Loop, ReadOwn, BeginOwn, UnlinkOwn, Poll, Fallback, Check, Match, MatchTable,
     PickTarget, EnqueueHeavy, StealTake, StealPut, StealEnd, ScannerDone, Crash
<1>3. /\ packet'[s] # NoPacket => pc'[s] \in {"check", "match", "table", "transfer", "enqueue"}
      /\ next_packet'[s] # NoPacket => pc'[s] = "reinsert"
  <2>1. CASE Loop(s) \/ Poll(s) \/ Check(s)
    BY <1>1, <2>1 DEF Loop, Poll, Check, HandInv
  <2>2. CASE ReadOwn(s) \/ BeginOwn(s) \/ UnlinkOwn(s)
    BY <1>1, <2>2 DEF ReadOwn, BeginOwn, UnlinkOwn, HandInv
  <2>3. CASE Fallback(s)
    BY <1>1, <2>3 DEF Fallback, HandInv, First, DequeueStatus
  <2>4. CASE Match(s) \/ MatchTable(s)
    BY <1>1, <2>4 DEF Match, MatchTable, HandInv
  <2>5. CASE PickTarget(s) \/ EnqueueHeavy(s)
    BY <1>1, <2>5 DEF PickTarget, EnqueueHeavy, HandInv
  <2>6. CASE StealTake(s) \/ StealPut(s) \/ StealEnd(s)
    BY <1>1, <2>6 DEF StealTake, StealPut, StealEnd, HandInv
  <2>7. CASE ScannerDone(s) \/ Crash(s)
    BY <1>1, <2>7 DEF ScannerDone, Crash, HandInv
  <2> QED  BY <1>0, <2>1, <2>2, <2>3, <2>4, <2>5, <2>6, <2>7 DEF ScannerStep
<1> QED  BY <1>2, <1>3 DEF HandInv

-----------------------------------------------------------------------------
(* Each of these moves is a step on the way. *)

LEMMA Distances ==
  ASSUME NEW w \in Scanners, NEW s \in Scanners
  PROVE  /\ Distance(w, s, List(w)) = 5 /\ Distance(w, s, Hand(w)) = 4 /\ Distance(w, s, Queue(w, s)) = 3
         /\ s # w => Distance(w, s, Hand(s)) = 2
         /\ Distance(w, s, Scanned(s)) = 1
         /\ \A t \in Scanners : t # s => /\ Distance(w, s, Scanned(t)) = 0
                                         /\ t # w => Distance(w, s, Hand(t)) = 0
                                         /\ Distance(w, s, Queue(w, t)) = 0
         /\ \A p \in Places : /\ Distance(w, s, p) = 3 => p = Queue(w, s)
                              /\ Distance(w, s, p) = 2 => s # w
                              /\ Distance(w, s, p) \in 0 .. 5
BY DEF Distance, List, Hand, Queue, Scanned

LEMMA FirstIsClone ==
  ASSUME TypeOK, NEW p \in Places, Holdings[p] # <<>>
  PROVE  /\ 1 \in DOMAIN Holdings[p] /\ Holdings[p][1] \in Clones /\ Holdings[p][1][2] \in Scanners
<1>1. Holdings[p] \in Seq(Clones)
  BY HoldingsType DEF Filling
<1>2. 1 \in DOMAIN Holdings[p] /\ Holdings[p][1] \in Clones
  BY <1>1, Elements, ElementOfSeq, LenProperties
<1> QED  BY <1>2 DEF Clones

(* Towards a thread's own hands, and out of them again. *)
LEMMA OwnWay ==
  ASSUME IInv, Home(Holdings, Ded), NEW s \in Scanners, Holdings[List(s)] # <<>>
  PROVE  /\ HomeAt(Hand(s), Holdings[List(s)][1], Ded)
         /\ OnWay(Holdings, List(s), Hand(s), Ded)
<1> DEFINE w == Holdings[List(s)][1][2]
<1>1. w \in Scanners /\ 1 \in DOMAIN Holdings[List(s)]
  BY FirstIsClone, Contents DEF IInv
<1>2. w >= Ded => w = s
  BY <1>1, Contents DEF Home, HomeAt, List
<1>3. OnWay(Holdings, List(s), Hand(s), Ded)
  <2> SUFFICES ASSUME w >= Ded
               PROVE  /\ \E t \in Scanners : Distance(w, t, Hand(s)) # 0
                      /\ \A t \in Scanners :
                           /\ Distance(w, t, Hand(s)) < Distance(w, t, List(s))
                           /\ \A r \in Places : ~ (Distance(w, t, Hand(s)) < Distance(w, t, r)
                                                   /\ Distance(w, t, r) < Distance(w, t, List(s)))
    BY DEF OnWay
  <2>1. \A t \in Scanners : Distance(w, t, Hand(s)) = 4 /\ Distance(w, t, List(s)) = 5
    BY <1>1, <1>2, Distances
  <2>2. \A t \in Scanners, r \in Places : Distance(w, t, r) \in 0 .. 5
    BY <1>1, Distances
  <2> QED  BY <1>1, <2>1, <2>2
<1> QED  BY <1>2, <1>3 DEF HomeAt, Hand

LEMMA ScannedWay ==
  ASSUME IInv, Home(Holdings, Ded), NEW s \in Scanners, Holdings[Hand(s)] # <<>>
  PROVE  /\ HomeAt(Scanned(s), Holdings[Hand(s)][1], Ded)
         /\ OnWay(Holdings, Hand(s), Scanned(s), Ded)
<1> DEFINE w == Holdings[Hand(s)][1][2]
<1>1. w \in Scanners /\ 1 \in DOMAIN Holdings[Hand(s)]
  BY FirstIsClone, Contents DEF IInv
<1>2. w >= Ded => w = s \/ s < Ded
  BY <1>1, Contents DEF Home, HomeAt, Hand
<1>3. OnWay(Holdings, Hand(s), Scanned(s), Ded)
  <2> SUFFICES ASSUME w >= Ded
               PROVE  /\ \E t \in Scanners : Distance(w, t, Scanned(s)) # 0
                      /\ \A t \in Scanners : Distance(w, t, Scanned(s)) # 0 =>
                           /\ Distance(w, t, Scanned(s)) < Distance(w, t, Hand(s))
                           /\ \A r \in Places : Distance(w, t, Scanned(s)) < Distance(w, t, r)
                                                /\ Distance(w, t, r) < Distance(w, t, Hand(s))
                                => Holdings[r] = <<>>
    BY DEF OnWay
  <2>1. \A t \in Scanners : Distance(w, t, Scanned(s)) # 0 => t = s
    BY <1>1, Distances
  <2>2. Distance(w, s, Scanned(s)) = 1
    BY <1>1, Distances
  <2>3. CASE w = s
    <3>1. Distance(w, s, Hand(s)) = 4
      BY <1>1, <2>3, Distances
    <3>2. \A r \in Places : 1 < Distance(w, s, r) /\ Distance(w, s, r) < 4 => r = Queue(w, s)
      BY <1>1, <2>3, Distances
    <3>3. Holdings[Queue(w, s)] = queue[<<s, s>>]
      BY <2>3, Contents
    <3>4. queue[<<s, s>>] = <<>>
      BY <2>3, Numbers DEF IInv, QueueInv
    <3> QED  BY <2>1, <2>2, <3>1, <3>2, <3>3, <3>4
  <2>4. CASE w # s
    <3>1. Distance(w, s, Hand(s)) = 2
      BY <1>1, <2>4, Distances
    <3>2. \A r \in Places : Distance(w, s, r) \in 0 .. 5
      BY <1>1, Distances
    <3> QED  BY <2>1, <2>2, <3>1, <3>2
  <2> QED  BY <2>3, <2>4
<1> QED  BY <1>3 DEF HomeAt, Scanned

(* Over to a dedicated thread. *)
LEMMA HeavyWay ==
  ASSUME IInv, Home(Holdings, Ded), NEW s \in Scanners, NEW d \in Scanners, s >= Ded, Holdings[Hand(s)] # <<>>
  PROVE  /\ HomeAt(Queue(s, d), Holdings[Hand(s)][1], Ded)
         /\ OnWay(Holdings, Hand(s), Queue(s, d), Ded)
<1> DEFINE w == Holdings[Hand(s)][1][2]
<1>1. w \in Scanners /\ 1 \in DOMAIN Holdings[Hand(s)]
  BY FirstIsClone, Contents DEF IInv
<1>2. w >= Ded => w = s
  BY <1>1, Contents, Numbers DEF Home, HomeAt, Hand, IInv
<1>3. OnWay(Holdings, Hand(s), Queue(s, d), Ded)
  <2> SUFFICES ASSUME w >= Ded
               PROVE  /\ \E t \in Scanners : Distance(w, t, Queue(s, d)) # 0
                      /\ \A t \in Scanners : Distance(w, t, Queue(s, d)) # 0 =>
                           /\ Distance(w, t, Queue(s, d)) < Distance(w, t, Hand(s))
                           /\ \A r \in Places : ~ (Distance(w, t, Queue(s, d)) < Distance(w, t, r)
                                                   /\ Distance(w, t, r) < Distance(w, t, Hand(s)))
    BY DEF OnWay
  <2>1. \A t \in Scanners : t # d => Distance(w, t, Queue(s, d)) = 0
    BY <1>1, <1>2, Distances
  <2>2. Distance(w, d, Queue(s, d)) = 3 /\ Distance(w, d, Hand(s)) = 4
    BY <1>1, <1>2, Distances
  <2>3. \A r \in Places : Distance(w, d, r) \in 0 .. 5
    BY <1>1, Distances
  <2> QED  BY <2>1, <2>2, <2>3
<1> QED  BY <1>2, <1>3 DEF HomeAt, Queue

LEMMA PolledWay ==
  ASSUME IInv, Home(Holdings, Ded), NEW v \in Scanners, NEW s \in Scanners, s < Ded, Holdings[Queue(v, s)] # <<>>
  PROVE  /\ HomeAt(Hand(s), Holdings[Queue(v, s)][1], Ded)
         /\ OnWay(Holdings, Queue(v, s), Hand(s), Ded)
<1> DEFINE w == Holdings[Queue(v, s)][1][2]
<1>1. w \in Scanners /\ 1 \in DOMAIN Holdings[Queue(v, s)]
  BY FirstIsClone, Contents DEF IInv
<1>2. w >= Ded => w = v /\ w # s
  BY <1>1, Contents, Numbers DEF Home, HomeAt, Queue, IInv
<1>3. OnWay(Holdings, Queue(v, s), Hand(s), Ded)
  <2> SUFFICES ASSUME w >= Ded
               PROVE  /\ \E t \in Scanners : Distance(w, t, Hand(s)) # 0
                      /\ \A t \in Scanners : Distance(w, t, Hand(s)) # 0 =>
                           /\ Distance(w, t, Hand(s)) < Distance(w, t, Queue(v, s))
                           /\ \A r \in Places : ~ (Distance(w, t, Hand(s)) < Distance(w, t, r)
                                                   /\ Distance(w, t, r) < Distance(w, t, Queue(v, s)))
    BY DEF OnWay
  <2>1. \A t \in Scanners : t # s => Distance(w, t, Hand(s)) = 0
    BY <1>1, <1>2, Distances
  <2>2. Distance(w, s, Hand(s)) = 2 /\ Distance(w, s, Queue(v, s)) = 3
    BY <1>1, <1>2, Distances
  <2>3. \A r \in Places : Distance(w, s, r) \in 0 .. 5
    BY <1>1, Distances
  <2> QED  BY <2>1, <2>2, <2>3
<1> QED  BY <1>2, <1>3 DEF HomeAt, Hand

(* What is stolen is not a packet of a regular thread. *)
LEMMA StolenWay ==
  ASSUME IInv, Home(Holdings, Ded), NEW p \in Places, NEW q \in Places, Holdings[p] # <<>>,
         p[1] = "stolen" \/ (p[1] = "list" /\ p[2] \in Scanners /\ p[2] < Ded)
  PROVE  /\ HomeAt(q, Holdings[p][1], Ded) /\ Holdings[p][1][2] < Ded
         /\ OnWay(Holdings, p, q, Ded)
<1> DEFINE w == Holdings[p][1][2]
<1>1. w \in Scanners /\ 1 \in DOMAIN Holdings[p]
  BY FirstIsClone DEF IInv
<1>2. ~ (w >= Ded)
  BY <1>1, Numbers DEF Home, HomeAt, IInv
<1>3. w < Ded
  BY <1>1, <1>2, Numbers DEF IInv
<1> QED  BY <1>2, <1>3 DEF HomeAt, OnWay

-----------------------------------------------------------------------------
(* The scanners keep packets apart, and in order, and lose none unless     *)
(* they are told to stop.                                                  *)

LEMMA ScannerKeepsFlow ==
  ASSUME IInv, TypeOK', FlowInv, HandInv, NEW s \in Scanners, ScannerStep(s), ListsWhole'
  PROVE  /\ Apart(Holdings') /\ Home(Holdings', Ded) /\ InOrder(Holdings', Ded)
         /\ \A c : Present(Holdings', c) => Present(Holdings, c)
         /\ ~ done[s] => \A c : Present(Holdings, c) => Present(Holdings', c)
<1>1. Holdings \in Filling /\ Holdings' \in Filling /\ Ded \in Int
  BY HoldingsType, Numbers DEF IInv
<1>2. ASSUME NEW p \in Places, NEW q \in Places, Moved(Holdings, Holdings', p, q),
             HomeAt(q, Holdings[p][1], Ded), OnWay(Holdings, p, q, Ded)
      PROVE  /\ Apart(Holdings') /\ Home(Holdings', Ded) /\ InOrder(Holdings', Ded)
             /\ \A c : Present(Holdings', c) <=> Present(Holdings, c)
  BY <1>1, <1>2, StayApart, StayHome, StayInOrder, StayPresent DEF FlowInv
<1>3. CASE Holdings' = Holdings
  BY <1>3 DEF FlowInv
<1>4. CASE Moved(Holdings, Holdings', List(s), Hand(s))
  BY <1>2, <1>4, OwnWay, Contents DEF FlowInv, Moved, Taken
<1>5. CASE Moved(Holdings, Holdings', Hand(s), Scanned(s))
  BY <1>2, <1>5, ScannedWay, Contents DEF FlowInv, Moved, Taken
<1>6. ASSUME s < Ded, NEW w \in Scanners, Moved(Holdings, Holdings', Queue(w, s), Hand(s))
      PROVE  /\ Apart(Holdings') /\ Home(Holdings', Ded) /\ InOrder(Holdings', Ded)
             /\ \A c : Present(Holdings', c) <=> Present(Holdings, c)
  <2>1. Queue(w, s) \in Places /\ Hand(s) \in Places /\ Holdings[Queue(w, s)] # <<>>
    BY <1>6, Contents DEF Moved, Taken
  <2> QED  BY <1>2, <1>6, <2>1, PolledWay DEF FlowInv
<1>7. ASSUME s >= Ded, NEW d \in Scanners, Moved(Holdings, Holdings', Hand(s), Queue(s, d))
      PROVE  /\ Apart(Holdings') /\ Home(Holdings', Ded) /\ InOrder(Holdings', Ded)
             /\ \A c : Present(Holdings', c) <=> Present(Holdings, c)
  <2>1. Queue(s, d) \in Places /\ Hand(s) \in Places /\ Holdings[Hand(s)] # <<>>
    BY <1>7, Contents DEF Moved, Taken
  <2> QED  BY <1>2, <1>7, <2>1, HeavyWay DEF FlowInv
<1>8. ASSUME NEW d \in Scanners, d < Ded, Moved(Holdings, Holdings', List(d), Stolen(s))
      PROVE  /\ Apart(Holdings') /\ Home(Holdings', Ded) /\ InOrder(Holdings', Ded)
             /\ \A c : Present(Holdings', c) <=> Present(Holdings, c)
  <2>1. List(d) \in Places /\ Stolen(s) \in Places /\ Holdings[List(d)] # <<>>
    BY <1>8, Contents DEF Moved, Taken
  <2>2. List(d)[1] = "list" /\ List(d)[2] = d
    BY DEF List
  <2> QED  BY <1>2, <1>8, <2>1, <2>2, StolenWay DEF FlowInv
<1>9. CASE PutBack(Holdings, Holdings', Stolen(s), List(s))
  <2>1. List(s) \in Places /\ Stolen(s) \in Places /\ Holdings[Stolen(s)] # <<>> /\ Stolen(s)[1] = "stolen"
    BY <1>9, Contents DEF PutBack, Taken, Stolen
  <2>2. HomeAt(List(s), Holdings[Stolen(s)][1], Ded) /\ Holdings[Stolen(s)][1][2] < Ded
    BY <2>1, StolenWay DEF FlowInv
  <2> QED  BY <1>1, <1>9, <2>1, <2>2, StayApart, StayHome, BackInOrder, StayPresent DEF FlowInv
<1>10. CASE done[s] /\ Lost(Holdings, Holdings', Hand(s))
  <2>1. Hand(s) \in Places
    BY Contents
  <2> QED  BY <1>1, <1>10, <2>1, LostOrKept DEF FlowInv
<1> QED  BY <1>3, <1>4, <1>5, <1>6, <1>7, <1>8, <1>9, <1>10, ScannerFlows DEF Flow

-----------------------------------------------------------------------------
(* So does the manager, which only throws away what is left at the end, in *)
(* the queues of threads that have all been told to stop.                  *)

LEMMA MoreDedicated ==
  ASSUME NEW F \in Filling, NEW ded \in Int, NEW more \in Int, ded <= more
  PROVE  /\ Home(F, ded) => Home(F, more)
         /\ InOrder(F, ded) => InOrder(F, more)
<1>1. \A w \in Scanners : w >= more => w >= ded
  BY DEF Scanners
<1>2. Home(F, ded) => Home(F, more)
  <2> SUFFICES ASSUME Home(F, ded), NEW p \in Places, NEW i \in DOMAIN F[p], F[p][i][2] >= more
               PROVE  /\ p[1] = "list"  => F[p][i][2] = p[2]
                      /\ p[1] = "queue" => F[p][i][2] = p[2][1]
                      /\ p[1] = "hand"  => F[p][i][2] = p[2] \/ p[2] < more
                      /\ p[1] # "stolen"
    BY DEF Home, HomeAt
  <2>1. F[p][i] \in Clones
    BY Domains, ElementOfSeq
  <2>2. F[p][i][2] >= ded
    BY <1>1, <2>1 DEF Clones
  <2>3. p[1] = "hand" => p[2] \in Int
    BY DEF Places, Scanners
  <2> QED  BY <2>2, <2>3 DEF Home, HomeAt
<1>3. InOrder(F, ded) => InOrder(F, more)
  BY <1>1 DEF InOrder
<1> QED  BY <1>2, <1>3

LEMMA ManagerFlows ==
  ASSUME IInv, ManagerStep
  PROVE  \/ Holdings' = Holdings
         \/ stopped /\ \E p \in Places : Lost(Holdings, Holdings', p)
<1>1. UNCHANGED <<packet, next_packet, free_queue>>
  <2>1. UNCHANGED scannerLocals
    BY ManagerMoves
  <2>2. UNCHANGED free_queue
    BY DEF ManagerStep, scannerSide, Watch, CountDone, Prepare, OverrunMatrix, PublishRegular,
       PublishDedicated, SwitchLock, SwitchType, SwitchMode, RegularsDone, StopDedicated, InputsEmpty,
       Stop, StopNext, AlertLoop, FreeTargets, Drain, FreeQueue
  <2> QED  BY <2>1, <2>2 DEF scannerLocals, stealing
<1>2. UNCHANGED list
  BY DEF ManagerStep, lists, Watch, CountDone, Prepare, OverrunMatrix, PublishRegular, PublishDedicated,
     SwitchLock, SwitchType, SwitchMode, RegularsDone, StopDedicated, InputsEmpty, Stop, StopNext,
     AlertLoop, FreeTargets, Drain, FreeQueue
<1>3. CASE Drain \/ FreeQueue
  <2>1. stopped
    BY <1>3 DEF Drain, FreeQueue, IInv, StopInv, Freeing
  <2>2. queue' = [queue EXCEPT ![<<mj + Ded, mi>>] = <<>>]
    BY <1>3 DEF Drain, FreeQueue
  <2>3. queue \in [Pairs -> Seq(Clones)]
    BY DEF IInv, TypeOK
  <2> DEFINE w == mj + Ded
             d == mi
  <2>4. CASE w \in Scanners /\ d \in Scanners
    <3>1. /\ queue'[<<w, d>>] = <<>>
          /\ \A v, e \in Scanners : <<v, e>> # <<w, d>> => queue'[<<v, e>>] = queue[<<v, e>>]
      BY <2>2, <2>3, <2>4 DEF Pairs
    <3> HIDE DEF w, d
    <3>2. \A p \in Places \ {Queue(w, d)} : Holdings'[p] = Holdings[p]
      <4> DEFINE S == {Queue(w, d)}
      <4> HIDE DEF S
      <4>1. \A v, e \in Scanners : Queue(v, e) \notin S => queue'[<<v, e>>] = queue[<<v, e>>]
        BY <2>4, <3>1, Names DEF S
      <4>2. \A p \in Places \ S : Holdings'[p] = Holdings[p]
        BY <1>1, <1>2, <4>1, OthersKept
      <4> QED  BY <4>2 DEF S
    <3>3. Holdings'[Queue(w, d)] = <<>> /\ Queue(w, d) \in Places
      BY <2>4, <3>1, Contents
    <3> QED  BY <2>1, <3>2, <3>3 DEF Lost
  <2>5. CASE ~ (w \in Scanners /\ d \in Scanners)
    <3>1. queue' = queue
      BY <2>2, <2>3, <2>5 DEF Pairs
    <3> QED  BY <1>1, <1>2, <3>1, AllKept
  <2> QED  BY <2>4, <2>5
<1>4. CASE ~ (Drain \/ FreeQueue)
  <2>1. UNCHANGED queue
    BY <1>4 DEF ManagerStep, matrix, Watch, CountDone, Prepare, OverrunMatrix, PublishRegular,
       PublishDedicated, SwitchLock, SwitchType, SwitchMode, RegularsDone, StopDedicated, InputsEmpty,
       Stop, StopNext, AlertLoop, FreeTargets
  <2> QED  BY <1>1, <1>2, <2>1, AllKept
<1> QED  BY <1>3, <1>4

LEMMA ManagerKeepsFlow ==
  ASSUME IInv, IInv', FlowInv, ManagerStep
  PROVE  /\ FlowInv'
         /\ \A c : Present(Holdings', c) => Present(Holdings, c)
         /\ ~ stopped => \A c : Present(Holdings, c) => Present(Holdings', c)
<1>1. Holdings \in Filling /\ Holdings' \in Filling
  BY HoldingsType DEF IInv
<1>2. Apart(Holdings') /\ Home(Holdings', Ded) /\ InOrder(Holdings', Ded)
      /\ (\A c : Present(Holdings', c) => Present(Holdings, c))
      /\ (~ stopped => \A c : Present(Holdings, c) => Present(Holdings', c))
  BY <1>1, ManagerFlows, LostOrKept DEF FlowInv
<1>3. Ded <= Ded' /\ Ded \in Int /\ Ded' \in Int
  <2>1. Ded \in Nat /\ Ded' \in Nat /\ (Ded = 0 \/ Ded' = Ded)
    <3>1. Ded \in Nat /\ Ded' \in Nat
      BY SystemAssumption DEF IInv, TypeOK, Ded
    <3>2. CASE Published
      BY <3>1, <3>2, ManagerMoves
    <3>3. CASE ~ Published
      BY <3>1, <3>3 DEF IInv, CalmInv, MatrixInv, Published
    <3> QED  BY <3>2, <3>3
  <2> QED  BY <2>1
<1> QED  BY <1>1, <1>2, <1>3, MoreDedicated DEF FlowInv

-----------------------------------------------------------------------------
(* The reader puts a packet last in every list, later than all there are.  *)

Read(F, G, n) ==
  /\ \A s \in Scanners : G[List(s)] = Append(F[List(s)], <<n, s>>)
  /\ \A p \in Places : (\A s \in Scanners : p # List(s)) => G[p] = F[p]

(* What is at place i of p was there, or is what has just been read. *)
WasThere(F, G, p, i) == i \in DOMAIN F[p] /\ F[p][i] = G[p][i]
JustRead(F, G, p, i, n) ==
  \E s \in Scanners : p = List(s) /\ i = Len(F[p]) + 1 /\ G[p][i] = <<n, s>>

LEMMA ReadElements ==
  ASSUME NEW F \in Filling, NEW G \in Filling, NEW n, Read(F, G, n)
  PROVE  /\ \A p \in Places : \A i \in DOMAIN G[p] : WasThere(F, G, p, i) \/ JustRead(F, G, p, i, n)
         /\ \A p \in Places : \A i \in DOMAIN F[p] : i \in DOMAIN G[p] /\ F[p][i] = G[p][i]
         /\ \A s \in Scanners : List(s) \in Places /\ \E i \in DOMAIN G[List(s)] : G[List(s)][i] = <<n, s>>
<1>1. ASSUME NEW s \in Scanners
      PROVE  /\ List(s) \in Places /\ Len(F[List(s)]) \in Nat
             /\ DOMAIN F[List(s)] = 1 .. Len(F[List(s)]) /\ DOMAIN G[List(s)] = 1 .. Len(F[List(s)]) + 1
             /\ \A i \in 1 .. Len(F[List(s)]) : G[List(s)][i] = F[List(s)][i]
             /\ G[List(s)][Len(F[List(s)]) + 1] = <<n, s>>
  <2>1. List(s) \in Places
    BY Contents
  <2>2. F[List(s)] \in Seq(Clones) /\ G[List(s)] = Append(F[List(s)], <<n, s>>) /\ G[List(s)] \in Seq(Clones)
    BY <2>1, Domains DEF Read
  <2>3. F[List(s)] \in Seq(Clones \cup {<<n, s>>}) /\ <<n, s>> \in Clones \cup {<<n, s>>}
    BY <2>2
  <2>4. /\ Len(G[List(s)]) = Len(F[List(s)]) + 1 /\ G[List(s)][Len(F[List(s)]) + 1] = <<n, s>>
        /\ \A i \in 1 .. Len(F[List(s)]) : G[List(s)][i] = F[List(s)][i]
    BY <2>2, <2>3, AppendProperties
  <2> QED  BY <2>1, <2>4, Domains
<1>2. ASSUME NEW p \in Places, \A s \in Scanners : p # List(s) PROVE G[p] = F[p]
  BY <1>2 DEF Read
<1>3. \A p \in Places : \A i \in DOMAIN G[p] : WasThere(F, G, p, i) \/ JustRead(F, G, p, i, n)
  BY <1>1, <1>2 DEF WasThere, JustRead
<1>4. \A p \in Places : \A i \in DOMAIN F[p] : i \in DOMAIN G[p] /\ F[p][i] = G[p][i]
  BY <1>1, <1>2
<1>5. \A s \in Scanners : Len(F[List(s)]) + 1 \in DOMAIN G[List(s)]
  BY <1>1
<1> QED  BY <1>1, <1>3, <1>4, <1>5

LEMMA ReadKeeps ==
  ASSUME NEW F \in Filling, NEW G \in Filling, NEW n \in Int, Read(F, G, n), NEW ded,
         \A c : Present(F, c) => c[1] < n
  PROVE  /\ Apart(F) => Apart(G)
         /\ Home(F, ded) => Home(G, ded)
         /\ InOrder(F, ded) => InOrder(G, ded)
         /\ \A c : Present(G, c) <=> Present(F, c) \/ \E s \in Scanners : c = <<n, s>>
<1>1. \A p \in Places : \A i \in DOMAIN F[p] : F[p][i][1] < n /\ F[p][i][1] # n
  <2> SUFFICES ASSUME NEW p \in Places, NEW i \in DOMAIN F[p] PROVE F[p][i][1] < n /\ F[p][i][1] # n
    OBVIOUS
  <2>1. F[p][i][1] < n
    BY DEF Present
  <2>2. F[p][i] \in Clones
    BY Domains, ElementOfSeq
  <2> QED  BY <2>1, <2>2 DEF Clones
<1>2. ASSUME Apart(F) PROVE Apart(G)
  <2> SUFFICES ASSUME NEW p \in Places, NEW i \in DOMAIN G[p], NEW q \in Places, NEW j \in DOMAIN G[q],
                      G[p][i] = G[q][j]
               PROVE  p = q /\ i = j
    BY DEF Apart
  <2>1. CASE WasThere(F, G, p, i) /\ WasThere(F, G, q, j)
    BY <1>2, <2>1 DEF Apart, WasThere
  <2>2. CASE JustRead(F, G, p, i, n) /\ JustRead(F, G, q, j, n)
    BY <2>2 DEF JustRead
  <2>3. ~ (WasThere(F, G, p, i) /\ JustRead(F, G, q, j, n)) /\ ~ (JustRead(F, G, p, i, n) /\ WasThere(F, G, q, j))
    BY <1>1 DEF WasThere, JustRead
  <2> QED  BY <2>1, <2>2, <2>3, ReadElements
<1>3. ASSUME Home(F, ded) PROVE Home(G, ded)
  <2> SUFFICES ASSUME NEW p \in Places, NEW i \in DOMAIN G[p] PROVE HomeAt(p, G[p][i], ded)
    BY DEF Home
  <2>1. CASE WasThere(F, G, p, i)
    BY <1>3, <2>1 DEF Home, WasThere
  <2>2. CASE JustRead(F, G, p, i, n)
    BY <2>2 DEF JustRead, HomeAt, List
  <2> QED  BY <2>1, <2>2, ReadElements
<1>4. ASSUME InOrder(F, ded) PROVE InOrder(G, ded)
  <2> SUFFICES ASSUME NEW w \in Scanners, w >= ded, NEW p \in Places, NEW q \in Places,
                      NEW i \in DOMAIN G[p], NEW j \in DOMAIN G[q], G[p][i][2] = w, G[q][j][2] = w,
                      \/ p = q /\ i < j
                      \/ \E s \in Scanners : 0 < Distance(w, s, p) /\ Distance(w, s, p) < Distance(w, s, q)
               PROVE  G[p][i][1] < G[q][j][1]
    BY DEF InOrder
  <2>0. /\ WasThere(F, G, p, i) \/ JustRead(F, G, p, i, n)
        /\ WasThere(F, G, q, j) \/ JustRead(F, G, q, j, n)
    BY ReadElements
  <2>1. CASE WasThere(F, G, p, i) /\ WasThere(F, G, q, j)
    <3>1. i \in DOMAIN F[p] /\ j \in DOMAIN F[q] /\ F[p][i] = G[p][i] /\ F[q][j] = G[q][j]
      BY <2>1 DEF WasThere
    <3>2. p = q /\ i < j => F[p][i][1] < F[q][j][1]
      BY <1>4, <3>1 DEF InOrder
    <3>3. ASSUME NEW s \in Scanners, 0 < Distance(w, s, p), Distance(w, s, p) < Distance(w, s, q)
          PROVE  F[p][i][1] < F[q][j][1]
      BY <1>4, <3>1, <3>3 DEF InOrder
    <3> QED  BY <3>1, <3>2, <3>3
  <2>2. CASE WasThere(F, G, p, i) /\ JustRead(F, G, q, j, n)
    BY <1>1, <2>2 DEF WasThere, JustRead
  <2>3. CASE JustRead(F, G, p, i, n)
    <3>1. p = List(w) /\ i = Len(F[p]) + 1 /\ i \in Int
      BY <2>3, Domains DEF JustRead
    <3>2. \A s \in Scanners : Distance(w, s, p) = 5 /\ Distance(w, s, q) \in 0 .. 5
      BY <3>1, Distances
    <3>3. p = q /\ i < j
      BY <3>2
    <3>4. ~ WasThere(F, G, q, j) /\ ~ JustRead(F, G, q, j, n)
      <4>1. j \in Int /\ i \in Int /\ DOMAIN F[p] = 1 .. Len(F[p]) /\ DOMAIN G[q] \subseteq Int /\ Len(F[p]) \in Int
        BY Domains
      <4>2. j # Len(F[p]) + 1 /\ j \notin DOMAIN F[p]
        BY <3>1, <3>3, <4>1
      <4> QED  BY <3>3, <4>2 DEF WasThere, JustRead
    <3> QED  BY <2>0, <3>4
  <2> QED  BY <2>0, <2>1, <2>2, <2>3
<1>5. ASSUME NEW c PROVE Present(G, c) <=> Present(F, c) \/ \E s \in Scanners : c = <<n, s>>
  <2>1. Present(G, c) => Present(F, c) \/ \E s \in Scanners : c = <<n, s>>
    <3> SUFFICES ASSUME NEW p \in Places, NEW i \in DOMAIN G[p], G[p][i] = c
                 PROVE  Present(F, c) \/ \E s \in Scanners : c = <<n, s>>
      BY DEF Present
    <3>1. WasThere(F, G, p, i) \/ JustRead(F, G, p, i, n)
      BY ReadElements
    <3> QED  BY <3>1 DEF Present, WasThere, JustRead
  <2>2. Present(F, c) => Present(G, c)
    BY ReadElements DEF Present
  <2>3. ASSUME NEW s \in Scanners, c = <<n, s>> PROVE Present(G, c)
    BY <2>3, ReadElements DEF Present
  <2> QED  BY <2>1, <2>2, <2>3
<1> QED  BY <1>2, <1>3, <1>4, <1>5

LEMMA ReaderKeepsFlow ==
  ASSUME IInv, IInv', FlowInv, ReaderStep, \A c \in Clones : Present(Holdings, c) => c[1] <= count
  PROVE  /\ FlowInv'
         /\ \A c : Present(Holdings', c)
              <=> Present(Holdings, c) \/ (count' = count + 1 /\ \E s \in Scanners : c = <<count + 1, s>>)
         /\ count' \in {count, count + 1}
<1> USE DEF ReaderStep, unreadable, matrix, counts, scannerLocals, stealing
<1>1. /\ UNCHANGED <<packet, next_packet, free_queue, queue, num_of_dedicated_threads>> /\ Ded' = Ded
      /\ count \in Nat
  BY SystemAssumption DEF ReadPacket, EndOfTrace, Ded, IInv, TypeOK
<1>2. CASE EndOfTrace
  <2>1. UNCHANGED <<list, count>>
    BY <1>2 DEF EndOfTrace
  <2>2. Holdings' = Holdings
    BY <1>1, <2>1, AllKept
  <2>3. FlowInv'
    BY <1>1, <2>2 DEF FlowInv
  <2>4. count' # count + 1
    BY <1>1, <2>1
  <2> QED  BY <2>1, <2>2, <2>3, <2>4
<1>3. CASE ReadPacket
  <2>1. count' = count + 1 /\ \A s \in Scanners : list'[s] = Append(list[s], <<count + 1, s>>)
    BY <1>3 DEF ReadPacket
  <2>2. \A p \in Places \ {List(s) : s \in Scanners} : Holdings'[p] = Holdings[p]
    <3> DEFINE S == {List(s) : s \in Scanners}
    <3>1. \A s \in Scanners : List(s) \in S
      OBVIOUS
    <3> HIDE DEF S
    <3>2. \A p \in Places \ S : Holdings'[p] = Holdings[p]
      BY <1>1, <3>1, OthersKept
    <3> QED  BY <3>2 DEF S
  <2>3. \A s \in Scanners : Holdings'[List(s)] = Append(Holdings[List(s)], <<count + 1, s>>)
    BY <2>1, Contents
  <2>4. Read(Holdings, Holdings', count + 1)
    BY <2>2, <2>3 DEF Read
  <2>5. Holdings \in Filling /\ Holdings' \in Filling
    BY HoldingsType DEF IInv
  <2>6. \A c : Present(Holdings, c) => c[1] < count + 1
    <3> SUFFICES ASSUME NEW p \in Places, NEW i \in DOMAIN Holdings[p]
                 PROVE  Holdings[p][i][1] < count + 1
      BY DEF Present
    <3>1. Holdings[p][i] \in Clones
      BY <2>5, Domains, ElementOfSeq
    <3>2. Present(Holdings, Holdings[p][i])
      BY DEF Present
    <3>3. Holdings[p][i][1] <= count /\ Holdings[p][i][1] \in Int
      BY <3>1, <3>2 DEF Clones
    <3> QED  BY <1>1, <3>3
  <2>7. count + 1 \in Int
    BY <1>1
  <2> HIDE DEF ReaderStep
  <2> QED  BY <1>1, <2>1, <2>4, <2>5, <2>6, <2>7, ReadKeeps DEF FlowInv
<1> QED  BY <1>2, <1>3

(* Main touches no packet. *)
LEMMA MainFlows ==
  ASSUME MainThread
  PROVE  Holdings' = Holdings /\ UNCHANGED <<count, done, free_queue, packet, list, Ded, alert_mode_used>>
         /\ (stopped => stopped')
<1> USE DEF shared, lists, matrix, counts, stopping, scannerLocals, stealing, readerVars
<1>1. UNCHANGED <<list, packet, next_packet, free_queue, queue, count, done, counts>> /\ (stopped => stopped')
  BY DEF MainThread, StartReader, StartManager, StartScanner, JoinScanner, StopManager, JoinManager
<1> QED  BY <1>1, AllKept DEF Ded

-----------------------------------------------------------------------------
(* The invariant, conjunct by conjunct. *)

LEMMA InitPInv == Init => PInv
<1> SUFFICES ASSUME Init PROVE PInv
  OBVIOUS
<1> USE SystemAssumption DEF Init, SharedInit, ManagerInit, ReaderInit
<1>1. IInv
  BY InitIInv
<1>2. \A p \in Places : Holdings[p] = <<>>
  <2> SUFFICES ASSUME NEW p \in Places PROVE Holdings[p] = <<>>
    OBVIOUS
  <2>1. \A s \in Scanners : /\ Holdings[List(s)] = <<>> /\ Holdings[Hand(s)] = <<>>
                            /\ Holdings[Stolen(s)] = <<>> /\ Holdings[Scanned(s)] = <<>>
    BY Contents, OneOfType
  <2>2. \A w, d \in Scanners : Holdings[Queue(w, d)] = <<>>
    BY Contents DEF Pairs
  <2> QED  BY <2>1, <2>2, Kinds
<1>3. FlowInv /\ ~ \E c : Present(Holdings, c)
  BY <1>2 DEF FlowInv, Apart, Home, InOrder, Present
<1>4. KeptInv
  BY <1>3 DEF KeptInv, Clones
<1>5. ReaderInv /\ HandInv
  BY DEF ReaderInv, HandInv
<1>6. CalmScan
  <2>1. OneOf(NoPacket) = <<>>
    BY OneOfType
  <2>2. \A s \in Scanners : Copies(s, 0) = <<>>
    BY DEF Copies
  <2> QED  BY <2>1, <2>2 DEF CalmScan, Calm
<1> QED  BY <1>1, <1>3, <1>4, <1>5, <1>6 DEF PInv

LEMMA StepKeepsReader ==
  ASSUME PInv, Next
  PROVE  ReaderInv'
<1> USE DEF shared, lists, readerVars
<1>1. ReaderInv
  BY DEF PInv
<1>2. CASE MainThread
  <2>1. UNCHANGED <<listDone, count>>
    BY <1>2 DEF MainThread, StartReader, StartManager, StartScanner, JoinScanner, StopManager, JoinManager
  <2>2. CASE StartReader
    BY <2>2 DEF StartReader, ReaderInv
  <2>3. CASE StartManager
    BY <1>1, <2>1, <2>3 DEF StartManager, ReaderInv
  <2>4. CASE StartScanner \/ JoinScanner \/ StopManager \/ JoinManager
    <3>1. reader' = reader /\ main \notin {"start_reader", "join_reader"}
      BY <2>4 DEF StartScanner, JoinScanner, StopManager, JoinManager
    <3> QED  BY <1>1, <2>1, <3>1 DEF ReaderInv
  <2> QED  BY <1>2, <2>2, <2>3, <2>4 DEF MainThread
<1>3. CASE ReaderThread
  BY <1>1, <1>3 DEF ReaderThread, ReaderStep, ReadPacket, EndOfTrace, MarkDone, ReaderInv
<1>4. CASE ManagerThread
  <2>1. UNCHANGED listDone
    BY <1>4 DEF ManagerThread, ManagerStep, Watch, CountDone, Prepare, OverrunMatrix, PublishRegular,
       PublishDedicated, SwitchLock, SwitchType, SwitchMode, RegularsDone, StopDedicated, InputsEmpty,
       Stop, StopNext, AlertLoop, FreeTargets, Drain, FreeQueue
  <2> QED  BY <1>1, <1>4, <2>1 DEF ManagerThread, ReaderInv
<1>5. ASSUME NEW s \in Scanners, ScannerThread(s) PROVE ReaderInv'
  <2>1. UNCHANGED listDone
    BY <1>5 DEF ScannerThread, ScannerStep, Loop, ReadOwn, BeginOwn, UnlinkOwn, Poll, Fallback, Check, Match,
       MatchTable, PickTarget, EnqueueHeavy, StealTake, StealOverlap, StealPut, StealEnd, ScannerDone, Crash
  <2> QED  BY <1>1, <1>5, <2>1 DEF ScannerThread, ReaderInv
<1>6. CASE Ended
  BY <1>1, <1>6 DEF Ended, vars, ReaderInv
<1> QED  BY <1>2, <1>3, <1>4, <1>5, <1>6 DEF Next

LEMMA StepKeepsHands ==
  ASSUME PInv, Next, ListsWhole'
  PROVE  HandInv'
<1> USE DEF shared, scannerLocals, stealing
<1>1. IInv /\ HandInv
  BY DEF PInv
<1>2. CASE MainThread
  <2>1. UNCHANGED <<packet, next_packet>>
    BY <1>2 DEF MainThread, StartReader, StartManager, StartScanner, JoinScanner, StopManager, JoinManager
  <2>2. StartScanner => pc[nth] = "off" /\ pc' = [pc EXCEPT ![nth] = "loop"]
    BY <1>1, Numbers DEF StartScanner, IInv, MainInv, TypeOK
  <2>3. ~ StartScanner => pc' = pc
    BY <1>2 DEF MainThread, StartReader, StartManager, JoinScanner, StopManager, JoinManager
  <2> QED  BY <1>1, <2>1, <2>2, <2>3 DEF HandInv, IInv, TypeOK
<1>3. CASE ReaderThread
  BY <1>1, <1>3 DEF ReaderThread, ReaderStep, ReadPacket, EndOfTrace, unreadable, HandInv
<1>4. CASE ManagerThread
  BY <1>1, <1>4, ManagerMoves DEF ManagerThread, HandInv
<1>5. ASSUME NEW s \in Scanners, ScannerThread(s) PROVE HandInv'
  BY <1>1, <1>5, ScannerKeepsHands DEF ScannerThread
<1>6. CASE Ended
  BY <1>1, <1>6 DEF Ended, vars, HandInv
<1> QED  BY <1>2, <1>3, <1>4, <1>5, <1>6 DEF Next

LEMMA StepKeepsPackets ==
  ASSUME PInv, IInv', Next, ListsWhole'
  PROVE  FlowInv' /\ KeptInv'
<1>1. IInv /\ HandInv /\ FlowInv /\ KeptInv
  BY DEF PInv
<1> DEFINE Told == stopped \/ \E s \in Scanners : done[s]
<1>2. ASSUME \A c : Present(Holdings', c) => Present(Holdings, c), count' = count, Told => Told',
             ~ Told' => \A c : Present(Holdings, c) => Present(Holdings', c)
      PROVE  KeptInv'
  BY <1>1, <1>2 DEF KeptInv
<1>3. CASE MainThread \/ Ended
  <2>1. Holdings' = Holdings /\ UNCHANGED <<count, done, Ded>> /\ (stopped => stopped')
    BY <1>3, MainFlows, AllKept DEF Ended, vars, shared, lists, matrix, counts, stopping, scannerLocals,
       stealing, readerVars, Ded
  <2> QED  BY <1>1, <1>2, <2>1 DEF FlowInv
<1>4. CASE ReaderThread
  <2>0. /\ ReaderStep /\ count \in Int /\ UNCHANGED stopping
        /\ \A c \in Clones : Present(Holdings, c) => c[1] <= count
    <3>1. ReaderStep
      BY <1>4 DEF ReaderThread
    <3>2. UNCHANGED stopping
      BY <3>1 DEF ReaderStep, ReadPacket, EndOfTrace, unreadable
    <3>3. count \in Int
      BY <1>1, SystemAssumption DEF IInv, TypeOK
    <3> QED  BY <1>1, <3>1, <3>2, <3>3 DEF KeptInv
  <2>1. /\ FlowInv' /\ count' \in {count, count + 1}
        /\ \A c : Present(Holdings', c)
              <=> Present(Holdings, c) \/ (count' = count + 1 /\ \E s \in Scanners : c = <<count + 1, s>>)
    BY <1>1, <2>0, ReaderKeepsFlow
  <2>2. \A c \in Clones : c[1] \in Int /\ c[2] \in Scanners /\ c = <<c[1], c[2]>>
    BY DEF Clones
  <2>3. \A c \in Clones : Present(Holdings', c) => c[1] <= count'
    BY <1>1, <2>0, <2>1, <2>2 DEF KeptInv
  <2>4. ASSUME ~ stopped', \A s \in Scanners : ~ done'[s], NEW c \in Clones, c[1] <= count'
        PROVE  Present(Holdings', c)
    <3>1. CASE c[1] <= count
      BY <1>1, <2>0, <2>1, <2>4, <3>1 DEF KeptInv, stopping
    <3>2. CASE ~ (c[1] <= count)
      BY <2>0, <2>1, <2>2, <2>4, <3>2
    <3> QED  BY <3>1, <3>2
  <2> QED  BY <2>1, <2>3, <2>4 DEF KeptInv
<1>5. CASE ManagerThread
  BY <1>1, <1>2, <1>5, ManagerKeepsFlow, ManagerMoves DEF ManagerThread, readerVars
<1>6. ASSUME NEW s \in Scanners, ScannerThread(s) PROVE FlowInv' /\ KeptInv'
  <2>1. ScannerStep(s) /\ count' = count
    BY <1>6 DEF ScannerThread, readerVars
  <2>2. /\ Ded' = Ded /\ (stopped => stopped') /\ \A t \in Scanners : done[t] => done'[t]
    BY <1>1, <2>1, ScannerMoves DEF IInv, counts, stopping, StopAll, Ded
  <2>3. /\ Apart(Holdings') /\ Home(Holdings', Ded) /\ InOrder(Holdings', Ded)
        /\ \A c : Present(Holdings', c) => Present(Holdings, c)
        /\ ~ done[s] => \A c : Present(Holdings, c) => Present(Holdings', c)
    BY <1>1, <2>1, ScannerKeepsFlow DEF IInv
  <2>4. KeptInv'
    BY <1>2, <2>1, <2>2, <2>3
  <2> QED  BY <2>2, <2>3, <2>4 DEF FlowInv
<1> QED  BY <1>3, <1>4, <1>5, <1>6 DEF Next

(* Before alert mode no scanner is told to stop, nor comes upon an empty   *)
(* list that more could be put in: the reader is gone.                     *)
LEMMA CalmFacts ==
  ASSUME PInv, ~ alert_mode_used, NEW s \in Scanners
  PROVE  /\ Calm(s) /\ isTableMachine[s] /\ ~ alert_mode_active[s]
         /\ pc[s] \notin {"poll", "fallback", "transfer", "enqueue", "steal", "reinsert"}
         /\ pc[s] # "off" => reader = "gone" /\ listDone[s]
<1>1. Calm(s)
  BY DEF PInv, CalmScan
<1>2. isTableMachine[s] /\ ~ alert_mode_active[s]
  BY DEF PInv, IInv, CalmInv
<1>3. pc[s] \notin {"poll", "fallback", "transfer", "enqueue", "steal", "reinsert"}
  BY <1>2 DEF PInv, IInv, RoleInv, Published
<1>4. pc[s] # "off" => main \notin {"start_reader", "join_reader"}
  BY Numbers DEF PInv, IInv, MainInv
<1> QED  BY <1>1, <1>2, <1>3, <1>4 DEF PInv, ReaderInv

(* What is taken is not lost on the way, and what is read comes last. *)
LEMMA TakenOver ==
  ASSUME NEW g \in Seq(Clones), NEW f \in Seq(Clones), f # <<>>
  PROVE  g \o OneOf(Head(f)) \o Tail(f) = g \o OneOf(NoPacket) \o f
<1>1. Head(f) \in Clones /\ Tail(f) \in Seq(Clones) /\ f = <<Head(f)>> \o Tail(f)
  <2>1. Head(f) \in Clones /\ Tail(f) \in Seq(Clones) /\ Len(f) \in Nat \ {0}
    BY HeadTailProperties, EmptySeq, LenProperties
  <2>2. SubSeq(f, 1, Len(f)) = <<f[1]>> \o SubSeq(f, 2, Len(f))
    BY <2>1, SubSeqRecursiveFirst
  <2>3. SubSeq(f, 1, Len(f)) = f /\ SubSeq(f, 2, Len(f)) = Tail(f) /\ f[1] = Head(f)
    BY <2>1, TailIsSubSeq, SubSeqFull
  <2> QED  BY <2>1, <2>2, <2>3
<1>2. OneOf(Head(f)) = <<Head(f)>> /\ <<Head(f)>> \in Seq(Clones) /\ OneOf(NoPacket) = <<>>
  BY <1>1, OneOfType, NotAClone
<1>3. g \o OneOf(NoPacket) = g
  BY <1>2, ConcatEmptySeq
<1>4. (g \o <<Head(f)>>) \o Tail(f) = g \o (<<Head(f)>> \o Tail(f))
  BY <1>1, <1>2, ConcatAssociative
<1> QED  BY <1>1, <1>2, <1>3, <1>4

LEMMA AppendLast ==
  ASSUME NEW g \in Seq(Clones), NEW f \in Seq(Clones), NEW c \in Clones
  PROVE  g \o Append(f, c) = Append(g \o f, c)
<1>1. <<c>> \in Seq(Clones)
  OBVIOUS
<1>2. (g \o f) \o <<c>> = g \o (f \o <<c>>)
  BY <1>1, ConcatAssociative
<1>3. g \o f \in Seq(Clones)
  BY ConcatProperties
<1>4. Append(f, c) = f \o <<c>> /\ Append(g \o f, c) = (g \o f) \o <<c>>
  BY <1>3, AppendIsConcat
<1> QED  BY <1>2, <1>4

LEMMA ReadLast ==
  ASSUME NEW s \in Scanners, NEW n \in Nat, n < NumPackets, NEW g \in Seq(Clones), NEW f \in Seq(Clones),
         g \o f = Copies(s, n)
  PROVE  g \o Append(f, <<n + 1, s>>) = Copies(s, n + 1)
<1> DEFINE c == <<n + 1, s>>
           h == g \o f
<1>1. c \in Clones /\ <<c>> \in Seq(Clones)
  BY SystemAssumption DEF Clones
<1>2. h \in Seq(Clones)
  BY ConcatProperties
<1>0. h = g \o f
  OBVIOUS
<1> HIDE DEF c, h
<1>3. g \o Append(f, c) = Append(h, c)
  BY <1>0, <1>1, AppendLast
<1>4. /\ Append(h, c) \in Seq(Clones) /\ Len(Append(h, c)) = Len(h) + 1
      /\ \A i \in 1 .. Len(h) : Append(h, c)[i] = h[i]
      /\ Append(h, c)[Len(h) + 1] = c
  BY <1>1, <1>2, AppendProperties
<1>5. Len(h) = n /\ \A i \in 1 .. n : h[i] = <<i, s>>
  <2>1. DOMAIN h = 1 .. n
    BY <1>0 DEF Copies
  <2> QED  BY <1>0, <1>2, <2>1, LenProperties DEF Copies
<1>6. \A i \in 1 .. n + 1 : Append(h, c)[i] = <<i, s>>
  BY <1>4, <1>5 DEF c
<1>7. Append(h, c) = [i \in 1 .. n + 1 |-> Append(h, c)[i]]
  <2> DEFINE k == Append(h, c)
  <2>1. k \in Seq(Clones) /\ Len(k) = n + 1
    BY <1>4, <1>5
  <2> HIDE DEF k
  <2>2. DOMAIN k = 1 .. n + 1 /\ k = [i \in DOMAIN k |-> k[i]]
    BY <2>1, LenProperties
  <2> QED  BY <2>2 DEF k
<1> QED  BY <1>3, <1>6, <1>7 DEF c, Copies

(* A scanner goes on to the next of its copies. *)
LEMMA ScannerKeepsCalm ==
  ASSUME PInv, ~ alert_mode_used, NEW s \in Scanners, ScannerStep(s), UNCHANGED count
  PROVE  \A t \in Scanners : Calm(t)'
<1> USE DEF lists, stopping, scannerLocals
<1>1. /\ list \in [Scanners -> Seq(Clones)] /\ free_queue \in [Scanners -> Seq(Clones)]
      /\ packet \in [Scanners -> Clones \cup {NoPacket}] /\ pc \in [Scanners -> ScannerLabels]
  BY DEF PInv, IInv, TypeOK
<1>2. \A t \in Scanners : Calm(t) /\ (pc[t] # "off" => listDone[t])
  BY CalmFacts
<1>3. \/ Loop(s) \/ ReadOwn(s) \/ BeginOwn(s) \/ UnlinkOwn(s) \/ Check(s)
      \/ Match(s) \/ MatchTable(s) \/ ScannerDone(s)
  BY CalmFacts DEF ScannerStep, Poll, Fallback, PickTarget, EnqueueHeavy, StealTake, StealOverlap, StealPut,
     StealEnd, Crash
<1>4. OneOf(NoPacket) = <<>> /\ NoPacket \notin Clones
  BY OneOfType, NotAClone
<1>5. UNCHANGED done
  BY <1>2, <1>3 DEF Loop, ReadOwn, BeginOwn, UnlinkOwn, Check, Match, MatchTable, ScannerDone, DequeueStatus
<1>6. /\ \A t \in Scanners : t # s => /\ list'[t] = list[t] /\ free_queue'[t] = free_queue[t]
                                      /\ packet'[t] = packet[t] /\ pc'[t] = pc[t]
  BY <1>1, <1>3 DEF Loop, ReadOwn, BeginOwn, UnlinkOwn, Check, Match, MatchTable, ScannerDone, Goto, Hold,
     Release, RemoveFirst
<1>7. \A t \in Scanners : t # s => Calm(t)'
  BY <1>2, <1>5, <1>6 DEF Calm
<1>8. ~ done'[s]
  BY <1>2, <1>5 DEF Calm
<1>9. CASE Loop(s) \/ BeginOwn(s) \/ ScannerDone(s)
  <2>1. UNCHANGED <<list, free_queue, packet>>
        /\ pc'[s] # "check" /\ (pc'[s] \in {"exit", "gone"} => pc[s] = "exit")
    BY <1>1, <1>2, <1>9, CalmFacts DEF Loop, BeginOwn, ScannerDone, Goto, ReadsOwnList, Calm, ScannerLabels
  <2> QED  BY <1>2, <1>7, <1>8, <2>1 DEF Calm
<1>10. CASE ReadOwn(s) \/ UnlinkOwn(s)
  <2>1. packet[s] = NoPacket /\ UNCHANGED free_queue
    BY <1>10 DEF ReadOwn, UnlinkOwn, PInv, HandInv
  <2>2. pc'[s] = "check" /\ packet'[s] = First(s)
        /\ list'[s] = IF list[s] = <<>> THEN list[s] ELSE Tail(list[s])
    BY <1>1, <1>10 DEF ReadOwn, UnlinkOwn, Hold, RemoveFirst, Goto
  <2>3. CASE list[s] = <<>>
    BY <1>2, <1>7, <1>8, <2>1, <2>2, <2>3 DEF Calm, First
  <2>4. CASE list[s] # <<>>
    <3>1. packet'[s] = Head(list[s]) /\ list'[s] = Tail(list[s]) /\ Head(list[s]) \in Clones
      BY <1>1, <2>2, <2>4, HeadTailProperties DEF First
    <3>2. free_queue[s] \o OneOf(Head(list[s])) \o Tail(list[s]) = free_queue[s] \o OneOf(packet[s]) \o list[s]
      BY <1>1, <2>1, <2>4, TakenOver
    <3>3. packet'[s] # NoPacket
      BY <1>4, <3>1
    <3> QED  BY <1>2, <1>7, <1>8, <2>1, <2>2, <3>1, <3>2, <3>3 DEF Calm
  <2> QED  BY <2>3, <2>4
<1>11. CASE Check(s)
  <2>1. UNCHANGED <<list, free_queue, packet>>
        /\ pc[s] = "check" /\ pc'[s] # "check" /\ (pc'[s] \in {"exit", "gone"} => packet[s] = NoPacket)
    BY <1>1, <1>2, <1>11 DEF Check, Hold, Goto, Calm
  <2> QED  BY <1>2, <1>7, <1>8, <2>1 DEF Calm
<1>12. CASE Match(s) \/ MatchTable(s)
  <2>1. /\ Release(s) /\ pc' = [pc EXCEPT ![s] = "loop"] /\ UNCHANGED list /\ packet[s] # NoPacket
    BY <1>12, CalmFacts DEF Match, MatchTable, Goto, PInv, IInv, PacketInv
  <2>2. /\ free_queue'[s] = Append(free_queue[s], packet[s]) /\ packet'[s] = NoPacket /\ pc'[s] = "loop"
    BY <1>1, <2>1 DEF Release, Hold
  <2>3. packet[s] \in Clones /\ OneOf(packet[s]) = <<packet[s]>> /\ free_queue[s] \in Seq(Clones)
    BY <1>1, <2>1, OneOfType
  <2>4. free_queue'[s] = free_queue[s] \o OneOf(packet[s]) /\ free_queue'[s] \in Seq(Clones)
    BY <2>2, <2>3, AppendIsConcat, AppendProperties
  <2>5. free_queue'[s] \o OneOf(packet'[s]) = free_queue'[s]
    BY <1>4, <2>2, <2>4, ConcatEmptySeq
  <2> QED  BY <1>2, <1>7, <1>8, <2>1, <2>2, <2>4, <2>5 DEF Calm
<1> QED  BY <1>3, <1>9, <1>10, <1>11, <1>12

LEMMA StepKeepsCalm ==
  ASSUME PInv, Next, ~ alert_mode_used'
  PROVE  CalmScan'
<1> USE DEF shared, lists, counts, stopping, scannerLocals
<1>1. IInv /\ ReaderInv
  BY DEF PInv
<1>2. ~ alert_mode_used
  <2>1. CASE MainThread \/ Ended
    BY <2>1, MainFlows DEF Ended, vars
  <2>2. CASE ReaderThread
    BY <2>2 DEF ReaderThread, ReaderStep, ReadPacket, EndOfTrace, unreadable
  <2>3. CASE ManagerThread
    BY <1>1, <2>3, ManagerMoves DEF ManagerThread
  <2>4. ASSUME NEW s \in Scanners, ScannerThread(s) PROVE ~ alert_mode_used
    BY <1>1, <2>4, ScannerMoves DEF ScannerThread, IInv
  <2> QED  BY <2>1, <2>2, <2>3, <2>4 DEF Next
<1>3. \A s \in Scanners : Calm(s)
  BY <1>2, CalmFacts
<1>4. CASE MainThread
  <2>1. UNCHANGED <<list, free_queue, packet, done, count>>
    BY <1>4, MainFlows
  <2>2. StartScanner => pc[nth] = "off" /\ pc' = [pc EXCEPT ![nth] = "loop"]
    BY <1>1, Numbers DEF StartScanner, IInv, MainInv, TypeOK
  <2>3. ~ StartScanner => pc' = pc
    BY <1>4 DEF MainThread, StartReader, StartManager, JoinScanner, StopManager, JoinManager
  <2>4. \A s \in Scanners : pc'[s] = pc[s] \/ pc'[s] = "loop"
    BY <1>1, <2>2, <2>3 DEF IInv, TypeOK
  <2> QED  BY <1>3, <2>1, <2>4 DEF CalmScan, Calm
<1>5. CASE ReaderThread
  <2>1. ReaderStep /\ UNCHANGED <<free_queue, packet, done, pc>>
    BY <1>5 DEF ReaderThread, ReaderStep, ReadPacket, EndOfTrace, unreadable
  <2>2. CASE EndOfTrace
    BY <1>3, <2>1, <2>2 DEF EndOfTrace, CalmScan, Calm
  <2>3. CASE ReadPacket
    <3>1. reader = "running" /\ count < NumPackets /\ count' = count + 1
      BY <2>3 DEF ReadPacket
    <3>2. \A s \in Scanners : pc[s] = "off" /\ list'[s] = Append(list[s], <<count + 1, s>>)
      BY <1>2, <2>3, <3>1, CalmFacts DEF ReadPacket
    <3>3. ASSUME NEW s \in Scanners
          PROVE  free_queue[s] \o OneOf(packet[s]) \o Append(list[s], <<count + 1, s>>) = Copies(s, count + 1)
      <4>1. /\ free_queue[s] \in Seq(Clones) /\ list[s] \in Seq(Clones)
            /\ packet[s] \in Clones \cup {NoPacket} /\ count \in Nat /\ <<>> \in Seq(Clones)
        BY <1>1, SystemAssumption DEF IInv, TypeOK
      <4>2. OneOf(packet[s]) \in Seq(Clones)
        BY <4>1, OneOfType
      <4> DEFINE g == free_queue[s] \o OneOf(packet[s])
      <4>3. g \in Seq(Clones)
        BY <4>1, <4>2, ConcatProperties
      <4>4. g \o list[s] = Copies(s, count)
        BY <1>3 DEF Calm
      <4> HIDE DEF g
      <4>5. g \o Append(list[s], <<count + 1, s>>) = Copies(s, count + 1)
        BY <3>1, <4>1, <4>3, <4>4, ReadLast
      <4> QED  BY <4>5 DEF g
    <3> QED  BY <1>3, <2>1, <3>1, <3>2, <3>3 DEF CalmScan, Calm
  <2> QED  BY <2>1, <2>2, <2>3 DEF ReaderStep
<1>6. CASE ManagerThread
  <2>1. ManagerStep /\ UNCHANGED <<pc, packet, count>>
    BY <1>1, <1>6, ManagerMoves DEF ManagerThread, readerVars
  <2>2. mpc \notin {"stop_dedicated", "stop_all"}
    BY <1>1, <1>2 DEF IInv, CalmInv
  <2>3. UNCHANGED <<list, done>>
    BY <2>1, <2>2 DEF ManagerStep, Watch, CountDone, Prepare, OverrunMatrix, PublishRegular,
       PublishDedicated, SwitchLock, SwitchType, SwitchMode, RegularsDone, StopDedicated, InputsEmpty,
       Stop, StopNext, AlertLoop, FreeTargets, Drain, FreeQueue
  <2>4. UNCHANGED free_queue
    BY <2>1 DEF ManagerStep, scannerSide, Watch, CountDone, Prepare, OverrunMatrix, PublishRegular,
       PublishDedicated, SwitchLock, SwitchType, SwitchMode, RegularsDone, StopDedicated, InputsEmpty,
       Stop, StopNext, AlertLoop, FreeTargets, Drain, FreeQueue
  <2> QED  BY <1>3, <2>1, <2>3, <2>4 DEF CalmScan, Calm
<1>7. ASSUME NEW s \in Scanners, ScannerThread(s) PROVE CalmScan'
  BY <1>2, <1>7, ScannerKeepsCalm DEF ScannerThread, readerVars, CalmScan
<1>8. CASE Ended
  BY <1>3, <1>8 DEF Ended, vars, readerVars, CalmScan, Calm
<1> QED  BY <1>4, <1>5, <1>6, <1>7, <1>8 DEF Next

(* Every step of every thread keeps this invariant, but the dequeue of a   *)
(* thief that overlaps the owner's.                                        *)
LEMMA StepKeepsPInv == PInv /\ [Next]_vars /\ ListsWhole' => PInv'
<1> SUFFICES ASSUME PInv, [Next]_vars, ListsWhole' PROVE PInv'
  OBVIOUS
<1>1. IInv'
  BY StepKeepsIInv DEF PInv
<1>2. CASE Next
  <2>1. CalmScan'
    BY <1>2, StepKeepsCalm DEF CalmScan
  <2> QED  BY <1>1, <1>2, <2>1, StepKeepsReader, StepKeepsHands, StepKeepsPackets DEF PInv
<1>3. CASE UNCHANGED vars
  <2> USE <1>3 DEF vars, shared, lists, matrix, counts, stopping, scannerLocals, stealing, readerVars
  <2>1. Holdings' = Holdings /\ Ded' = Ded
    BY AllKept DEF Ded
  <2>2. ReaderInv' /\ HandInv'
    BY DEF PInv, ReaderInv, HandInv
  <2>3. FlowInv' /\ KeptInv'
    BY <2>1 DEF PInv, FlowInv, KeptInv
  <2>4. CalmScan'
    BY DEF PInv, CalmScan, Calm
  <2> QED  BY <1>1, <2>2, <2>3, <2>4 DEF PInv
<1> QED  BY <1>2, <1>3

(* Scanned in the order of the trace. *)
LEMMA PInvOrder == PInv => ScanOrder
<1> SUFFICES ASSUME PInv, NEW s \in Scanners, NEW own \in Scanners, own >= num_of_dedicated_threads,
                    NEW i \in DOMAIN free_queue[s], NEW j \in DOMAIN free_queue[s],
                    i < j /\ free_queue[s][i][2] = own /\ free_queue[s][j][2] = own
             PROVE  free_queue[s][i][1] < free_queue[s][j][1]
  BY DEF ScanOrder
<1>1. Scanned(s) \in Places /\ Holdings[Scanned(s)] = free_queue[s]
  BY Contents
<1>2. InOrder(Holdings, Ded) /\ own >= Ded
  BY DEF PInv, FlowInv, Ded
<1> QED  BY <1>1, <1>2 DEF InOrder

-----------------------------------------------------------------------------
(* The lists are whole, or two dequeues have overlapped; the latter only   *)
(* in alert mode, for only then somebody steals, and nothing has been      *)
(* scanned since.                                                          *)
WholeInv == IInv /\ ScanOrder /\ IF ListsWhole THEN PInv ELSE alert_mode_used

LEMMA InitWholeInv == Init => WholeInv
<1>1. Init => ListsWhole
  BY DEF Init, SharedInit, ListsWhole
<1> QED  BY <1>1, InitPInv, PInvOrder DEF WholeInv, PInv

(* The step in which they overlap. *)
LEMMA Overlaps ==
  ASSUME PInv, Next, Running, ~ ListsWhole'
  PROVE  alert_mode_used' /\ UNCHANGED <<free_queue, num_of_dedicated_threads>>
<1> USE DEF Running, ListsWhole, shared, lists, matrix, counts, modes, stopping
<1>1. ~ MainThread
  BY DEF MainThread, StartReader, StartManager, StartScanner, JoinScanner, StopManager, JoinManager
<1>2. ~ ReaderThread
  BY DEF ReaderThread, ReaderStep, ReadPacket, EndOfTrace, unreadable
<1>3. ~ ManagerThread
  BY DEF ManagerThread, ManagerStep, scannerSide, Watch, CountDone, Prepare, OverrunMatrix, PublishRegular,
     PublishDedicated, SwitchLock, SwitchType, SwitchMode, RegularsDone, StopDedicated, InputsEmpty,
     Stop, StopNext, AlertLoop, FreeTargets, Drain, FreeQueue
<1>4. PICK s \in Scanners : ScannerThread(s)
  BY <1>1, <1>2, <1>3 DEF Next, Ended
<1>5. \A wd \in Pairs : queueState[wd] \in {"null", "live", "freed"}
  BY DEF PInv, IInv, TypeOK
<1>6. ~ Crash(s)
  <2>1. pc[s] = "enqueue" => <<s, dest_thread[s]>> \in Pairs
    BY Partner DEF Pairs, PInv
  <2>2. pc[s] = "poll" => <<next_writer_id[s], s>> \in Pairs
    BY Polled DEF Pairs, PInv
  <2> QED  BY <1>5, <2>1, <2>2 DEF Crash
<1>7. StealOverlap(s)
  BY <1>4, <1>6 DEF ScannerThread, ScannerStep, Loop, ReadOwn, BeginOwn, UnlinkOwn, Poll, Fallback, Check,
     Match, MatchTable, PickTarget, EnqueueHeavy, StealTake, StealPut, StealEnd, ScannerDone
<1>8. Published
  BY <1>7, Partner DEF StealOverlap, PInv
<1> QED  BY <1>7, <1>8 DEF StealOverlap, Published

LEMMA StepKeepsWholeInv == WholeInv /\ [Next]_vars => WholeInv'
<1> SUFFICES ASSUME WholeInv, [Next]_vars PROVE WholeInv'
  OBVIOUS
<1>1. IInv'
  BY StepKeepsIInv DEF WholeInv
<1>2. CASE ListsWhole /\ ListsWhole'
  <2>1. PInv'
    BY <1>2, StepKeepsPInv DEF WholeInv
  <2>2. ScanOrder'
    BY <2>1, PInvOrder, PTL
  <2> QED  BY <1>1, <1>2, <2>1, <2>2 DEF WholeInv
<1>3. CASE ListsWhole /\ ~ ListsWhole'
  <2>1. PInv /\ Next /\ Running
    BY <1>3 DEF WholeInv, ListsWhole, Ended, vars, shared, Next, MainThread, ReaderThread, ManagerThread,
       ScannerThread
  <2>2. alert_mode_used' /\ UNCHANGED <<free_queue, num_of_dedicated_threads>>
    BY <1>3, <2>1, Overlaps
  <2> QED  BY <1>1, <1>3, <2>2 DEF WholeInv, ScanOrder
<1>4. CASE ~ ListsWhole
  <2>1. UNCHANGED vars
    BY <1>4 DEF ListsWhole, Next, Ended, Running, MainThread, ReaderThread, ManagerThread, ScannerThread
  <2>2. UNCHANGED <<crashed, alert_mode_used, free_queue, num_of_dedicated_threads>>
    BY <2>1 DEF vars, shared, modes, counts
  <2> QED  BY <1>1, <1>4, <2>2 DEF WholeInv, ListsWhole, ScanOrder
<1> QED  BY <1>2, <1>3, <1>4

LEMMA AlwaysWhole == Spec => []WholeInv
BY InitWholeInv, StepKeepsWholeInv, PTL DEF Spec

-----------------------------------------------------------------------------
(* However packets are dequeued, transferred, stolen and put back, none is *)
(* in two places, none is scanned or freed twice, as long as no thief's    *)
(* dequeue overlaps one that the owner began without the lock.             *)
THEOREM NeverTwice == Spec => []NoCloneTwice
<1>1. WholeInv => NoCloneTwice
  BY DEF WholeInv, PInv, FlowInv, Apart, Holdings, NoCloneTwice
<1> QED  BY <1>1, AlwaysWhole, PTL

(* Until the system or a scanner is told to stop, and as long as no two    *)
(* dequeues overlap in the switch of a lock, what was read is in a list, a *)
(* queue or a hand, or scanned.                                            *)
THEOREM NoneLost == Spec => []NothingLost
<1>1. WholeInv => NothingLost
  <2> SUFFICES ASSUME PInv, ~ stopped, \A s \in Scanners : ~ done[s] PROVE Stored = ReadSoFar
    BY DEF NothingLost, WholeInv
  <2>1. \A c : c \in Stored <=> Present(Holdings, c)
    BY DEF Stored, Present, Holdings, Range
  <2>2. \A c : Present(Holdings, c) => c \in Clones
    <3>1. Holdings \in Filling
      BY HoldingsType DEF PInv, IInv
    <3> QED  BY <3>1, Domains, ElementOfSeq DEF Present
  <2>3. \A c \in Clones : Present(Holdings, c) <=> c[1] <= count
    BY DEF PInv, KeptInv
  <2>4. \A c : c \in ReadSoFar <=> c \in Clones /\ c[1] <= count
    <3>1. count \in Int /\ count <= NumPackets /\ NumPackets \in Int
      BY SystemAssumption DEF PInv, IInv, TypeOK
    <3> QED  BY <3>1 DEF ReadSoFar, Clones
  <2> QED  BY <2>1, <2>2, <2>3, <2>4
<1> QED  BY <1>1, AlwaysWhole, PTL

(* What came in through the list of a regular thread is scanned in the     *)
(* order of the trace by whoever scans it.                                 *)
THEOREM ScannedInOrder == Spec => []ScanOrder
<1>1. WholeInv => ScanOrder
  BY DEF WholeInv
<1> QED  BY <1>1, AlwaysWhole, PTL

(* A run that stays out of alert mode ends with the whole trace scanned,   *)
(* by every scanner and in order.                                          *)
THEOREM CalmRunScansAll == Spec => []NormalRunScansAll
<1>1. WholeInv => NormalRunScansAll
  <2> SUFFICES ASSUME PInv, main = "end", ~ alert_mode_used, NEW s \in Scanners
               PROVE  free_queue[s] = [n \in 1 .. NumPackets |-> <<n, s>>]
    BY DEF NormalRunScansAll, WholeInv
  <2>1. pc[s] = "gone" /\ count = NumPackets
    BY DEF PInv, IInv, MainInv, AllGone, ReaderInv
  <2>2. free_queue[s] \o OneOf(NoPacket) \o <<>> = Copies(s, NumPackets)
    BY <2>1, CalmFacts DEF Calm
  <2>3. free_queue[s] \in Seq(Clones)
    BY DEF PInv, IInv, TypeOK
  <2>4. free_queue[s] \o OneOf(NoPacket) \o <<>> = free_queue[s]
    BY <2>3, OneOfType, ConcatEmptySeq
  <2> QED  BY <2>2, <2>4 DEF Copies
<1> QED  BY <1>1, AlwaysWhole, PTL
=============================================================================
