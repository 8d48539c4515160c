--------------------------- MODULE ThroughputProofs ---------------------------
(***************************************************************************)
(* Throughput, for any number of scanners, dedicated ones among them,      *)
(* packets and intervals: the counters of bytes since the alert, the       *)
(* number of rates main asks for, and the events it prints.                *)
(***************************************************************************)
EXTENDS Throughput, SumProofs, SequenceTheorems, TLAPS

ScannerLabels == {"loop", "count", "scan", "report", "gone"}
ManagerLabels == {"watch", "switch_type", "switch_mode", "alert", "inputs", "stop",
                  "stop_scanners", "gone"}
Labels        == ScannerLabels \union ManagerLabels \union {"event", "store"}
HeavyPackets  == {p \in [size : Sizes, last : Nat, own : {FALSE}] : p.last < p.size}
OwnPackets    == [size : Sizes, last : {0}, own : {TRUE}]

(* Where an actor is once it has logged its event. *)
Heading(a) == IF pc[a] \in {"event", "store"} THEN after[a] ELSE pc[a]

(* What is needed of the types. *)
ThreadsOK ==
  /\ pc \in [Actors -> Labels] /\ after \in [Actors -> Labels]
  /\ place \in [Actors -> Int] /\ evt_id \in Nat
PacketsOK ==
  /\ packet \in [Scanners -> {NoPacket} \union OwnPackets \union HeavyPackets]
  /\ left \in [Scanners -> Nat]
  /\ heavy \in Seq(HeavyPackets)
ModesOK ==
  /\ isTableMachine \in [Scanners -> BOOLEAN] /\ alert_mode_active \in [Scanners -> BOOLEAN]
  /\ stopped \in BOOLEAN
CountsOK ==
  /\ bytes_scanned \in [Scanners -> Int] /\ bytes_scanned_since_alert \in [Scanners -> Int]
TimerOK ==
  /\ bytes_scanned_recently \in [Scanners -> Int]
  /\ bytes_processed \in [Scanners -> Int] /\ bytes \in Int
  /\ lists \in [Scanners -> Seq(Int)]
  /\ intervals \in Nat /\ ti \in Nat
TypeOK == ThreadsOK /\ PacketsOK /\ ModesOK /\ CountsOK /\ TimerOK

(* A scanner about to count or scan has a packet; a heavy one is only with *)
(* a scanner that is no table machine any more, and stays none.            *)
HandInv ==
  /\ Heading(Manager) \in ManagerLabels
  /\ \A s \in Scanners :
       /\ Heading(s) \in ScannerLabels /\ (pc[s] \in {"event", "store"} => after[s] # "scan")
       /\ Heading(s) \in {"count", "scan"} => packet[s] # NoPacket
       /\ packet[s] \in HeavyPackets => ~ isTableMachine[s]
       /\ ~ isTableMachine[s] => s < NumDedicated

(* What makes SinceAlertOnce inductive: a packet that a table machine may  *)
(* still take back was counted since the alert, or is the only one that    *)
(* was not.                                                                *)
Since(s)   == bytes_scanned_since_alert[s]
Owes(s)    == \E size \in Sizes : Since(s) >= - size
InHand(s)  == pc[s] = "scan" /\ isTableMachine[s]
Covered(s) == Since(s) >= 0 \/ \E size \in Sizes : Since(s) >= packet[s].size - size

SinceOf(s) ==
  /\ Since(s) <= bytes_scanned[s]
  /\ ~ stopped =>
       IF ~ alert_mode_active[s] THEN Since(s) = 0
       ELSE IF InHand(s) THEN Covered(s) ELSE Owes(s)

SinceInv == \A s \in Scanners : SinceOf(s)

(* Where the timer thread is says how many rates each list has. *)
Rates(s) ==
  IF tpc = "count" \/ (tpc \in {"collect", "keep"} /\ s < ti) THEN intervals + 1 ELSE intervals

TimerInv ==
  /\ main \in {"start", "join_scanners", "stop_manager", "join", "results", "done"}
  /\ tpc \in {"off", "test", "sleep", "collect", "keep", "count", "gone"}
  /\ main = "start" => tpc = "off"
  /\ main \in {"results", "done"} => tpc = "gone"
  /\ tpc \in {"collect", "keep"} => ti \in Scanners
  /\ main # "done" => \A s \in Scanners : Len(lists[s]) = Rates(s)

(* Every place below evt_id is filled or is that of one thread which is    *)
(* about to fill it.                                                       *)
Storing == {a \in Actors : pc[a] = "store"}

EventInv ==
  /\ \A a \in Storing : place[a] \in 0 .. evt_id - 1
  /\ \A a, b \in Storing : place[a] = place[b] => a = b
  /\ events = {id \in 0 .. evt_id - 1 : \A a \in Storing : place[a] # id}

(* Main waits for the scanners, and then for the manager. *)
JoinInv ==
  /\ main \notin {"start", "join_scanners"} => \A s \in Scanners : pc[s] = "gone"
  /\ main \in {"results", "done"} => pc[Manager] = "gone"

IInv == TypeOK /\ HandInv /\ SinceInv /\ TimerInv /\ EventInv /\ JoinInv

-----------------------------------------------------------------------------
(* The scanners are numbered from 0; the manager is none of them. *)
LEMMA ActorFacts ==
  /\ Scanners \subseteq Nat /\ 0 \in Scanners /\ Scanners \subseteq Actors
  /\ Manager \in Actors /\ Manager \notin Scanners
  /\ Actors = Scanners \union {Manager}
BY TimerAssumption DEF Scanners, Actors, Manager

(* A packet is one of three kinds, which its fields tell apart. *)
LEMMA PacketFacts ==
  /\ NoPacket \notin OwnPackets /\ NoPacket \notin HeavyPackets
  /\ \A p \in OwnPackets : p.last = 0 /\ p \notin HeavyPackets
  /\ \A p \in OwnPackets \union HeavyPackets :
       /\ p.size \in Sizes /\ p.size \in Nat \ {0}
       /\ p.last \in Nat /\ p.last < p.size /\ p.size - p.last \in Nat \ {0}
  /\ \A d \in Sizes : d \in Nat \ {0}
  /\ Sizes # {}
<1>1. \A d \in Sizes : d \in Nat \ {0}
  BY ThroughputAssumption
<1>2. \A p \in OwnPackets : p.last = 0 /\ p.size \in Sizes /\ p.own
  BY DEF OwnPackets
<1>3. \A p \in HeavyPackets : p.last \in Nat /\ p.last < p.size /\ p.size \in Sizes /\ ~ p.own
  BY DEF HeavyPackets
<1>4. NoPacket \notin OwnPackets /\ NoPacket \notin HeavyPackets
  BY <1>1, <1>2, <1>3 DEF NoPacket
<1>5. ASSUME NEW p \in OwnPackets \union HeavyPackets
      PROVE  /\ p.size \in Sizes /\ p.size \in Nat \ {0}
             /\ p.last \in Nat /\ p.last < p.size /\ p.size - p.last \in Nat \ {0}
  <2>1. p.size \in Sizes /\ p.size \in Nat \ {0}
    BY <1>1, <1>2, <1>3
  <2>2. p.last \in Nat /\ p.last < p.size
    BY <1>2, <1>3, <2>1
  <2> QED  BY <2>1, <2>2
<1>6. \A p \in OwnPackets : p \notin HeavyPackets
  BY <1>2, <1>3
<1> QED  BY <1>1, <1>2, <1>4, <1>5, <1>6, ThroughputAssumption

(* An actor goes to a label, at once or when its event is logged. *)
Goes(a, m) ==
  /\ \/ pc' = [pc EXCEPT ![a] = m] /\ after' = after
     \/ pc' = [pc EXCEPT ![a] = "event"] /\ after' = [after EXCEPT ![a] = m]
  /\ place' = place

(* What of it the invariant sees. *)
LEMMA Going ==
  ASSUME ThreadsOK, NEW a \in Actors, NEW m \in ScannerLabels \union ManagerLabels,
         pc[a] \notin {"event", "store"}, Goes(a, m), UNCHANGED evt_id
  PROVE  /\ ThreadsOK'
         /\ Heading(a)' = m /\ pc'[a] \in {m, "event"} /\ (pc'[a] = "event" => after'[a] = m)
         /\ \A b \in Actors \ {a} : pc'[b] = pc[b] /\ Heading(b)' = Heading(b)
         /\ Storing' = Storing
<1>1. ThreadsOK'
  BY DEF ThreadsOK, Goes, Labels
<1>2. /\ Heading(a)' = m /\ pc'[a] \in {m, "event"} /\ (pc'[a] = "event" => after'[a] = m)
      /\ \A b \in Actors \ {a} : pc'[b] = pc[b] /\ Heading(b)' = Heading(b)
  BY DEF ThreadsOK, Goes, Heading, Labels, ScannerLabels, ManagerLabels
<1>3. Storing' = Storing
  BY <1>2 DEF Storing, ScannerLabels, ManagerLabels
<1> QED  BY <1>1, <1>2, <1>3

(* The parts that a step leaves alone. *)
LEMMA PartsKept ==
  /\ PacketsOK /\ UNCHANGED packets => PacketsOK'
  /\ ModesOK /\ UNCHANGED <<modes, stopped>> => ModesOK'
  /\ CountsOK /\ UNCHANGED <<bytes_scanned, bytes_scanned_since_alert>> => CountsOK'
  /\ TimerOK /\ UNCHANGED <<timerVars, bytes_scanned_recently>> => TimerOK'
  /\ TimerInv /\ UNCHANGED <<timerVars, main>> => TimerInv'
  /\ EventInv /\ UNCHANGED <<eventVars, place>> /\ Storing' = Storing => EventInv'
<1>1. PacketsOK /\ UNCHANGED packets => PacketsOK'
  BY DEF PacketsOK, packets
<1>2. ModesOK /\ UNCHANGED <<modes, stopped>> => ModesOK'
  BY DEF ModesOK, modes
<1>3. CountsOK /\ UNCHANGED <<bytes_scanned, bytes_scanned_since_alert>> => CountsOK'
  BY DEF CountsOK
<1>4. TimerOK /\ UNCHANGED <<timerVars, bytes_scanned_recently>> => TimerOK'
  BY DEF TimerOK, timerVars
<1>5. TimerInv /\ UNCHANGED <<timerVars, main>> => TimerInv'
  BY DEF TimerInv, Rates, timerVars
<1>6. EventInv /\ UNCHANGED <<eventVars, place>> /\ Storing' = Storing => EventInv'
  BY DEF EventInv, eventVars
<1> QED  BY <1>1, <1>2, <1>3, <1>4, <1>5, <1>6

(* A scanner goes on with a packet in its hand if it is to count or scan. *)
Turn(s, m) ==
  /\ Goes(s, m) /\ PacketsOK' /\ (m = "scan" => pc'[s] = m)
  /\ \A r \in Scanners \ {s} : packet'[r] = packet[r]
  /\ m \in {"count", "scan"} => packet'[s] # NoPacket
  /\ packet'[s] \in HeavyPackets => ~ isTableMachine[s]

LEMMA TurnKeeps ==
  ASSUME IInv, NEW s \in Scanners, NEW m \in ScannerLabels, Turn(s, m),
         pc[s] \notin {"event", "store", "gone"}, UNCHANGED <<main, eventVars, modes, stopped>>
  PROVE  /\ ThreadsOK' /\ PacketsOK' /\ ModesOK' /\ HandInv' /\ EventInv' /\ JoinInv'
         /\ pc'[s] \in {m, "event"} /\ \A r \in Scanners \ {s} : pc'[r] = pc[r]
<1>1. /\ ThreadsOK' /\ Storing' = Storing /\ place' = place
      /\ Heading(s)' = m /\ pc'[s] \in {m, "event"} /\ (pc'[s] = "event" => after'[s] = m)
      /\ \A b \in Actors \ {s} : pc'[b] = pc[b] /\ Heading(b)' = Heading(b)
  BY Going, ActorFacts DEF IInv, TypeOK, eventVars, Turn, Goes
<1>2. EventInv' /\ ModesOK'
  BY <1>1, PartsKept DEF IInv, TypeOK
<1>3. JoinInv'
  BY <1>1, ActorFacts DEF IInv, JoinInv
<1>4. HandInv'
  <2>0. Heading(Manager)' \in ManagerLabels
    BY <1>1, ActorFacts DEF IInv, HandInv
  <2> SUFFICES ASSUME NEW r \in Scanners
               PROVE  /\ Heading(r)' \in ScannerLabels
                      /\ pc'[r] \in {"event", "store"} => after'[r] # "scan"
                      /\ Heading(r)' \in {"count", "scan"} => packet'[r] # NoPacket
                      /\ packet'[r] \in HeavyPackets => ~ isTableMachine'[r]
                      /\ ~ isTableMachine'[r] => r < NumDedicated
    BY <2>0 DEF HandInv
  <2>1. CASE r = s
    BY <1>1, <2>1 DEF IInv, HandInv, Turn, modes, ScannerLabels
  <2>2. CASE r # s
    <3>1. Heading(r)' = Heading(r) /\ pc'[r] = pc[r] /\ packet'[r] = packet[r]
      BY <1>1, <2>2, ActorFacts DEF Turn
    <3>2. pc[r] \in {"event", "store"} => after'[r] # "scan"
      BY <2>2, ActorFacts DEF IInv, HandInv, Turn, Goes, TypeOK, ThreadsOK
    <3> QED  BY <3>1, <3>2 DEF IInv, HandInv, modes
  <2> QED  BY <2>1, <2>2
<1> QED  BY <1>1, <1>2, <1>3, <1>4, ActorFacts DEF Turn

(* SinceInv is about a scanner's own counters and mode. *)
LEMMA SinceOfOthers ==
  ASSUME SinceInv, NEW s \in Scanners, UNCHANGED <<modes, stopped>>,
         \A r \in Scanners \ {s} :
           /\ pc'[r] = pc[r] /\ packet'[r] = packet[r]
           /\ bytes_scanned'[r] = bytes_scanned[r] /\ Since(r)' = Since(r),
         SinceOf(s)'
  PROVE  SinceInv'
BY DEF SinceInv, SinceOf, Since, InHand, Covered, Owes, modes

-----------------------------------------------------------------------------
(* A scanner takes a packet, its own or a heavy one, or stops. *)
LEMMA TakeKeeps ==
  ASSUME IInv, NEW s \in Scanners, Take(s)
  PROVE  IInv'
<1> USE DEF IInv, TypeOK
<1>0. /\ pc[s] = "loop" /\ ~ InHand(s)
      /\ UNCHANGED <<timerVars, main, eventVars, modes, stopped, counts>>
  BY DEF Take, InHand, stopping
<1>1. ASSUME TakeOwn(s) PROVE Turn(s, "count")
  <2>1. PICK z \in Sizes : packet' = [packet EXCEPT ![s] = [size |-> z, last |-> 0, own |-> TRUE]]
    BY <1>1 DEF TakeOwn
  <2>2. [size |-> z, last |-> 0, own |-> TRUE] \in OwnPackets
    BY DEF OwnPackets
  <2>3. PacketsOK' /\ packet'[s] \in OwnPackets
    <3>1. left' \in [Scanners -> Nat]
      BY <1>1 DEF TakeOwn, PacketsOK, Plus
    <3> QED  BY <1>1, <2>1, <2>2, <3>1 DEF TakeOwn, PacketsOK
  <2> QED  BY <1>1, <2>1, <2>3, PacketFacts DEF TakeOwn, PacketsOK, Turn, Goes, Goto
<1>2. ASSUME TakeHeavy(s) PROVE Turn(s, "count")
  <2>1. Head(heavy) \in HeavyPackets /\ Tail(heavy) \in Seq(HeavyPackets)
    BY <1>2, HeadTailProperties DEF TakeHeavy, PacketsOK
  <2>2. PacketsOK' /\ packet'[s] \in HeavyPackets
    BY <1>2, <2>1 DEF TakeHeavy, PacketsOK
  <2>3. Goes(s, "count")
    BY <1>2 DEF TakeHeavy, EventOnce, Goes, Goto
  <2> QED  BY <1>2, <2>2, <2>3, PacketFacts DEF TakeHeavy, PacketsOK, Turn
<1>3. ASSUME QueueIsEmpty(s) \/ Stopping(s) PROVE Turn(s, "gone")
  <2>1. Goes(s, "gone") /\ UNCHANGED packets
    BY <1>3 DEF QueueIsEmpty, Stopping, EventOnce, Goes, Goto
  <2> QED  BY <2>1, PartsKept DEF HandInv, Turn, packets
<1>4. PICK m \in {"count", "gone"} : Turn(s, m)
  BY <1>1, <1>2, <1>3 DEF Take
<1>5. SinceInv'
  BY <1>0, <1>4, TurnKeeps, SinceOfOthers
     DEF SinceInv, SinceOf, Since, InHand, Covered, Owes, modes, counts, Turn, ScannerLabels
<1>6. CountsOK' /\ TimerOK' /\ TimerInv'
  BY <1>0, PartsKept DEF counts
<1> QED  BY <1>0, <1>4, <1>5, <1>6, TurnKeeps DEF ScannerLabels

(* It counts the packet: what it may take back later, it now has. *)
LEMMA CountKeeps ==
  ASSUME IInv, NEW s \in Scanners, Count(s)
  PROVE  IInv'
<1> USE DEF IInv, TypeOK
<1>0. /\ pc[s] = "count" /\ packet[s] \in OwnPackets \union HeavyPackets
      /\ UNCHANGED <<timerVars, main, eventVars, packets, modes, stopped>>
  BY DEF Count, HandInv, Heading, PacketsOK, stopping
<1>1. PICK m \in {"scan", "gone"} : Turn(s, m)
  BY <1>0, PartsKept, PacketFacts DEF Count, Turn, Goes, Goto, HandInv, packets
<1>2. CountsOK' /\ TimerOK'
  <2>1. packet[s].size \in Int /\ ScannedBefore(s) \in Int
    BY <1>0, PacketFacts DEF ScannedBefore
  <2>2. CountsOK'
    BY <2>1 DEF CountsOK, Count, Plus, counts
  <2>3. TimerOK'
    BY <1>0, <2>1 DEF TimerOK, Count, Plus, counts, timerVars
  <2> QED  BY <2>2, <2>3
<1>3. \A r \in Scanners \ {s} :
        bytes_scanned'[r] = bytes_scanned[r] /\ Since(r)' = Since(r)
  BY DEF CountsOK, Count, Plus, counts, Since
<1>4. SinceOf(s)'
  <2>1. ~ InHand(s) /\ SinceOf(s)
    BY <1>0 DEF InHand, SinceInv
  <2>2. CASE done[s]
    BY <1>0, <2>1, <2>2 DEF Count, counts, SinceOf, Since, InHand, Covered, Owes, Goto, modes,
                            ThreadsOK, Actors
  <2>3. CASE ~ done[s] /\ alert_mode_active[s] /\ ~ stopped
    <3> DEFINE n == packet[s].size - packet[s].last
    <3>1. /\ n \in Nat \ {0}
          /\ bytes_scanned'[s] = bytes_scanned[s] + n /\ Since(s)' = Since(s) + n
          /\ bytes_scanned[s] \in Int /\ Since(s) \in Int
      BY <1>0, <2>3, PacketFacts DEF Count, CountsOK, ScannedBefore, Plus, Since
    <3>2. PICK d \in Sizes : Since(s) >= - d /\ d \in Nat
      BY <2>1, <2>3, PacketFacts DEF SinceOf, Owes
    <3>3. Since(s) <= bytes_scanned[s]
      BY <2>1 DEF SinceOf
    <3>4. CASE isTableMachine[s]
      <4>1. packet[s] \in OwnPackets
        BY <1>0, <3>4 DEF HandInv
      <4>2. n = packet[s].size /\ packet[s].size \in Nat
        BY <4>1, PacketFacts
      <4>3. Since(s)' >= packet[s].size - d
        BY <3>1, <3>2, <4>2
      <4>4. Covered(s)'
        BY <1>0, <4>3 DEF Covered, packets
      <4>5. InHand(s)'
        BY <1>0, <2>3, <3>4, ActorFacts DEF InHand, Count, Goto, modes, ThreadsOK
      <4> QED  BY <1>0, <2>3, <3>1, <3>3, <4>4, <4>5 DEF SinceOf, modes, Since
    <3>5. CASE ~ isTableMachine[s]
      <4>1. Since(s)' >= - d
        BY <3>1, <3>2
      <4>2. Owes(s)' /\ ~ InHand(s)'
        BY <1>0, <3>5, <4>1 DEF Owes, InHand, modes
      <4> QED  BY <1>0, <2>3, <3>1, <3>3, <4>2 DEF SinceOf, modes, Since
    <3> QED  BY <3>4, <3>5
  <2>4. CASE ~ done[s] /\ (~ alert_mode_active[s] \/ stopped)
    <3>1. bytes_scanned'[s] = bytes_scanned[s] + packet[s].size /\ Since(s)' = Since(s)
      BY <1>0, <2>4, PacketFacts DEF Count, CountsOK, ScannedBefore, Plus, Since
    <3> QED  BY <1>0, <2>1, <2>4, <3>1, PacketFacts DEF SinceOf, CountsOK, modes, Since
  <2> QED  BY <2>2, <2>3, <2>4
<1>5. SinceInv'
  BY <1>0, <1>1, <1>3, <1>4, TurnKeeps, SinceOfOthers DEF Turn, ScannerLabels
<1> QED  BY <1>0, <1>1, <1>2, <1>5, TurnKeeps, PartsKept DEF ScannerLabels

(* It ends the scan of the packet, or passes it on and steals others for it. *)
LEMMA ScanKeeps ==
  ASSUME IInv, NEW s \in Scanners, Scan(s)
  PROVE  IInv'
<1> USE DEF IInv, TypeOK
<1>0. /\ pc[s] = "scan" /\ packet[s] \in OwnPackets \union HeavyPackets
      /\ packet' = [packet EXCEPT ![s] = NoPacket]
      /\ UNCHANGED <<timerVars, main, eventVars, modes, stopped>>
  BY DEF Scan, Finish, PassOn, HandInv, Heading, PacketsOK, stopping
<1>1. SinceOf(s)
  BY DEF SinceInv
<1>2. ASSUME Finish(s)
      PROVE  Turn(s, "report") /\ SinceOf(s)' /\ CountsOK' /\ TimerOK'
             /\ \A r \in Scanners \ {s} :
                  bytes_scanned'[r] = bytes_scanned[r] /\ Since(r)' = Since(r)
  <2>1. Goes(s, "report") /\ UNCHANGED counts /\ PacketsOK'
    BY <1>2, <1>0 DEF Finish, Goes, Goto, PacketsOK
  <2>2. Turn(s, "report")
    BY <1>0, <2>1, PacketFacts DEF Turn, PacketsOK
  <2>3. ~ InHand(s)'
    BY <1>2, ActorFacts DEF InHand, Finish, Goto, ThreadsOK
  <2>4. InHand(s) /\ Covered(s) => Owes(s)
    BY <1>0, PacketFacts DEF Covered, Owes, CountsOK, Since
  <2>5. SinceOf(s)'
    BY <1>0, <1>1, <2>1, <2>3, <2>4 DEF SinceOf, Since, Owes, counts, modes
  <2> QED  BY <1>0, <2>1, <2>2, <2>5, PartsKept DEF counts, Since
<1>3. ASSUME PassOn(s)
      PROVE  Turn(s, "report") /\ SinceOf(s)' /\ CountsOK' /\ TimerOK'
             /\ \A r \in Scanners \ {s} :
                  bytes_scanned'[r] = bytes_scanned[r] /\ Since(r)' = Since(r)
  <2>1. PICK last \in 0 .. packet[s].size - 1 :
          /\ TakeBack(s, packet[s].size - last)
          /\ heavy' = Append(heavy, [size |-> packet[s].size, last |-> last, own |-> FALSE])
    BY <1>3 DEF PassOn
  <2>2. PICK d \in 0 .. NumDedicated - 1 : Steal(s, d)
    BY <1>3 DEF PassOn
  <2>3. packet[s].size \in Sizes /\ packet[s].size \in Nat \ {0} /\ last \in Nat
    BY <1>0, PacketFacts
  <2>4. PacketsOK'
    <3>1. [size |-> packet[s].size, last |-> last, own |-> FALSE] \in HeavyPackets
      BY <2>3 DEF HeavyPackets
    <3>2. heavy' \in Seq(HeavyPackets)
      BY <2>1, <3>1, AppendProperties DEF PacketsOK
    <3>3. left' \in [Scanners -> Nat]
      <4> DEFINE n == IF left[d] < PacketsToSteal THEN left[d] ELSE PacketsToSteal
      <4>1. d \in Scanners
        BY ThroughputAssumption, TimerAssumption DEF Scanners
      <4>2. n \in Nat /\ n <= left[d] /\ left' = Plus(Plus(left, d, - n), s, n)
        <5>1. left[d] \in Nat /\ PacketsToSteal \in Nat
          BY <4>1, ThroughputAssumption DEF PacketsOK
        <5>2. n \in Nat /\ n <= left[d]
          BY <5>1
        <5>3. left' = Plus(Plus(left, d, - n), s, n)
          BY <2>2 DEF Steal
        <5> QED  BY <5>2, <5>3
      <4>3. Plus(left, d, - n) \in [Scanners -> Nat]
        BY <4>1, <4>2 DEF Plus, PacketsOK
      <4> HIDE DEF n
      <4> QED  BY <4>2, <4>3 DEF Plus
    <3> QED  BY <1>0, <3>2, <3>3 DEF PacketsOK
  <2>5. Turn(s, "report")
    <3>1. Goes(s, "report")
      BY <2>2 DEF Steal, EventOnce, Goes, Goto
    <3> QED  BY <1>0, <2>4, <3>1, PacketFacts DEF Turn, PacketsOK
  <2>6. CountsOK' /\ TimerOK'
    <3> DEFINE n == packet[s].size - last
    <3>1. n \in Int /\ TakeBack(s, n)
      BY <2>1, <2>3
    <3> HIDE DEF n
    <3>2. CountsOK'
      BY <3>1 DEF CountsOK, TakeBack, Plus
    <3>3. bytes_scanned_recently' \in [Scanners -> Int]
      BY <3>1 DEF TimerOK, TakeBack, Plus
    <3> QED  BY <1>0, <3>2, <3>3 DEF TimerOK, timerVars
  <2>7. /\ bytes_scanned'[s] = bytes_scanned[s] - packet[s].size + last
        /\ Since(s)' = Since(s) - packet[s].size + last
        /\ bytes_scanned[s] \in Int /\ Since(s) \in Int
    BY <2>1, <2>3 DEF CountsOK, TakeBack, Plus, Since
  <2>8. Since(s)' <= bytes_scanned'[s]
    BY <1>1, <2>3, <2>7 DEF SinceOf
  <2>9. ASSUME ~ stopped PROVE Owes(s)'
    <3>1. Covered(s)
      BY <1>0, <1>1, <1>3, <2>9 DEF SinceOf, PassOn, InHand
    <3>2. CASE Since(s) >= 0
      <4>1. Since(s)' >= - packet[s].size
        BY <2>3, <2>7, <3>2
      <4> QED  BY <2>3, <4>1 DEF Owes
    <3>3. CASE \E d1 \in Sizes : Since(s) >= packet[s].size - d1
      <4>1. PICK d1 \in Sizes : Since(s) >= packet[s].size - d1 /\ d1 \in Nat
        BY <3>3, PacketFacts
      <4>2. Since(s)' >= - d1
        BY <2>3, <2>7, <4>1
      <4> QED  BY <4>2 DEF Owes
    <3> QED  BY <3>1, <3>2, <3>3 DEF Covered
  <2>10. ~ InHand(s)' /\ alert_mode_active'[s]
    <3>1. pc'[s] \in {"report", "event"}
      BY <1>0, <2>5, TurnKeeps DEF ScannerLabels
    <3> QED  BY <1>0, <1>3, <3>1 DEF InHand, PassOn, modes
  <2>11. SinceOf(s)'
    BY <1>0, <2>8, <2>9, <2>10 DEF SinceOf, Since
  <2>12. \A r \in Scanners \ {s} : bytes_scanned'[r] = bytes_scanned[r] /\ Since(r)' = Since(r)
    BY <2>1 DEF CountsOK, TakeBack, Plus, Since
  <2> QED  BY <2>5, <2>6, <2>11, <2>12
<1>4. /\ Turn(s, "report") /\ SinceOf(s)' /\ CountsOK' /\ TimerOK'
      /\ \A r \in Scanners \ {s} : bytes_scanned'[r] = bytes_scanned[r] /\ Since(r)' = Since(r)
  BY <1>2, <1>3 DEF Scan
<1>5. SinceInv'
  BY <1>0, <1>4, TurnKeeps, SinceOfOthers DEF Turn, ScannerLabels
<1> QED  BY <1>0, <1>4, <1>5, TurnKeeps, PartsKept DEF ScannerLabels

(* It reports what it has counted. *)
LEMMA ReportKeeps ==
  ASSUME IInv, NEW s \in Scanners, Report(s)
  PROVE  IInv'
<1> USE DEF IInv, TypeOK
<1>0. /\ pc[s] = "report" /\ ~ InHand(s)
      /\ UNCHANGED <<main, eventVars, packets, modes, stopped, bytes_scanned,
                     bytes_scanned_since_alert, lists, intervals, tpc, ti, bytes>>
  BY DEF Report, InHand, stopping, global_timer_set, timerVars
<1>1. Turn(s, "loop")
  BY <1>0, PartsKept DEF Report, Turn, Goes, Goto, HandInv, packets
<1>2. TimerOK' /\ TimerInv'
  <2>1. bytes_scanned_recently' \in [Scanners -> Int] /\ bytes_processed' \in [Scanners -> Int]
    BY DEF TimerOK, Report, global_timer_set, timerVars
  <2> QED  BY <1>0, <2>1 DEF TimerOK, TimerInv, Rates
<1>3. SinceInv'
  BY <1>0, <1>1, TurnKeeps, SinceOfOthers
     DEF SinceInv, SinceOf, Since, InHand, Covered, Owes, modes, Turn, ScannerLabels
<1>4. CountsOK'
  BY <1>0, PartsKept
<1> QED  BY <1>0, <1>1, <1>2, <1>3, <1>4, TurnKeeps DEF ScannerLabels

-----------------------------------------------------------------------------
(* An actor takes a place for its event, which no other has, or fills it. *)
LEMMA EventKeeps ==
  ASSUME IInv, NEW a \in Actors, EventStep(a)
  PROVE  IInv'
<1> USE DEF IInv, TypeOK
<1>0. /\ pc[a] \in {"event", "store"} /\ after[a] \in ScannerLabels \union ManagerLabels
      /\ UNCHANGED <<timerVars, packets, modes, stopped, counts, main>>
  BY ActorFacts DEF EventStep, LogEvent, Store, stopping, HandInv, Heading
<1>1. /\ PacketsOK' /\ ModesOK' /\ CountsOK' /\ TimerOK' /\ TimerInv'
  BY <1>0, PartsKept DEF counts
<1>2. /\ \A b \in Actors : Heading(b)' = Heading(b)
      /\ \A b \in Actors : pc'[b] \in {"event", "store"} => after'[b] = after[b] /\ pc[b] \in {"event", "store"}
  BY <1>0 DEF EventStep, LogEvent, Store, Heading, ThreadsOK, ScannerLabels, ManagerLabels
<1>3. HandInv'
  BY <1>0, <1>2, ActorFacts DEF HandInv, modes, packets
<1>4. JoinInv'
  BY <1>0, ActorFacts DEF EventStep, LogEvent, Store, JoinInv, ThreadsOK
<1>5. SinceInv'
  <2>1. \A s \in Scanners : InHand(s)' <=> InHand(s)
    BY <1>0, <1>2, ActorFacts
       DEF EventStep, LogEvent, Store, InHand, ThreadsOK, HandInv, modes
  <2> QED  BY <1>0, <2>1 DEF SinceInv, SinceOf, Since, Owes, Covered, modes, counts, packets
<1>6. CASE LogEvent(a)
  <2>1. ThreadsOK'
    BY <1>6 DEF LogEvent, TakePlace, ThreadsOK, Labels
  <2>2. /\ Storing' = Storing \union {a} /\ a \notin Storing
        /\ place'[a] = evt_id /\ \A b \in Storing : place'[b] = place[b]
        /\ evt_id' = evt_id + 1 /\ evt_id \in Nat /\ events' = events
    BY <1>6 DEF LogEvent, TakePlace, ThreadsOK, Storing
  <2>3. EventInv'
    BY <2>2 DEF EventInv
  <2> QED  BY <1>1, <1>3, <1>4, <1>5, <2>1, <2>3
<1>7. CASE Store(a)
  <2>1. ThreadsOK'
    BY <1>7 DEF Store, StoreEvent, ThreadsOK, Labels, ScannerLabels
  <2>2. /\ Storing' = Storing \ {a} /\ a \in Storing
        /\ \A b \in Storing' : place'[b] = place[b]
        /\ evt_id' = evt_id /\ evt_id \in Nat /\ events' = events \union {place[a]}
    BY <1>0, <1>7 DEF Store, StoreEvent, ThreadsOK, Storing, ScannerLabels, ManagerLabels
  <2>3. EventInv'
    BY <2>2 DEF EventInv
  <2> QED  BY <1>1, <1>3, <1>4, <1>5, <2>1, <2>3
<1> QED  BY <1>6, <1>7 DEF EventStep

(* The manager changes types and modes, in this order, and the stop. *)
LEMMA ManagerKeeps ==
  ASSUME IInv, Alert \/ ManagerStep
  PROVE  IInv'
<1> USE DEF IInv, TypeOK
<1>0. /\ pc[Manager] \notin {"event", "store", "gone"}
      /\ UNCHANGED <<timerVars, eventVars, packets, counts, main>>
  BY DEF Alert, ManagerStep, EndWatch, SwitchType, SwitchMode, RegularsDone, InputsEmpty, Stop,
         StopScanners, managerOthers
<1>1. PICK m \in ManagerLabels : Goes(Manager, m)
  BY DEF Alert, ManagerStep, EndWatch, SwitchType, SwitchMode, RegularsDone, InputsEmpty, Stop,
         StopScanners, Goto, EventThen, Goes, ManagerLabels
<1>2. /\ ThreadsOK' /\ Storing' = Storing /\ place' = place /\ Heading(Manager)' = m
      /\ \A s \in Scanners : pc'[s] = pc[s] /\ Heading(s)' = Heading(s) /\ after'[s] = after[s]
  <2>1. \A s \in Scanners : after'[s] = after[s]
    BY <1>1, ActorFacts DEF Goes, ThreadsOK
  <2> QED  BY <1>0, <1>1, <2>1, Going, ActorFacts DEF Goes, eventVars
<1>3. /\ PacketsOK' /\ CountsOK' /\ TimerOK' /\ TimerInv' /\ EventInv'
  BY <1>0, <1>2, PartsKept DEF counts
<1>4. JoinInv'
  BY <1>0, <1>2 DEF JoinInv
<1>5. ASSUME UNCHANGED modes, stopped' = stopped \/ stopped' = TRUE
      PROVE  ModesOK' /\ HandInv' /\ SinceInv'
  <2>1. ModesOK'
    BY <1>5 DEF ModesOK, modes
  <2>2. HandInv'
    BY <1>0, <1>2, <1>5 DEF HandInv, modes, packets
  <2>3. SinceInv'
    BY <1>0, <1>2, <1>5 DEF SinceInv, SinceOf, Since, InHand, Owes, Covered, modes, packets, counts
  <2> QED  BY <2>1, <2>2, <2>3
<1>6. CASE SwitchType
  <2> PICK s \in Scanners : /\ ~ alert_mode_active[s]
                            /\ isTableMachine' = [isTableMachine EXCEPT ![s] = s >= NumDedicated]
    BY <1>6 DEF SwitchType, NextToSwitch
  <2>0. UNCHANGED <<alert_mode_active, stopped>> /\ s \in Nat /\ NumDedicated \in Nat
    BY <1>6, ActorFacts, ThroughputAssumption, TimerAssumption DEF SwitchType, stopping
  <2>1. ModesOK'
    BY <2>0 DEF ModesOK
  <2>2. HandInv'
    BY <1>0, <1>2, <2>0 DEF HandInv, packets, ModesOK
  <2>3. \A r \in Scanners : alert_mode_active[r] => (InHand(r)' <=> InHand(r))
    BY <1>2 DEF InHand, ModesOK
  <2>4. SinceInv'
    BY <1>0, <1>2, <2>0, <2>3 DEF SinceInv, SinceOf, Since, Owes, Covered, packets, counts
  <2> QED  BY <1>2, <1>3, <1>4, <2>1, <2>2, <2>4
<1>7. CASE SwitchMode
  <2> PICK s \in Scanners : /\ ~ alert_mode_active[s]
                            /\ alert_mode_active' = [alert_mode_active EXCEPT ![s] = TRUE]
    BY <1>7 DEF SwitchMode, NextToSwitch
  <2>0. UNCHANGED <<isTableMachine, stopped>>
    BY <1>7 DEF SwitchMode, stopping
  <2>1. ModesOK'
    BY <2>0 DEF ModesOK
  <2>2. HandInv'
    BY <1>0, <1>2, <2>0 DEF HandInv, packets
  <2>3. \A r \in Scanners : (InHand(r)' <=> InHand(r)) /\ (Since(r) = 0 => Owes(r)' /\ Covered(r)')
    BY <1>0, <1>2, <2>0, PacketFacts DEF InHand, Since, Owes, Covered, counts, packets
  <2>4. SinceInv'
    BY <1>0, <1>2, <2>0, <2>3
       DEF SinceInv, SinceOf, Since, Owes, Covered, packets, counts, ModesOK
  <2> QED  BY <1>2, <1>3, <1>4, <2>1, <2>2, <2>4
<1>8. CASE ~ SwitchType /\ ~ SwitchMode
  <2>1. UNCHANGED modes /\ (stopped' = stopped \/ stopped' = TRUE)
    BY <1>8 DEF Alert, ManagerStep, EndWatch, RegularsDone, InputsEmpty, Stop, StopScanners, stopping
  <2> QED  BY <1>2, <1>3, <1>4, <1>5, <2>1
<1> QED  BY <1>6, <1>7, <1>8

-----------------------------------------------------------------------------
(* Main waits for the others and puts the rates together. *)
LEMMA MainKeeps ==
  ASSUME IInv, MainStep
  PROVE  IInv'
<1> USE DEF IInv, TypeOK
<1>0. /\ UNCHANGED <<eventVars, threads, packets, modes, counts>>
      /\ UNCHANGED <<bytes_processed, intervals, ti, bytes>>
      /\ stopped' = stopped \/ stopped' = TRUE
  BY DEF MainStep, StartTimer, EndTimer, StopManager, JoinBoth, GetResults, mainOnly, timerVars,
         global_timer_start, global_timer_end, global_timer_get_results
<1>1. ThreadsOK' /\ PacketsOK' /\ CountsOK' /\ EventInv' /\ HandInv'
  <2>1. ThreadsOK' /\ Storing' = Storing
    BY <1>0 DEF ThreadsOK, threads, eventVars, Storing
  <2>2. HandInv'
    BY <1>0 DEF HandInv, Heading, threads, packets, modes
  <2> QED  BY <1>0, <2>1, <2>2, PartsKept DEF counts, threads
<1>2. ModesOK' /\ SinceInv'
  <2>1. ModesOK'
    BY <1>0 DEF ModesOK, modes
  <2>2. SinceInv'
    BY <1>0 DEF SinceInv, SinceOf, Since, InHand, Owes, Covered, modes, packets, counts, threads
  <2> QED  BY <2>1, <2>2
<1>3. TimerOK'
  <2>1. CASE GetResults
    <3>1. \A s \in Scanners : SubSeq(lists[s], intervals + 1, Len(lists[s])) \in Seq(Int)
      <4> TAKE s \in Scanners
      <4>1. lists[s] \in Seq(Int) /\ Len(lists[s]) \in Nat
        BY LenProperties DEF TimerOK
      <4>2. \A i \in intervals + 1 .. Len(lists[s]) : lists[s][i] \in Int
        BY <4>1, ElementOfSeq DEF TimerOK
      <4> QED  BY <4>1, <4>2, SubSeqProperties DEF TimerOK
    <3>2. lists' \in [Scanners -> Seq(Int)]
      BY <2>1, <3>1 DEF GetResults, global_timer_get_results
    <3> QED  BY <1>0, <3>2 DEF TimerOK, counts
  <2>2. CASE ~ GetResults
    <3>1. lists' = lists
      BY <2>2 DEF MainStep, StartTimer, EndTimer, StopManager, JoinBoth, timerVars,
                  global_timer_start, global_timer_end
    <3> QED  BY <1>0, <3>1 DEF TimerOK, counts
  <2> QED  BY <2>1, <2>2
<1>4. TimerInv' /\ JoinInv'
  <2>1. CASE StartTimer
    BY <1>0, <2>1 DEF StartTimer, global_timer_start, TimerInv, Rates, JoinInv, threads
  <2>2. CASE EndTimer
    BY <1>0, <2>2 DEF EndTimer, global_timer_end, TimerInv, Rates, JoinInv, threads
  <2>3. CASE StopManager
    BY <1>0, <2>3 DEF StopManager, timerVars, TimerInv, Rates, JoinInv, threads
  <2>4. CASE JoinBoth
    BY <1>0, <2>4 DEF JoinBoth, timerVars, TimerInv, Rates, JoinInv, threads
  <2>5. CASE GetResults
    BY <1>0, <2>5 DEF GetResults, global_timer_get_results, TimerInv, Rates, JoinInv, threads
  <2> QED  BY <2>1, <2>2, <2>3, <2>4, <2>5 DEF MainStep
<1> QED  BY <1>1, <1>2, <1>3, <1>4

(* The timer thread adds a rate to each list before it counts the interval. *)
LEMMA TimerKeeps ==
  ASSUME IInv, Timer
  PROVE  IInv'
<1> USE DEF IInv, TypeOK
<1>0. /\ UNCHANGED <<eventVars, threads, packets, modes, counts, stopped, main>>
      /\ tpc \notin {"off", "gone"} /\ main \notin {"start", "results", "done"}
  BY DEF Timer, TimerStep, mainOnly, TestStopped, Sleep, Collect, Keep, CountInterval, TimerInv
<1>1. /\ ThreadsOK' /\ PacketsOK' /\ ModesOK' /\ CountsOK' /\ EventInv' /\ HandInv' /\ JoinInv' /\ SinceInv'
  <2>1. ThreadsOK' /\ Storing' = Storing
    BY <1>0 DEF ThreadsOK, threads, eventVars, Storing
  <2>2. HandInv' /\ JoinInv'
    BY <1>0 DEF HandInv, JoinInv, Heading, threads, packets, modes
  <2>3. SinceInv'
    BY <1>0 DEF SinceInv, SinceOf, Since, InHand, Owes, Covered, modes, packets, counts, threads
  <2> QED  BY <1>0, <2>1, <2>2, <2>3, PartsKept DEF counts, threads
<1>2. CASE TestStopped
  BY <1>0, <1>1, <1>2 DEF TestStopped, TimerOK, TimerInv, Rates, counts
<1>3. CASE Sleep
  BY <1>0, <1>1, <1>3, ActorFacts DEF Sleep, TimerOK, TimerInv, Rates, counts
<1>4. CASE Collect
  <2>1. ti \in Scanners
    BY <1>4 DEF Collect, TimerInv
  <2>2. TimerOK'
    BY <1>0, <1>4, <2>1 DEF Collect, TimerOK, counts
  <2>3. TimerInv'
    BY <1>0, <1>4 DEF Collect, TimerInv, Rates
  <2> QED  BY <1>1, <2>2, <2>3
<1>5. CASE Keep
  <2>1. ti \in Scanners /\ lists[ti] \in Seq(Int) /\ bytes \in Int
    BY <1>5 DEF Keep, TimerInv, TimerOK
  <2>2. /\ Append(lists[ti], bytes) \in Seq(Int)
        /\ Len(Append(lists[ti], bytes)) = Len(lists[ti]) + 1
    BY <2>1, AppendProperties
  <2>3. TimerOK'
    <3>1. lists' = [lists EXCEPT ![ti] = Append(@, bytes)] /\ lists' \in [Scanners -> Seq(Int)]
      BY <1>5, <2>2 DEF Keep, TimerOK
    <3> QED  BY <1>0, <1>5, <3>1 DEF Keep, TimerOK, counts
  <2>4. TimerInv'
    <3>1. \A s \in Scanners : Len(lists'[s]) = IF s <= ti THEN intervals + 1 ELSE intervals
      BY <1>0, <1>5, <2>1, <2>2, ActorFacts DEF Keep, TimerInv, Rates, TimerOK
    <3>2. ti' = ti + 1 /\ ti \in Nat /\ intervals' = intervals /\ Scanners = 0 .. NumScanners - 1 /\ NumScanners \in Nat
      BY <1>5, TimerAssumption DEF Keep, TimerOK, Scanners
    <3>3. CASE ti + 1 < NumScanners
      BY <1>0, <1>5, <3>1, <3>2, <3>3 DEF Keep, TimerInv, Rates
    <3>4. CASE ~ (ti + 1 < NumScanners)
      BY <1>0, <1>5, <3>1, <3>2, <3>4 DEF Keep, TimerInv, Rates
    <3> QED  BY <3>3, <3>4
  <2> QED  BY <1>1, <2>3, <2>4
<1>6. CASE CountInterval
  BY <1>0, <1>1, <1>6 DEF CountInterval, TimerOK, TimerInv, Rates, counts
<1> QED  BY <1>0, <1>2, <1>3, <1>4, <1>5, <1>6 DEF Timer, TimerStep

-----------------------------------------------------------------------------
(* Nothing is counted, collected or logged at the start. *)
LEMMA InitIInv == Init => IInv
<1> SUFFICES ASSUME Init PROVE IInv
  OBVIOUS
<1> USE ActorFacts DEF Init, TimerInit, None, NoResult
<1>1. ThreadsOK
  BY DEF ThreadsOK, Labels, ScannerLabels, ManagerLabels
<1>2. PacketsOK
  BY ThroughputAssumption DEF PacketsOK
<1>3. ModesOK /\ CountsOK /\ TimerOK
  BY EmptySeq DEF ModesOK, CountsOK, TimerOK
<1>4. HandInv
  BY PacketFacts DEF HandInv, Heading, ScannerLabels, ManagerLabels
<1>5. SinceInv
  BY DEF SinceInv, SinceOf, Since
<1>6. TimerInv
  BY DEF TimerInv, Rates
<1>7. EventInv /\ JoinInv
  BY DEF EventInv, JoinInv, Storing
<1> QED  BY <1>1, <1>2, <1>3, <1>4, <1>5, <1>6, <1>7 DEF IInv, TypeOK

(* Every step keeps the invariant. *)
LEMMA NextIInv == IInv /\ [Next]_vars => IInv'
<1> SUFFICES ASSUME IInv, [Next]_vars PROVE IInv'
  OBVIOUS
<1>1. ASSUME NEW s \in Scanners, ScannerStep(s) PROVE IInv'
  BY <1>1, TakeKeeps, CountKeeps, ScanKeeps, ReportKeeps DEF ScannerStep
<1>2. CASE UNCHANGED vars
  <2> USE <1>2 DEF vars, threads
  <2>1. TypeOK' /\ HandInv' /\ JoinInv'
    BY DEF IInv, TypeOK, ThreadsOK, PacketsOK, ModesOK, CountsOK, TimerOK, HandInv, JoinInv,
           Heading, packets, modes, stopping, counts, timerVars, eventVars
  <2>2. SinceInv'
    BY DEF IInv, SinceInv, SinceOf, Since, InHand, Owes, Covered, packets, modes, stopping, counts
  <2>3. TimerInv' /\ EventInv'
    BY DEF IInv, TimerInv, Rates, EventInv, Storing, timerVars, eventVars
  <2> QED  BY <2>1, <2>2, <2>3 DEF IInv
<1> QED  BY <1>1, <1>2, EventKeeps, ManagerKeeps, MainKeeps, TimerKeeps DEF Next

(* IInv holds in every run. *)
LEMMA AlwaysIInv == Spec => []IInv
BY InitIInv, NextIInv, PTL DEF Spec

(* The bytes counted since the alert are a part of those counted, and until *)
(* the stop no more is taken back than the one packet that was in hand when *)
(* the mode was switched (Scanner.c:335-346, 452-459).                      *)
THEOREM SinceAlertCounted == Spec => []SinceAlertOnce
<1>1. IInv => SinceAlertOnce
  <2> SUFFICES ASSUME IInv, NEW s \in Scanners
               PROVE  /\ Since(s) <= bytes_scanned[s]
                      /\ stopped \/ Owes(s)
    BY DEF SinceAlertOnce, Since, Owes
  <2>1. SinceOf(s)
    BY DEF IInv, SinceInv
  <2>2. Since(s) = 0 \/ (InHand(s) /\ Covered(s)) => Owes(s)
    <3>1. CASE Since(s) >= 0
      BY <3>1, PacketFacts DEF Owes, IInv, TypeOK, CountsOK, Since
    <3>2. CASE InHand(s) /\ \E size \in Sizes : Since(s) >= packet[s].size - size
      <4>1. packet[s].size \in Nat \ {0}
        BY <3>2, PacketFacts DEF IInv, TypeOK, PacketsOK, HandInv, Heading, InHand
      <4> QED  BY <3>2, <4>1, PacketFacts DEF Owes, IInv, TypeOK, CountsOK, Since
    <3> QED  BY <3>1, <3>2, PacketFacts DEF Covered
  <2> QED  BY <2>1, <2>2 DEF SinceOf
<1> QED  BY <1>1, AlwaysIInv, PTL

(* Main never misses a rate nor is left with one when it puts the time line *)
(* together (global_timer_get_results).                                     *)
THEOREM AllRatesThere == Spec => []RatesComplete
<1>1. IInv => RatesComplete
  BY DEF IInv, TimerInv, Rates, RatesComplete
<1> QED  BY <1>1, AlwaysIInv, PTL

(* The events main prints are all that any number of threads logged, as     *)
(* long as the array has a place for each (global_timer_set_event).         *)
THEOREM AllEventsKept == Spec => []EventsKept
<1>1. IInv => EventsKept
  <2> SUFFICES ASSUME IInv, main = "done", evt_id <= MaxEvents
               PROVE  EventCount = evt_id
    BY DEF EventsKept
  <2>1. Storing = {}
    BY ActorFacts DEF IInv, JoinInv, Storing
  <2>2. events = 0 .. evt_id - 1 /\ evt_id \in Nat /\ MaxEvents \in Nat
    BY <2>1, TimerAssumption DEF IInv, EventInv, TypeOK, ThreadsOK
  <2>3. ASSUME NEW n \in 0 .. MaxEvents
        PROVE  (/\ \A id \in 0 .. n - 1 : id \in events
                /\ n < MaxEvents => n \notin events) <=> n = evt_id
    BY <2>2
  <2>4. EventCount = CHOOSE n \in 0 .. MaxEvents : n = evt_id
    BY <2>3 DEF EventCount
  <2> QED  BY <2>2, <2>4
<1> QED  BY <1>1, AlwaysIInv, PTL

-----------------------------------------------------------------------------
(* Every byte is counted once: the counters, what waits in the queue and   *)
(* what is in the hands of scanners that have not counted it add up to     *)
(* what was taken from the lists.                                          *)

Queued == SumFunctionOnSet(InQueue, DOMAIN heavy)
Held   == Total(InHands)

HistoryOK == begun \in Int /\ skipped \in [Scanners -> Int] /\ results \in [Scanners -> Seq(Int)]

(* Modes are switched in order, a type before its mode, and a packet is    *)
(* passed on by a scanner switched after all the dedicated ones.           *)
SwitchInv ==
  /\ \A s \in Scanners : alert_mode_active[s] => \A t \in 0 .. s - 1 : alert_mode_active[t]
  /\ \A s \in Scanners : alert_mode_active[s] /\ s < NumDedicated => ~ isTableMachine[s]
  /\ pc[Manager] = "switch_mode" =>
       \A s \in Scanners : NextToSwitch(s) /\ s < NumDedicated => ~ isTableMachine[s]
  /\ after[Manager] # "switch_mode"

PassedInv ==
  heavy # <<>> \/ (\E s \in Scanners : packet[s] \in HeavyPackets) =>
    \A s \in Scanners : s < NumDedicated => alert_mode_active[s]

(* A scanner keeps a heavy packet no longer than its scan.                 *)
LooseInv == \A s \in Scanners : packet[s] \in HeavyPackets => NotCounted(s) \/ pc[s] = "scan"

CountInv ==
  LET all == Total(bytes_scanned) + Queued + Held
  IN IF stopped THEN all >= begun ELSE all = begun

JInv == HistoryOK /\ SwitchInv /\ PassedInv /\ LooseInv /\ CountInv

LEMMA FiniteScanners == IsFiniteSet(Scanners)
BY TimerAssumption, FS_Interval DEF Scanners

LEMMA PacketIs ==
  ASSUME TypeOK, NEW s \in Scanners
  PROVE  /\ packet[s].own \in BOOLEAN /\ packet[s].size \in Nat /\ packet[s].last \in Nat
         /\ ~ packet[s].own <=> packet[s] \in HeavyPackets
         /\ packet[s].own => packet[s].last = 0
         /\ LeftOf(packet[s]) \in Nat /\ LeftOf(packet[s]) = packet[s].size - packet[s].last
<1>1. packet[s] \in {NoPacket} \union OwnPackets \union HeavyPackets
  BY DEF TypeOK, PacketsOK
<1>2. CASE packet[s] = NoPacket
  BY <1>2, PacketFacts DEF NoPacket, LeftOf
<1>3. CASE packet[s] \in OwnPackets
  <2>1. packet[s].own = TRUE /\ packet[s].last = 0 /\ packet[s] \notin HeavyPackets
    BY <1>3, PacketFacts DEF OwnPackets
  <2> QED  BY <1>3, <2>1, PacketFacts DEF LeftOf
<1>4. CASE packet[s] \in HeavyPackets
  <2>1. packet[s].own = FALSE
    BY <1>4 DEF HeavyPackets
  <2> QED  BY <1>4, <2>1, PacketFacts DEF LeftOf
<1> QED  BY <1>1, <1>2, <1>3, <1>4

(* What a scanner holds and has not counted. *)
HandsNat ==
  /\ \A s \in Scanners : InHands[s] \in Nat
  /\ \A s \in Scanners : packet[s] \notin HeavyPackets => InHands[s] = 0
  /\ \A s \in Scanners : ~ NotCounted(s) => InHands[s] = 0
  /\ \A s \in Scanners : NotCounted(s) => InHands[s] = LeftOf(packet[s])
  /\ Held \in Nat

LEMMA HoldsNat == TypeOK => HandsNat
<1> SUFFICES ASSUME TypeOK PROVE HandsNat
  OBVIOUS
<1>1. \A s \in Scanners : InHands[s] = IF NotCounted(s) THEN LeftOf(packet[s]) ELSE 0
  BY DEF InHands
<1>2. \A s \in Scanners : LeftOf(packet[s]) \in Nat
  BY PacketIs
<1>3. \A s \in Scanners : packet[s] \notin HeavyPackets => ~ NotCounted(s)
  BY PacketIs DEF NotCounted
<1>4. \A s \in Scanners : InHands[s] \in Nat
  BY <1>1, <1>2
<1>5. Held \in Nat
  BY <1>4, FiniteScanners, SumType DEF Held, Total
<1> QED  BY <1>1, <1>3, <1>4, <1>5 DEF HandsNat

LEMMA HoldsNatNext == TypeOK' => HandsNat'
BY HoldsNat, PTL

QueueNat ==
  /\ DOMAIN heavy = 1 .. Len(heavy) /\ Len(heavy) \in Nat /\ IsFiniteSet(DOMAIN heavy)
  /\ \A i \in DOMAIN heavy : heavy[i] \in HeavyPackets /\ InQueue[i] = LeftOf(heavy[i])
  /\ \A i \in DOMAIN heavy : InQueue[i] \in Nat
  /\ Queued \in Nat

LEMMA QueuedNat == TypeOK => QueueNat
<1> SUFFICES ASSUME TypeOK PROVE QueueNat
  OBVIOUS
<1>1. DOMAIN heavy = 1 .. Len(heavy) /\ Len(heavy) \in Nat
  BY DEF TypeOK, PacketsOK
<1>2. IsFiniteSet(DOMAIN heavy)
  BY <1>1, FS_Interval
<1>3. \A i \in DOMAIN heavy : heavy[i] \in HeavyPackets /\ InQueue[i] = LeftOf(heavy[i])
  BY DEF TypeOK, PacketsOK, InQueue
<1>4. \A p \in HeavyPackets : LeftOf(p) \in Nat
  BY PacketFacts DEF LeftOf
<1>5. \A i \in DOMAIN heavy : InQueue[i] \in Nat
  BY <1>3, <1>4
<1>6. Queued \in Nat
  BY <1>2, <1>5, SumType DEF Queued
<1> QED  BY <1>1, <1>2, <1>3, <1>5, <1>6 DEF QueueNat

LEMMA QueuedNatNext == TypeOK' => QueueNat'
BY QueuedNat, PTL

LEMMA TotalInt ==
  ASSUME TypeOK
  PROVE  Total(bytes_scanned) \in Int /\ \A s \in Scanners : bytes_scanned[s] \in Int
BY FiniteScanners, SumType DEF TypeOK, CountsOK, Total

(* One scanner changes what it holds. *)
LEMMA HeldChanges ==
  ASSUME TypeOK, TypeOK', NEW s \in Scanners,
         \A r \in Scanners \ {s} : InHands'[r] = InHands[r]
  PROVE  Held' = Held + InHands'[s] - InHands[s]
<1>1. \A r \in Scanners : InHands[r] \in Int /\ InHands'[r] \in Int
  BY HoldsNat, HoldsNatNext DEF HandsNat
<1> QED  BY <1>1, FiniteScanners, SumChange DEF Held, Total

(* One scanner changes its count. *)
LEMMA TotalChanges ==
  ASSUME TypeOK, NEW s \in Scanners, NEW n \in Int, bytes_scanned' = Plus(bytes_scanned, s, n)
  PROVE  Total(bytes_scanned)' = Total(bytes_scanned) + n
<1> DEFINE f == bytes_scanned
           g == bytes_scanned'
<1>1. \A r \in Scanners : f[r] \in Int /\ g[r] \in Int
  BY DEF TypeOK, CountsOK, Plus
<1>2. g[s] = f[s] + n /\ \A r \in Scanners \ {s} : g[r] = f[r]
  BY DEF TypeOK, CountsOK, Plus
<1>3. SumFunctionOnSet(f, Scanners) \in Int
  BY <1>1, FiniteScanners, SumType
<1> HIDE DEF f, g
<1>4. s \in Scanners /\ \A r \in Scanners \ {s} : g[r] = f[r]
  BY <1>2
<1>5. SumFunctionOnSet(g, Scanners) = SumFunctionOnSet(f, Scanners) + g[s] - f[s]
  BY <1>1, <1>4, FiniteScanners, SumChange
<1>6. SumFunctionOnSet(g, Scanners) = SumFunctionOnSet(f, Scanners) + n
  BY <1>1, <1>2, <1>3, <1>5
<1> QED  BY <1>6 DEF f, g, Total

(* A heavy packet leaves the queue, or comes to its end. *)
LEMMA QueuedShrinks ==
  ASSUME TypeOK, TypeOK', heavy # <<>>, heavy' = Tail(heavy)
  PROVE  /\ Head(heavy) \in HeavyPackets /\ Queued = LeftOf(Head(heavy)) + Queued'
<1> DEFINE n == Len(heavy) - 1
<1>1. /\ n \in Nat /\ DOMAIN heavy = 1 .. n + 1 /\ DOMAIN heavy' = 1 .. n
      /\ \A i \in 1 .. n : heavy'[i] = heavy[i + 1]
      /\ Head(heavy) = heavy[1] /\ 1 \in DOMAIN heavy
  BY DEF TypeOK, PacketsOK
<1>2. \A i \in 1 .. n + 1 : InQueue[i] \in Int /\ InQueue[i] = LeftOf(heavy[i])
  BY <1>1, QueuedNat, QueuedNatNext DEF QueueNat
<1>3. \A i \in 1 .. n : InQueue'[i] = LeftOf(heavy'[i])
  BY <1>1, QueuedNat, QueuedNatNext DEF QueueNat
<1>4. \A i \in 1 .. n : InQueue'[i] = InQueue[i + 1]
  <2>1. ASSUME NEW i \in 1 .. n PROVE InQueue'[i] = InQueue[i + 1]
    <3>1. i + 1 \in 1 .. n + 1
      BY <1>1
    <3> QED  BY <1>1, <1>2, <1>3, <3>1
  <2> QED  BY <2>1
<1> HIDE DEF n
<1>5. SumFunctionOnSet(InQueue, 1 .. n + 1) = InQueue[1] + SumFunctionOnSet(InQueue', 1 .. n)
  BY <1>1, <1>2, <1>4, SumFirst
<1>6. InQueue[1] = LeftOf(Head(heavy)) /\ Head(heavy) \in HeavyPackets
  BY <1>1, QueuedNat, QueuedNatNext DEF QueueNat
<1> QED  BY <1>1, <1>5, <1>6 DEF Queued

LEMMA QueuedGrows ==
  ASSUME TypeOK, TypeOK', NEW p \in HeavyPackets, heavy' = Append(heavy, p)
  PROVE  Queued' = Queued + LeftOf(p)
<1> DEFINE n == Len(heavy)
<1>1. n \in Nat /\ DOMAIN heavy = 1 .. n
  BY DEF TypeOK, PacketsOK
<1>2. /\ DOMAIN heavy' = 1 .. n + 1 /\ heavy'[n + 1] = p
      /\ \A i \in 1 .. n : heavy'[i] = heavy[i]
  <2>1. heavy \in Seq(HeavyPackets)
    BY DEF TypeOK, PacketsOK
  <2>2. /\ Append(heavy, p) \in Seq(HeavyPackets) /\ Len(Append(heavy, p)) = n + 1
        /\ \A i \in 1 .. n : Append(heavy, p)[i] = heavy[i]
        /\ Append(heavy, p)[n + 1] = p
    BY <2>1, AppendProperties
  <2>3. DOMAIN Append(heavy, p) = 1 .. n + 1
    BY <2>2, LenProperties
  <2> HIDE DEF n
  <2>4. DOMAIN heavy' = 1 .. n + 1
    BY <2>3
  <2>5. heavy'[n + 1] = p
    BY <2>2
  <2>6. \A i \in 1 .. n : heavy'[i] = heavy[i]
    BY <2>2
  <2> QED  BY <2>4, <2>5, <2>6
<1> HIDE DEF n
<1>3. \A i \in 1 .. n + 1 : InQueue'[i] \in Nat /\ InQueue'[i] = LeftOf(heavy'[i])
  <2>1. \A i \in DOMAIN heavy' : InQueue'[i] \in Nat /\ InQueue'[i] = LeftOf(heavy'[i])
    BY QueuedNatNext DEF QueueNat
  <2> QED  BY <1>2, <2>1, Zenon
<1>4. \A i \in 1 .. n : InQueue[i] = LeftOf(heavy[i])
  BY <1>1, QueuedNat, QueuedNatNext DEF QueueNat
<1>5. \A i \in 1 .. n : InQueue'[i] = InQueue[i] /\ i \in 1 .. n + 1
  BY <1>1, <1>2, <1>3, <1>4
<1>6. SumFunctionOnSet(InQueue', 1 .. n + 1) = SumFunctionOnSet(InQueue', 1 .. n) + InQueue'[n + 1]
  BY <1>1, <1>3, SumLast
<1>7. SumFunctionOnSet(InQueue', 1 .. n) = SumFunctionOnSet(InQueue, 1 .. n)
  <2>1. IsFiniteSet(1 .. n)
    BY <1>1, FS_Interval
  <2> QED  BY <1>5, <2>1, SumSame
<1>8. n + 1 \in 1 .. n + 1
  BY <1>1
<1> QED  BY <1>1, <1>2, <1>3, <1>6, <1>7, <1>8 DEF Queued

-----------------------------------------------------------------------------
(* What a step of one scanner leaves alone.                                *)
OthersKept(s) ==
  \A r \in Scanners \ {s} : pc'[r] = pc[r] /\ after'[r] = after[r] /\ packet'[r] = packet[r]

LEMMA OthersHold ==
  ASSUME TypeOK, NEW s \in Scanners, OthersKept(s)
  PROVE  \A r \in Scanners \ {s} : InHands'[r] = InHands[r] /\ (NotCounted(r)' <=> NotCounted(r))
<1>1. \A r \in Scanners \ {s} : NotCounted(r)' <=> NotCounted(r)
  BY DEF OthersKept, NotCounted
<1>2. \A r \in Scanners : /\ InHands[r] = IF NotCounted(r) THEN LeftOf(packet[r]) ELSE 0
                          /\ InHands'[r] = IF NotCounted(r)' THEN LeftOf(packet'[r]) ELSE 0
  BY DEF InHands
<1> QED  BY <1>1, <1>2 DEF OthersKept

(* Modes, and the order they are switched in, are the manager's.           *)
ManagerKept == pc'[Manager] = pc[Manager] /\ after'[Manager] = after[Manager]

LEMMA SwitchKept ==
  ASSUME IInv, SwitchInv, UNCHANGED modes,
         pc'[Manager] = pc[Manager] \/ pc'[Manager] # "switch_mode",
         after'[Manager] = after[Manager] \/ after'[Manager] # "switch_mode"
  PROVE  SwitchInv'
BY DEF SwitchInv, NextToSwitch, modes

(* A step of a scanner that touches neither the counters nor the queue,    *)
(* and holds as much as before.                                            *)
LEMMA CountKept ==
  ASSUME JInv, TypeOK, TypeOK', NEW s \in Scanners, OthersKept(s), InHands'[s] = InHands[s],
         UNCHANGED <<bytes_scanned, heavy, begun, stopped>>
  PROVE  CountInv'
<1>1. Held' = Held
  <2>1. \A r \in Scanners : InHands'[r] = InHands[r]
    BY OthersHold
  <2> QED  BY <2>1, FiniteScanners, SumSame DEF Held, Total
<1>2. Queued' = Queued /\ Total(bytes_scanned)' = Total(bytes_scanned)
  BY DEF Queued, InQueue, Total
<1> QED  BY <1>1, <1>2 DEF JInv, CountInv

LEMMA TakeCounts ==
  ASSUME IInv, IInv', JInv, NEW s \in Scanners, Take(s)
  PROVE  JInv'
<1> USE DEF IInv
<1>1. /\ pc[s] = "loop" /\ OthersKept(s) /\ ManagerKept
      /\ UNCHANGED <<bytes_scanned, begun, skipped, results, modes, stopped>>
  BY ActorFacts DEF Take, Stopping, TakeOwn, TakeHeavy, QueueIsEmpty, EventOnce, Goto, OthersKept, ManagerKept,
     TypeOK, ThreadsOK, PacketsOK, packets, counts, history, timerVars, stopping
<1>2. ~ NotCounted(s) /\ packet[s] \notin HeavyPackets /\ InHands[s] = 0
  <2>1. ~ NotCounted(s)
    BY <1>1 DEF NotCounted
  <2> QED  BY <1>1, <2>1, HoldsNat DEF JInv, LooseInv, HandsNat
<1>3. HistoryOK' /\ SwitchInv'
  BY <1>1, SwitchKept DEF JInv, ManagerKept, HistoryOK
<1>4. CASE TakeOwn(s)
  <2>1. packet'[s] \in OwnPackets /\ heavy' = heavy
    <3>1. \A z \in Sizes : [size |-> z, last |-> 0, own |-> TRUE] \in OwnPackets
      BY DEF OwnPackets
    <3> QED  BY <1>4, <3>1 DEF TakeOwn, TypeOK, PacketsOK
  <2>2. packet'[s] \notin HeavyPackets
    BY <2>1, PacketFacts
  <2>3. InHands'[s] = 0
    BY <2>2, HoldsNatNext DEF HandsNat
  <2>4. CountInv'
    BY <1>1, <1>2, <2>1, <2>3, CountKept
  <2>5. LooseInv'
    BY <1>1, <2>2, OthersHold DEF JInv, LooseInv, OthersKept
  <2>6. PassedInv'
    BY <1>1, <2>1, <2>2 DEF JInv, PassedInv, OthersKept, modes
  <2> QED  BY <1>3, <2>4, <2>5, <2>6 DEF JInv
<1>5. CASE TakeHeavy(s)
  <2>1. heavy # <<>> /\ heavy' = Tail(heavy) /\ packet'[s] = Head(heavy)
    BY <1>5 DEF TakeHeavy, TypeOK, PacketsOK
  <2>2. Head(heavy) \in HeavyPackets /\ Queued = LeftOf(Head(heavy)) + Queued'
    BY <2>1, QueuedShrinks
  <2>3. pc'[s] = "count" \/ (pc'[s] = "event" /\ after'[s] = "count")
    BY <1>5, ActorFacts DEF TakeHeavy, EventOnce, Goto, TypeOK, ThreadsOK
  <2>4. NotCounted(s)'
    <3>1. ~ packet'[s].own
      BY <2>1, <2>2 DEF HeavyPackets
    <3> QED  BY <2>3, <3>1 DEF NotCounted
  <2>5. InHands'[s] = LeftOf(Head(heavy))
    BY <2>1, <2>4, HoldsNatNext DEF HandsNat
  <2>6. Held' = Held + InHands'[s] - InHands[s]
    BY <1>1, OthersHold, HeldChanges
  <2>7. Total(bytes_scanned)' = Total(bytes_scanned)
    BY <1>1 DEF Total
  <2>8. /\ Held \in Nat /\ Held' \in Nat /\ Queued \in Nat /\ Queued' \in Nat
        /\ Total(bytes_scanned) \in Int /\ InHands'[s] \in Nat /\ begun \in Int
    BY HoldsNat, HoldsNatNext, QueuedNat, QueuedNatNext, TotalInt
       DEF HandsNat, QueueNat, JInv, HistoryOK
  <2>9. Queued' + Held' = Queued + Held
    BY <1>2, <2>2, <2>5, <2>6, <2>8
  <2>10. CountInv'
    <3> DEFINE t == Total(bytes_scanned)
               q == Queued
               h == Held
    <3>1. IF stopped THEN t + q + h >= begun ELSE t + q + h = begun
      BY DEF JInv, CountInv
    <3>2. /\ t' = t /\ q' + h' = q + h /\ stopped' = stopped /\ begun' = begun
          /\ t \in Int /\ t' \in Int /\ q \in Nat /\ q' \in Nat /\ h \in Nat /\ h' \in Nat
      BY <1>1, <2>7, <2>8, <2>9
    <3> HIDE DEF t, q, h
    <3>3. /\ t + (q' + h') = t + (q + h)
          /\ t + q' + h' = t + (q' + h') /\ t + q + h = t + (q + h)
      <4>1. t + (q' + h') = t + (q + h)
        BY <3>2
      <4>2. t + q' + h' = t + (q' + h')
        BY <3>2
      <4>3. t + q + h = t + (q + h)
        BY <3>2
      <4> QED  BY <4>1, <4>2, <4>3
    <3>4. IF stopped' THEN t' + q' + h' >= begun' ELSE t' + q' + h' = begun'
      BY <3>1, <3>2, <3>3
    <3> QED  BY <3>4 DEF CountInv, t, q, h
  <2>11. LooseInv'
    BY <1>1, <2>4, OthersHold DEF JInv, LooseInv, OthersKept
  <2>12. PassedInv'
    BY <1>1, <2>1 DEF JInv, PassedInv, OthersKept, modes
  <2> QED  BY <1>3, <2>10, <2>11, <2>12 DEF JInv
<1>6. CASE Stopping(s) \/ QueueIsEmpty(s)
  <2>1. UNCHANGED packets
    BY <1>6 DEF Stopping, QueueIsEmpty
  <2>2. packet' = packet /\ heavy' = heavy /\ packet'[s] \notin HeavyPackets
    BY <1>2, <2>1 DEF packets
  <2>3. InHands'[s] = 0
    BY <2>2, HoldsNatNext DEF HandsNat
  <2>4. CountInv'
    BY <1>1, <1>2, <2>2, <2>3, CountKept
  <2>5. LooseInv'
    BY <1>1, <2>2, OthersHold DEF JInv, LooseInv, OthersKept
  <2>6. PassedInv'
    BY <1>1, <2>2 DEF JInv, PassedInv, modes
  <2> QED  BY <1>3, <2>4, <2>5, <2>6 DEF JInv
<1> QED  BY <1>4, <1>5, <1>6 DEF Take

(* A packet is counted: all of it, or what is left of it if the scanner    *)
(* knows that another one has scanned the rest.                            *)
LEMMA CountCounts ==
  ASSUME IInv, IInv', JInv, NEW s \in Scanners, Count(s)
  PROVE  JInv'
<1> USE DEF IInv
<1>1. /\ pc[s] = "count" /\ OthersKept(s) /\ ManagerKept /\ pc'[s] \in {"scan", "gone"}
      /\ UNCHANGED <<packet, heavy, results, modes, stopped>>
  BY ActorFacts DEF Count, Goto, OthersKept, ManagerKept, TypeOK, ThreadsOK, packets, timerVars, stopping
<1>2. SwitchInv' /\ PassedInv'
  BY <1>1, SwitchKept DEF JInv, ManagerKept, PassedInv, modes
<1>3. LooseInv'
  <2>1. packet'[s] \in HeavyPackets => NotCounted(s)' \/ pc'[s] = "scan"
    BY <1>1, PacketIs DEF NotCounted
  <2> QED  BY <1>1, <2>1, OthersHold DEF JInv, LooseInv, OthersKept
<1>4. CASE done[s]
  <2>1. pc'[s] = "gone" /\ UNCHANGED <<bytes_scanned, begun, skipped>>
    BY <1>4, ActorFacts DEF Count, counts, history, Goto, TypeOK, ThreadsOK
  <2>2. NotCounted(s)' <=> NotCounted(s)
    BY <1>1, <2>1 DEF NotCounted
  <2>3. InHands'[s] = InHands[s]
    BY <1>1, <2>2 DEF InHands
  <2>4. CountInv'
    BY <1>1, <2>1, <2>3, CountKept
  <2> QED  BY <1>1, <1>2, <1>3, <2>1, <2>4 DEF JInv, HistoryOK
<1>5. CASE ~ done[s]
  <2> DEFINE z == packet[s].size
             b == ScannedBefore(s)
             o == IF packet[s].own THEN z ELSE 0
  <2>1. /\ bytes_scanned' = Plus(bytes_scanned, s, z - b)
        /\ begun' = begun + o /\ skipped' = Plus(skipped, s, b) /\ pc'[s] = "scan"
    BY <1>5, ActorFacts DEF Count, Goto, TypeOK, ThreadsOK
  <2>2. /\ z \in Nat /\ b \in Nat /\ packet[s].last \in Nat /\ LeftOf(packet[s]) = z - packet[s].last
        /\ packet[s].own => packet[s].last = 0
        /\ ~ packet[s].own <=> packet[s] \in HeavyPackets
        /\ b = IF alert_mode_active[s] /\ ~ stopped THEN packet[s].last ELSE 0
    BY PacketIs DEF ScannedBefore
  <2>3. ~ stopped => b = packet[s].last
    <3>1. CASE packet[s].own
      BY <2>2, <3>1
    <3>2. CASE ~ packet[s].own
      <4>1. packet[s] \in HeavyPackets
        BY <2>2, <3>2
      <4>2. s < NumDedicated
        BY <4>1 DEF HandInv
      <4>3. alert_mode_active[s]
        BY <4>1, <4>2 DEF JInv, PassedInv
      <4> QED  BY <2>2, <4>3
    <3> QED  BY <3>1, <3>2
  <2>4. InHands[s] = IF packet[s].own THEN 0 ELSE z - packet[s].last
    <3>1. NotCounted(s) <=> ~ packet[s].own
      BY <1>1 DEF NotCounted
    <3> QED  BY <2>2, <3>1, HoldsNat DEF HandsNat
  <2>5. InHands'[s] = 0
    <3>1. ~ NotCounted(s)'
      BY <2>1 DEF NotCounted
    <3> QED  BY <3>1, HoldsNatNext DEF HandsNat
  <2>6. Held' = Held + InHands'[s] - InHands[s]
    BY <1>1, OthersHold, HeldChanges
  <2>7. Total(bytes_scanned)' = Total(bytes_scanned) + (z - b)
    BY <2>1, <2>2, TotalChanges
  <2>8. Queued' = Queued
    BY <1>1 DEF Queued, InQueue
  <2>9. Held \in Nat /\ Held' \in Nat /\ Queued \in Nat /\ Total(bytes_scanned) \in Int /\ begun \in Int
    BY HoldsNat, HoldsNatNext, QueuedNat, TotalInt DEF HandsNat, QueueNat, JInv, HistoryOK
  <2>10. HistoryOK'
    <3>1. o \in Nat
      BY <2>2
    <3> HIDE DEF b, o
    <3>2. begun' \in Int
      BY <2>1, <2>9, <3>1
    <3>3. skipped' \in [Scanners -> Int]
      BY <2>1, <2>2 DEF Plus, JInv, HistoryOK
    <3> QED  BY <1>1, <3>2, <3>3 DEF JInv, HistoryOK
  <2> DEFINE i == InHands[s]
             l == packet[s].last
             all == Total(bytes_scanned) + Queued + Held
             aft == Total(bytes_scanned)' + Queued' + Held'
  <2>11. /\ ~ packet[s].own => i = z - l
         /\ packet[s].own => i = 0 /\ l = 0
         /\ i \in Nat /\ o \in Nat
         /\ packet[s].own => o = z
         /\ ~ packet[s].own => o = 0
    BY <2>2, <2>4, HoldsNat DEF HandsNat
  <2>12. aft = all + (z - b) - i
    BY <2>2, <2>5, <2>6, <2>7, <2>8, <2>9, <2>11
  <2>13. all \in Int /\ begun \in Int
    BY <2>9
  <2> HIDE DEF z, b, o, i, l, all, aft
  <2>14. (z - b) - i = (l - b) + o
    BY <2>2, <2>11 DEF l
  <2>15. b = l \/ b = 0
    BY <2>2 DEF l
  <2>16. l \in Nat /\ (~ stopped => b = l)
    BY <2>2, <2>3 DEF l
  <2>17. IF stopped THEN aft >= begun + o ELSE aft = begun + o
    <3>1. IF stopped THEN all >= begun ELSE all = begun
      BY DEF JInv, CountInv, all
    <3>2. aft = all + (l - b) + o
      BY <2>2, <2>11, <2>12, <2>13, <2>14, <2>16
    <3> QED  BY <2>2, <2>11, <2>13, <2>15, <2>16, <3>1, <3>2
  <2>18. CountInv'
    BY <1>1, <2>1, <2>17 DEF CountInv, aft
  <2> QED  BY <1>2, <1>3, <2>10, <2>18 DEF JInv
<1> QED  BY <1>4, <1>5

(* A scan ends, or the packet is passed on and what is left of it is taken *)
(* back from the counter.                                                  *)
LEMMA ScanCounts ==
  ASSUME IInv, IInv', JInv, NEW s \in Scanners, Scan(s)
  PROVE  JInv'
<1> USE DEF IInv
<1>1. /\ pc[s] = "scan" /\ OthersKept(s) /\ ManagerKept /\ packet'[s] = NoPacket
      /\ UNCHANGED <<results, modes, stopped, begun, skipped>>
  BY ActorFacts DEF Scan, Finish, PassOn, Steal, EventOnce, Goto, OthersKept, ManagerKept, TypeOK, ThreadsOK,
     PacketsOK, timerVars, stopping, history
<1>2. SwitchInv' /\ HistoryOK'
  BY <1>1, SwitchKept DEF JInv, ManagerKept, HistoryOK
<1>3. packet'[s] \notin HeavyPackets
  BY <1>1, PacketFacts
<1>4. LooseInv'
  BY <1>1, <1>3, OthersHold DEF JInv, LooseInv, OthersKept
<1>5. InHands[s] = 0 /\ InHands'[s] = 0
  <2>1. ~ NotCounted(s)
    BY <1>1 DEF NotCounted
  <2> QED  BY <1>3, <2>1, HoldsNat, HoldsNatNext DEF HandsNat
<1>6. CASE Finish(s)
  <2>1. UNCHANGED <<bytes_scanned, heavy>>
    BY <1>6 DEF Finish, counts
  <2>2. CountInv'
    BY <1>1, <1>5, <2>1, CountKept
  <2>3. PassedInv'
    BY <1>1, <1>3, <2>1 DEF JInv, PassedInv, OthersKept, modes
  <2> QED  BY <1>2, <1>4, <2>2, <2>3 DEF JInv
<1>7. CASE PassOn(s)
  <2>1. PICK last \in 0 .. packet[s].size - 1 :
          /\ TakeBack(s, packet[s].size - last)
          /\ heavy' = Append(heavy, [size |-> packet[s].size, last |-> last, own |-> FALSE])
    BY <1>7 DEF PassOn
  <2> DEFINE p == [size |-> packet[s].size, last |-> last, own |-> FALSE]
             n == packet[s].size - last
  <2>2. packet[s] \in OwnPackets \union HeavyPackets
    BY <1>1 DEF HandInv, Heading, TypeOK, PacketsOK
  <2>3. packet[s].size \in Sizes /\ packet[s].size \in Nat \ {0} /\ last \in Nat /\ last < packet[s].size
    BY <2>2, PacketFacts
  <2>4. p \in HeavyPackets /\ n \in Nat /\ LeftOf(p) = n
    BY <2>3 DEF HeavyPackets, LeftOf
  <2>5. heavy' = Append(heavy, p) /\ bytes_scanned' = Plus(bytes_scanned, s, - n)
    BY <2>1 DEF TakeBack
  <2> HIDE DEF p, n
  <2>6. Queued' = Queued + n
    BY <2>4, <2>5, QueuedGrows
  <2>7. - n \in Int
    BY <2>4
  <2>8. Total(bytes_scanned)' = Total(bytes_scanned) + (- n)
    BY <2>5, <2>7, TotalChanges
  <2>9. Held' = Held
    <3>1. Held' = Held + InHands'[s] - InHands[s] /\ Held \in Nat
      BY <1>1, OthersHold, HeldChanges, HoldsNat DEF HandsNat
    <3> QED  BY <1>5, <3>1
  <2>10. Held \in Nat /\ Queued \in Nat /\ Total(bytes_scanned) \in Int /\ begun \in Int
    BY HoldsNat, QueuedNat, TotalInt DEF HandsNat, QueueNat, JInv, HistoryOK
  <2>11. Total(bytes_scanned)' + Queued' + Held' = Total(bytes_scanned) + Queued + Held
    BY <2>4, <2>6, <2>8, <2>9, <2>10
  <2>12. CountInv'
    BY <1>1, <2>11 DEF JInv, CountInv
  <2>13. PassedInv'
    <3>1. isTableMachine[s] /\ alert_mode_active[s]
      BY <1>7 DEF PassOn
    <3>2. ~ (s < NumDedicated)
      BY <3>1 DEF JInv, SwitchInv
    <3>3. s \in Nat /\ NumDedicated \in Nat /\ \A r \in Scanners : r \in Nat
      BY ActorFacts, ThroughputAssumption, TimerAssumption
    <3>4. ASSUME NEW r \in Scanners, r < NumDedicated PROVE alert_mode_active[r]
      <4>1. r \in 0 .. s - 1
        BY <3>2, <3>3, <3>4
      <4> QED  BY <3>1, <4>1 DEF JInv, SwitchInv
    <3> QED  BY <1>1, <3>4 DEF PassedInv, modes
  <2> QED  BY <1>2, <1>4, <2>12, <2>13 DEF JInv
<1> QED  BY <1>6, <1>7 DEF Scan

(* A step that moves no packet and counts none.                            *)
LEMMA QuietCounts ==
  ASSUME IInv, IInv', JInv, UNCHANGED <<packet, heavy, bytes_scanned, begun>>,
         stopped' = stopped \/ stopped' = TRUE,
         \A s \in Scanners : packet[s] \in HeavyPackets =>
           (NotCounted(s)' <=> NotCounted(s)) /\ (pc[s] = "scan" => pc'[s] = "scan")
  PROVE  LooseInv' /\ CountInv'
<1> USE DEF IInv
<1>1. LooseInv'
  BY DEF JInv, LooseInv
<1>2. \A s \in Scanners : InHands'[s] = InHands[s]
  <2>1. ASSUME NEW s \in Scanners PROVE InHands'[s] = InHands[s]
    <3>1. CASE packet[s] \in HeavyPackets
      BY <3>1 DEF InHands
    <3>2. CASE packet[s] \notin HeavyPackets
      BY <3>2, HoldsNat, HoldsNatNext DEF HandsNat
    <3> QED  BY <3>1, <3>2
  <2> QED  BY <2>1
<1>3. Held' = Held
  BY <1>2, FiniteScanners, SumSame DEF Held, Total
<1>4. Queued' = Queued /\ Total(bytes_scanned)' = Total(bytes_scanned)
  BY DEF Queued, InQueue, Total
<1>5. Held \in Nat /\ Queued \in Nat /\ Total(bytes_scanned) \in Int /\ begun \in Int
  BY HoldsNat, QueuedNat, TotalInt DEF HandsNat, QueueNat, JInv, HistoryOK
<1>6. CountInv'
  <2> DEFINE all == Total(bytes_scanned) + Queued + Held
             aft == Total(bytes_scanned)' + Queued' + Held'
  <2>1. aft = all /\ all \in Int
    BY <1>3, <1>4, <1>5
  <2> HIDE DEF all, aft
  <2>2. IF stopped' THEN aft >= begun' ELSE aft = begun'
    <3>1. IF stopped THEN all >= begun ELSE all = begun
      BY DEF JInv, CountInv, all
    <3>2. begun' = begun
      OBVIOUS
    <3>3. all = begun => all >= begun
      BY <1>5, <2>1
    <3> QED  BY <2>1, <3>1, <3>2, <3>3
  <2> QED  BY <2>2 DEF CountInv, aft
<1> QED  BY <1>1, <1>6

LEMMA ReportCounts ==
  ASSUME IInv, IInv', JInv, NEW s \in Scanners, Report(s)
  PROVE  JInv'
<1> USE DEF IInv
<1>1. /\ pc[s] = "report" /\ OthersKept(s) /\ ManagerKept
      /\ UNCHANGED <<packet, heavy, bytes_scanned, results, modes, stopped, begun, skipped>>
  BY ActorFacts DEF Report, Goto, OthersKept, ManagerKept, TypeOK, ThreadsOK, packets, timerVars, stopping,
     history, global_timer_set
<1>2. SwitchInv' /\ HistoryOK' /\ PassedInv'
  BY <1>1, SwitchKept DEF JInv, ManagerKept, HistoryOK, PassedInv, modes
<1>3. packet[s] \notin HeavyPackets
  BY <1>1 DEF JInv, LooseInv, NotCounted
<1>4. LooseInv' /\ CountInv'
  BY <1>1, <1>3, OthersHold, QuietCounts DEF OthersKept
<1> QED  BY <1>2, <1>4 DEF JInv

LEMMA StillCounts ==
  ASSUME IInv, IInv', JInv, MainStep \/ Timer
  PROVE  JInv'
<1> USE DEF IInv
<1>1. UNCHANGED <<threads, packets, modes, counts, begun, skipped>> /\ (stopped' = stopped \/ stopped' = TRUE)
  BY DEF MainStep, StartTimer, EndTimer, StopManager, JoinBoth, GetResults, mainOnly, Timer, history
<1>2. SwitchInv' /\ PassedInv'
  BY <1>1 DEF JInv, SwitchInv, PassedInv, NextToSwitch, threads, packets, modes
<1>3. LooseInv' /\ CountInv'
  BY <1>1, QuietCounts DEF threads, packets, counts, NotCounted
<1>4. results' \in [Scanners -> Seq(Int)]
  <2>1. CASE GetResults
    <3>1. \A s \in Scanners : SubSeq(lists[s], 1, intervals) \in Seq(Int)
      <4> TAKE s \in Scanners
      <4>1. lists[s] \in Seq(Int) /\ Len(lists[s]) \in Nat /\ intervals \in Nat
        BY LenProperties DEF TypeOK, TimerOK
      <4>2. intervals <= Len(lists[s])
        BY <2>1, <4>1 DEF GetResults, global_timer_get_results, RatesMissing
      <4>3. \A i \in 1 .. intervals : lists[s][i] \in Int
        BY <4>1, <4>2, ElementOfSeq
      <4> QED  BY <4>1, <4>3, SubSeqProperties
    <3> QED  BY <2>1, <3>1 DEF GetResults, global_timer_get_results
  <2>2. CASE ~ GetResults
    <3>1. results' = results
      BY <2>2 DEF MainStep, StartTimer, EndTimer, StopManager, JoinBoth, timerVars, Timer, TimerStep,
         global_timer_start, global_timer_end, TestStopped, Sleep, Collect, Keep, CountInterval
    <3> QED  BY <3>1 DEF JInv, HistoryOK
  <2> QED  BY <2>1, <2>2
<1> QED  BY <1>1, <1>2, <1>3, <1>4 DEF JInv, HistoryOK

(* An event is logged: its thread goes where it was heading.               *)
LEMMA EventCounts ==
  ASSUME IInv, IInv', JInv, NEW a \in Actors, EventStep(a)
  PROVE  JInv'
<1> USE DEF IInv
<1>1. UNCHANGED <<packet, heavy, bytes_scanned, results, modes, stopped, begun, skipped>>
  BY DEF EventStep, LogEvent, Store, packets, counts, history, timerVars, stopping
<1>2. /\ \A b \in Actors \ {a} : pc'[b] = pc[b] /\ after'[b] = after[b]
      /\ \/ pc[a] = "event" /\ pc'[a] = "store" /\ after'[a] = after[a]
         \/ pc[a] = "store" /\ pc'[a] = after[a] /\ after'[a] = "loop"
  BY ActorFacts DEF EventStep, LogEvent, Store, TypeOK, ThreadsOK
<1>3. SwitchInv'
  <2>1. after[Manager] # "switch_mode"
    BY DEF JInv, SwitchInv
  <2>2. /\ pc'[Manager] = pc[Manager] \/ pc'[Manager] # "switch_mode"
        /\ after'[Manager] = after[Manager] \/ after'[Manager] # "switch_mode"
    BY <1>2, <2>1, ActorFacts
  <2> QED  BY <1>1, <2>2, SwitchKept DEF JInv
<1>4. HistoryOK' /\ PassedInv'
  BY <1>1 DEF JInv, HistoryOK, PassedInv, modes
<1>5. ASSUME NEW s \in Scanners, packet[s] \in HeavyPackets
      PROVE  (NotCounted(s)' <=> NotCounted(s)) /\ (pc[s] = "scan" => pc'[s] = "scan")
  <2>1. CASE s # a
    BY <1>1, <1>2, <2>1, ActorFacts DEF NotCounted
  <2>2. CASE s = a
    <3>1. NotCounted(s) \/ pc[s] = "scan"
      BY <1>5 DEF JInv, LooseInv
    <3>2. NotCounted(s)
      BY <1>2, <2>2, <3>1
    <3>3. after[s] = "count"
      BY <1>2, <2>2, <3>2 DEF NotCounted
    <3>4. NotCounted(s)'
      BY <1>1, <1>2, <2>2, <3>2, <3>3 DEF NotCounted
    <3> QED  BY <1>2, <2>2, <3>2, <3>4
  <2> QED  BY <2>1, <2>2
<1>6. LooseInv' /\ CountInv'
  BY <1>1, <1>5, QuietCounts
<1> QED  BY <1>3, <1>4, <1>6 DEF JInv

(* The manager moves no packets. It switches a scanner's type, and then    *)
(* its mode, before it turns to the next.                                  *)
LEMMA ManagerCounts ==
  ASSUME IInv, IInv', JInv, Alert \/ ManagerStep
  PROVE  JInv'
<1> USE DEF IInv
<1>1. /\ UNCHANGED <<packet, heavy, bytes_scanned, results, begun, skipped>>
      /\ stopped' = stopped \/ stopped' = TRUE
  BY DEF Alert, ManagerStep, EndWatch, SwitchType, SwitchMode, RegularsDone, InputsEmpty, Stop,
     StopScanners, managerOthers, packets, counts, history, timerVars, stopping
<1>2. \A s \in Scanners : pc'[s] = pc[s] /\ after'[s] = after[s]
  BY ActorFacts DEF Alert, ManagerStep, EndWatch, SwitchType, SwitchMode, RegularsDone, InputsEmpty,
     Stop, StopScanners, Goto, EventThen, TypeOK, ThreadsOK
<1>3. HistoryOK' /\ LooseInv' /\ CountInv'
  <2>1. \A s \in Scanners : NotCounted(s)' <=> NotCounted(s)
    BY <1>1, <1>2 DEF NotCounted
  <2> QED  BY <1>1, <1>2, <2>1, QuietCounts DEF JInv, HistoryOK
<1>4. CASE SwitchType
  <2>1. PICK s \in Scanners : /\ NextToSwitch(s)
                              /\ isTableMachine' = [isTableMachine EXCEPT ![s] = s >= NumDedicated]
    BY <1>4 DEF SwitchType
  <2>2. alert_mode_active' = alert_mode_active /\ after' = after
    BY <1>4 DEF SwitchType, Goto
  <2>3. \A r \in Scanners : NextToSwitch(r)' <=> NextToSwitch(r)
    BY <2>2 DEF NextToSwitch
  <2>4. \A r \in Scanners : NextToSwitch(r) => r = s
    BY <2>1, ActorFacts DEF NextToSwitch
  <2>5. s < NumDedicated => ~ isTableMachine'[s]
    <3>1. isTableMachine'[s] = (s >= NumDedicated)
      BY <2>1 DEF TypeOK, ModesOK
    <3>2. s \in Nat /\ NumDedicated \in Nat
      BY ActorFacts, ThroughputAssumption, TimerAssumption
    <3>3. s < NumDedicated => ~ (s >= NumDedicated)
      BY <3>2
    <3> QED  BY <3>1, <3>3, Zenon
  <2>6. \A r \in Scanners : alert_mode_active[r] => isTableMachine'[r] = isTableMachine[r]
    BY <2>1 DEF NextToSwitch, TypeOK, ModesOK
  <2>7. SwitchInv'
    BY <2>2, <2>3, <2>4, <2>5, <2>6 DEF JInv, SwitchInv
  <2>8. PassedInv'
    BY <1>1, <2>2 DEF JInv, PassedInv
  <2> QED  BY <1>3, <2>7, <2>8 DEF JInv
<1>5. CASE SwitchMode
  <2>1. PICK s \in Scanners : /\ NextToSwitch(s)
                              /\ alert_mode_active' = [alert_mode_active EXCEPT ![s] = TRUE]
    BY <1>5 DEF SwitchMode
  <2>2. isTableMachine' = isTableMachine /\ after' = after /\ pc[Manager] = "switch_mode"
    BY <1>5 DEF SwitchMode, Goto
  <2>3. pc'[Manager] # "switch_mode"
    BY <1>5, ActorFacts DEF SwitchMode, Goto, TypeOK, ThreadsOK
  <2>4. \A r \in Scanners : alert_mode_active'[r] = (alert_mode_active[r] \/ r = s)
    BY <2>1 DEF TypeOK, ModesOK
  <2>5. s < NumDedicated => ~ isTableMachine[s]
    BY <2>1, <2>2 DEF JInv, SwitchInv
  <2>6. \A t \in 0 .. s - 1 : alert_mode_active[t] /\ t \in Scanners
    BY <2>1, TimerAssumption DEF NextToSwitch, Scanners
  <2>7. ASSUME NEW r \in Scanners, alert_mode_active'[r], NEW t \in 0 .. r - 1
        PROVE  alert_mode_active'[t]
    <3>1. t \in Scanners
      BY TimerAssumption DEF Scanners
    <3>2. alert_mode_active[t]
      BY <2>4, <2>6, <2>7 DEF JInv, SwitchInv
    <3> QED  BY <2>4, <3>1, <3>2
  <2>8. SwitchInv'
    BY <2>2, <2>3, <2>4, <2>5, <2>7 DEF JInv, SwitchInv
  <2>9. PassedInv'
    BY <1>1, <2>4 DEF JInv, PassedInv
  <2> QED  BY <1>3, <2>8, <2>9 DEF JInv
<1>6. CASE ~ SwitchType /\ ~ SwitchMode
  <2>1. UNCHANGED modes
    BY <1>6 DEF Alert, ManagerStep, EndWatch, RegularsDone, InputsEmpty, Stop, StopScanners
  <2>2. /\ pc'[Manager] # "switch_mode"
        /\ after'[Manager] = after[Manager] \/ after'[Manager] # "switch_mode"
    BY <1>6, ActorFacts DEF Alert, ManagerStep, EndWatch, RegularsDone, InputsEmpty, Stop,
       StopScanners, Goto, EventThen, TypeOK, ThreadsOK
  <2>3. SwitchInv'
    BY <2>1, <2>2, SwitchKept DEF JInv
  <2>4. PassedInv'
    BY <1>1, <2>1 DEF JInv, PassedInv, modes
  <2> QED  BY <1>3, <2>3, <2>4 DEF JInv
<1> QED  BY <1>4, <1>5, <1>6

LEMMA InitJInv == Init => JInv
<1> SUFFICES ASSUME Init PROVE JInv
  OBVIOUS
<1>0. IInv
  BY InitIInv
<1>1. \A s \in Scanners : packet[s] = NoPacket /\ packet[s] \notin HeavyPackets
  BY PacketFacts DEF Init
<1>2. HistoryOK /\ PassedInv /\ LooseInv
  BY <1>1 DEF Init, TimerInit, None, NoResult, HistoryOK, PassedInv, LooseInv
<1>3. SwitchInv
  BY ActorFacts DEF Init, SwitchInv
<1>4. CountInv
  <2>1. Held = 0
    <3>1. \A s \in Scanners : InHands[s] = 0
      BY <1>0, <1>1, HoldsNat DEF IInv, HandsNat
    <3> QED  BY <3>1, FiniteScanners, SumZero DEF Held, Total
  <2>2. Queued = 0
    <3>1. DOMAIN heavy = {}
      BY DEF Init
    <3> QED  BY <3>1, SumEmpty DEF Queued
  <2>3. Total(bytes_scanned) = 0
    BY FiniteScanners, SumZero DEF Init, None, Total
  <2> QED  BY <2>1, <2>2, <2>3 DEF Init, CountInv
<1> QED  BY <1>2, <1>3, <1>4 DEF JInv

LEMMA NextJInv == IInv /\ IInv' /\ JInv /\ [Next]_vars => JInv'
<1> SUFFICES ASSUME IInv, IInv', JInv, [Next]_vars PROVE JInv'
  OBVIOUS
<1>1. ASSUME NEW s \in Scanners, ScannerStep(s) PROVE JInv'
  BY <1>1, TakeCounts, CountCounts, ScanCounts, ReportCounts DEF ScannerStep
<1>2. CASE UNCHANGED vars
  <2>1. UNCHANGED <<timerVars, threads, packets, modes, stopping, counts, main, history>>
    BY <1>2 DEF vars
  <2> QED
    BY <2>1 DEF JInv, HistoryOK, SwitchInv, PassedInv, LooseInv, CountInv, NextToSwitch, NotCounted,
       Total, Queued, Held, InQueue, InHands, timerVars, threads, packets, modes, stopping, counts, history
<1> QED  BY <1>1, <1>2, EventCounts, ManagerCounts, StillCounts DEF Next

LEMMA AlwaysJInv == Spec => []JInv
<1>1. Spec => []IInv
  BY AlwaysIInv
<1>2. IInv /\ IInv' /\ JInv /\ [Next]_vars => JInv'
  BY NextJInv
<1> QED  BY <1>1, <1>2, InitJInv, PTL DEF Spec

(* A byte is counted by one scanner, however its packet is passed on: the  *)
(* counters add up to what was taken from the lists less what waits to be  *)
(* scanned by a dedicated one (Scanner.c:335-346, 452-459).                *)
THEOREM EveryByteCounted == Spec => []EachByteCountedOnce
<1>1. IInv /\ JInv => EachByteCountedOnce
  <2> SUFFICES ASSUME IInv, JInv PROVE EachByteCountedOnce
    OBVIOUS
  <2>1. Held \in Nat /\ Queued \in Nat /\ Total(bytes_scanned) \in Int /\ begun \in Int
    BY HoldsNat, QueuedNat, TotalInt DEF IInv, HandsNat, QueueNat, JInv, HistoryOK
  <2>2. Waiting = Queued + Held
    BY DEF Waiting, Queued, Held
  <2>3. IF stopped THEN Total(bytes_scanned) + Queued + Held >= begun
                   ELSE Total(bytes_scanned) + Queued + Held = begun
    BY DEF JInv, CountInv
  <2> QED  BY <2>1, <2>2, <2>3 DEF EachByteCountedOnce
<1> QED  BY <1>1, AlwaysIInv, AlwaysJInv, PTL

-----------------------------------------------------------------------------
(* The time line has every byte.                                           *)
Handed(s) == IF tpc = "keep" /\ ti = s THEN bytes ELSE 0

TimeOf(s) ==
  SumFunction(lists[s]) + SumFunction(results[s]) + Handed(s)
    + bytes_processed[s] + bytes_scanned_recently[s] = bytes_scanned[s] + skipped[s]

(* The results are main's last step.                                       *)
TimeInv == (\A s \in Scanners : TimeOf(s)) /\ (main # "done" => results = NoResult)

(* What a list of rates adds up to.                                        *)
LEMMA RatesAddUp ==
  ASSUME NEW l \in Seq(Int)
  PROVE  /\ SumFunction(l) \in Int
         /\ \A n \in Int : SumFunction(Append(l, n)) = SumFunction(l) + n
         /\ SumFunction(<<>>) = 0
<1> DEFINE m == Len(l)
<1>1. m \in Nat /\ DOMAIN l = 1 .. m /\ \A i \in 1 .. m : l[i] \in Int
  BY LenProperties, ElementOfSeq
<1>2. IsFiniteSet(1 .. m) /\ SumFunctionOnSet(l, 1 .. m) \in Int
  BY <1>1, FS_Interval, SumType
<1>3. ASSUME NEW n \in Int
      PROVE  SumFunction(Append(l, n)) = SumFunction(l) + n
  <2> DEFINE k == Append(l, n)
  <2>1. k \in Seq(Int) /\ Len(k) = m + 1 /\ k[m + 1] = n /\ \A i \in 1 .. m : k[i] = l[i]
    BY AppendProperties
  <2>2. DOMAIN k = 1 .. m + 1
    BY <2>1, LenProperties
  <2> HIDE DEF m, k
  <2>3. \A i \in 1 .. m + 1 : k[i] \in Int
    BY <1>1, <2>1
  <2>4. SumFunctionOnSet(k, 1 .. m + 1) = SumFunctionOnSet(k, 1 .. m) + k[m + 1]
    BY <1>1, <2>3, SumLast
  <2>5. SumFunctionOnSet(k, 1 .. m) = SumFunctionOnSet(l, 1 .. m)
    BY <1>2, <2>1, SumSame
  <2> QED  BY <1>1, <2>1, <2>2, <2>4, <2>5 DEF SumFunction, k
<1>4. SumFunction(<<>>) = 0
  BY SumEmpty DEF SumFunction
<1> QED  BY <1>1, <1>2, <1>3, <1>4 DEF SumFunction

(* The terms of TimeOf are numbers.                                        *)
LEMMA TimeTypes ==
  ASSUME IInv, JInv, NEW s \in Scanners
  PROVE  /\ SumFunction(lists[s]) \in Int /\ SumFunction(results[s]) \in Int /\ Handed(s) \in Int
         /\ bytes_processed[s] \in Int /\ bytes_scanned_recently[s] \in Int
         /\ bytes_scanned[s] \in Int /\ skipped[s] \in Int
<1>1. lists[s] \in Seq(Int) /\ results[s] \in Seq(Int)
  BY DEF IInv, TypeOK, TimerOK, JInv, HistoryOK
<1>2. SumFunction(lists[s]) \in Int /\ SumFunction(results[s]) \in Int
  BY <1>1, RatesAddUp
<1> QED  BY <1>2 DEF IInv, TypeOK, TimerOK, CountsOK, JInv, HistoryOK, Handed

(* A step that touches none of it.                                         *)
LEMMA TimeKept ==
  ASSUME TimeInv, UNCHANGED <<timerVars, main>>,
         UNCHANGED <<bytes_scanned, bytes_scanned_recently, skipped>>
  PROVE  TimeInv'
BY DEF TimeInv, TimeOf, Handed, timerVars

(* A scanner counts, or takes back, as many bytes recently as in all.      *)
LEMMA TimeMoves ==
  ASSUME IInv, JInv, TimeInv, NEW s \in Scanners, NEW n \in Int, NEW b \in Int,
         UNCHANGED <<timerVars, main>>,
         bytes_scanned' = Plus(bytes_scanned, s, n - b),
         bytes_scanned_recently' = Plus(bytes_scanned_recently, s, n),
         skipped' = Plus(skipped, s, b)
  PROVE  TimeInv'
<1>1. ASSUME NEW r \in Scanners PROVE TimeOf(r)'
  <2> DEFINE x == SumFunction(lists[r]) + SumFunction(results[r]) + Handed(r) + bytes_processed[r]
  <2>1. x' = x /\ x \in Int
    BY TimeTypes DEF timerVars, Handed
  <2>2. /\ bytes_scanned_recently[r] \in Int /\ bytes_scanned[r] \in Int /\ skipped[r] \in Int
        /\ x + bytes_scanned_recently[r] = bytes_scanned[r] + skipped[r]
    BY TimeTypes DEF TimeInv, TimeOf
  <2>3. CASE r = s
    <3>1. /\ bytes_scanned'[r] = bytes_scanned[r] + (n - b)
          /\ bytes_scanned_recently'[r] = bytes_scanned_recently[r] + n
          /\ skipped'[r] = skipped[r] + b
      BY <2>3 DEF Plus, IInv, TypeOK, TimerOK, CountsOK, JInv, HistoryOK
    <3> HIDE DEF x
    <3>2. x + (bytes_scanned_recently[r] + n) = (bytes_scanned[r] + (n - b)) + (skipped[r] + b)
      <4> DEFINE w == bytes_scanned_recently[r]
                 y == bytes_scanned[r]
                 k == skipped[r]
      <4>1. x \in Int /\ w \in Int /\ y \in Int /\ k \in Int /\ n \in Int /\ b \in Int /\ x + w = y + k
        BY <2>1, <2>2
      <4> HIDE DEF w, y, k
      <4>2. x + (w + n) = (y + (n - b)) + (k + b)
        BY <4>1
      <4> QED  BY <4>2 DEF w, y, k
    <3>3. x' + bytes_scanned_recently'[r] = bytes_scanned'[r] + skipped'[r]
      BY <2>1, <3>1, <3>2, Zenon
    <3> QED  BY <3>3 DEF TimeOf, x
  <2>4. CASE r # s
    <3>1. /\ bytes_scanned'[r] = bytes_scanned[r] /\ skipped'[r] = skipped[r]
          /\ bytes_scanned_recently'[r] = bytes_scanned_recently[r]
      BY <2>4 DEF Plus, IInv, TypeOK, TimerOK, CountsOK, JInv, HistoryOK
    <3> HIDE DEF x
    <3>2. x' + bytes_scanned_recently'[r] = bytes_scanned'[r] + skipped'[r]
      BY <2>1, <2>2, <3>1
    <3> QED  BY <3>2 DEF TimeOf, x
  <2> QED  BY <2>3, <2>4
<1> QED  BY <1>1 DEF TimeInv, timerVars

LEMMA ScannerTime ==
  ASSUME IInv, JInv, TimeInv, NEW s \in Scanners, ScannerStep(s)
  PROVE  TimeInv'
<1> USE DEF IInv
<1>1. CASE Take(s)
  BY <1>1, TimeKept DEF Take, counts, history
<1>2. CASE Count(s)
  <2>1. UNCHANGED <<timerVars, main>>
    BY <1>2 DEF Count
  <2>2. CASE done[s]
    BY <1>2, <2>1, <2>2, TimeKept DEF Count, counts, history
  <2>3. CASE ~ done[s]
    <3>1. packet[s].size \in Int /\ ScannedBefore(s) \in Int
      BY PacketIs DEF ScannedBefore
    <3> QED  BY <1>2, <2>1, <2>3, <3>1, TimeMoves DEF Count
  <2> QED  BY <2>2, <2>3
<1>3. CASE Scan(s)
  <2>1. UNCHANGED <<timerVars, main, skipped>>
    BY <1>3 DEF Scan, history
  <2>2. CASE Finish(s)
    BY <2>1, <2>2, TimeKept DEF Finish, counts
  <2>3. CASE PassOn(s)
    <3>1. PICK last \in 0 .. packet[s].size - 1 : TakeBack(s, packet[s].size - last)
      BY <2>3 DEF PassOn
    <3> DEFINE n == packet[s].size - last
    <3>2. n \in Int /\ - n \in Int /\ - n = - n - 0
      BY PacketIs
    <3> HIDE DEF n
    <3>3. /\ bytes_scanned' = Plus(bytes_scanned, s, - n)
          /\ bytes_scanned_recently' = Plus(bytes_scanned_recently, s, - n)
      BY <3>1 DEF TakeBack, n
    <3>4. skipped' = Plus(skipped, s, 0)
      BY <2>1 DEF Plus, JInv, HistoryOK
    <3>5. bytes_scanned' = Plus(bytes_scanned, s, - n - 0)
      BY <3>2, <3>3
    <3>6. UNCHANGED <<timerVars, main>> /\ 0 \in Int
      BY <2>1
    <3> QED  BY <3>2, <3>3, <3>4, <3>5, <3>6, TimeMoves
  <2> QED  BY <1>3, <2>2, <2>3 DEF Scan
<1>4. CASE Report(s)
  <2>1. /\ UNCHANGED <<lists, intervals, tpc, ti, bytes, results, main, bytes_scanned, skipped>>
        /\ \/ UNCHANGED <<bytes_processed, bytes_scanned_recently>>
           \/ /\ bytes_processed' = [bytes_processed EXCEPT ![s] = @ + bytes_scanned_recently[s]]
              /\ bytes_scanned_recently' = [bytes_scanned_recently EXCEPT ![s] = 0]
    BY <1>4 DEF Report, global_timer_set, timerVars, history
  <2>2. ASSUME NEW r \in Scanners PROVE TimeOf(r)'
    <3> DEFINE x == SumFunction(lists[r]) + SumFunction(results[r]) + Handed(r)
               y == bytes_scanned[r] + skipped[r]
    <3>1. x' = x /\ y' = y /\ x \in Int /\ y \in Int
      BY <2>1, TimeTypes DEF Handed
    <3>2. /\ bytes_processed[r] \in Int /\ bytes_scanned_recently[r] \in Int
          /\ x + bytes_processed[r] + bytes_scanned_recently[r] = y
      BY TimeTypes DEF TimeInv, TimeOf
    <3>3. \/ /\ bytes_processed'[r] = bytes_processed[r]
             /\ bytes_scanned_recently'[r] = bytes_scanned_recently[r]
          \/ /\ bytes_processed'[r] = bytes_processed[r] + bytes_scanned_recently[r]
             /\ bytes_scanned_recently'[r] = 0
      BY <2>1 DEF TypeOK, TimerOK
    <3> HIDE DEF x, y
    <3>4. x' + bytes_processed'[r] + bytes_scanned_recently'[r] = y'
      BY <3>1, <3>2, <3>3
    <3> QED  BY <3>4 DEF TimeOf, x, y
  <2> QED  BY <2>1, <2>2 DEF TimeInv
<1> QED  BY <1>1, <1>2, <1>3, <1>4 DEF ScannerStep

(* The timer takes a counter in hand, and keeps what it has taken.         *)
LEMMA TimerTime ==
  ASSUME IInv, JInv, TimeInv, Timer
  PROVE  TimeInv'
<1> USE DEF IInv
<1>1. UNCHANGED <<bytes_scanned, bytes_scanned_recently, skipped, main>>
  BY DEF Timer, mainOnly, counts, history
<1>2. results' = results
  BY DEF Timer, TimerStep, TestStopped, Sleep, Collect, Keep, CountInterval
<1>3. SUFFICES ASSUME NEW r \in Scanners PROVE TimeOf(r)'
  BY <1>1, <1>2 DEF TimeInv
<1> DEFINE z == SumFunction(results[r])
           y == bytes_scanned[r] + skipped[r]
           w == bytes_scanned_recently[r]
           l == SumFunction(lists[r])
           p == bytes_processed[r]
           h == Handed(r)
<1>4. z' = z /\ y' = y /\ w' = w
  BY <1>1, <1>2
<1>5. /\ z \in Int /\ y \in Int /\ w \in Int /\ l \in Int /\ p \in Int /\ h \in Int
      /\ l + z + h + p + w = y
  BY TimeTypes DEF TimeInv, TimeOf
<1>6. SUFFICES l' + z' + h' + p' + w' = y'
  BY DEF TimeOf
<1>7. CASE TestStopped \/ Sleep \/ CountInterval
  <2>1. l' = l /\ p' = p /\ h' = h
    BY <1>7 DEF TestStopped, Sleep, CountInterval, Handed
  <2> QED  BY <1>4, <1>5, <2>1
<1>8. CASE Collect
  <2>1. ti \in Scanners /\ h = 0 /\ l' = l
    BY <1>8 DEF Collect, TimerInv, Handed
  <2>2. h' + p' = p
    <3>1. CASE r = ti
      <4>1. h' = p /\ p' = 0
        BY <1>8, <3>1 DEF Collect, Handed, TypeOK, TimerOK
      <4> QED  BY <1>5, <4>1
    <3>2. CASE r # ti
      <4>1. h' = 0 /\ p' = p
        BY <1>8, <3>2 DEF Collect, Handed, TypeOK, TimerOK
      <4> QED  BY <1>5, <4>1
    <3> QED  BY <3>1, <3>2
  <2>3. h' \in Int /\ p' \in Int
    BY <1>8, <2>1 DEF Collect, Handed, TypeOK, TimerOK
  <2> QED  BY <1>4, <1>5, <2>1, <2>2, <2>3
<1>9. CASE Keep
  <2>1. p' = p /\ h' = 0
    BY <1>9 DEF Keep, Handed
  <2>2. l' = l + h
    <3>1. CASE r = ti
      <4>1. lists'[r] = Append(lists[r], bytes) /\ lists[r] \in Seq(Int) /\ bytes \in Int
        BY <1>9, <3>1 DEF Keep, TypeOK, TimerOK
      <4>2. h = bytes
        BY <1>9, <3>1 DEF Keep, Handed
      <4> QED  BY <4>1, <4>2, RatesAddUp
    <3>2. CASE r # ti
      <4>1. lists'[r] = lists[r] /\ h = 0
        BY <1>9, <3>2 DEF Keep, Handed, TypeOK, TimerOK
      <4> QED  BY <1>5, <4>1
    <3> QED  BY <3>1, <3>2
  <2> QED  BY <1>4, <1>5, <2>1, <2>2
<1> QED  BY <1>7, <1>8, <1>9 DEF Timer, TimerStep

(* Main gets every rate of every list.                                     *)
LEMMA MainTime ==
  ASSUME IInv, JInv, TimeInv, MainStep
  PROVE  TimeInv'
<1> USE DEF IInv
<1>1. UNCHANGED <<bytes_scanned, bytes_scanned_recently, skipped>>
  BY DEF MainStep, StartTimer, EndTimer, StopManager, JoinBoth, GetResults, mainOnly, counts, history
<1>2. CASE GetResults
  <2>1. /\ main = "results" /\ main' = "done" /\ UNCHANGED <<bytes_processed, tpc, ti, bytes>>
        /\ results' = [s \in Scanners |-> SubSeq(lists[s], 1, intervals)]
        /\ lists' = [s \in Scanners |-> SubSeq(lists[s], intervals + 1, Len(lists[s]))]
    BY <1>2 DEF GetResults, global_timer_get_results
  <2>2. \A s \in Scanners : Len(lists[s]) = intervals /\ results[s] = <<>>
    BY <2>1 DEF TimerInv, Rates, TimeInv, NoResult
  <2>3. ASSUME NEW s \in Scanners PROVE TimeOf(s)'
    <3>1. lists[s] \in Seq(Int) /\ intervals \in Nat
      BY DEF TypeOK, TimerOK
    <3>2. lists'[s] = <<>>
      <4>1. lists'[s] = SubSeq(lists[s], intervals + 1, intervals)
        BY <2>1, <2>2
      <4> QED  BY <3>1, <4>1, SubSeqEmpty
    <3>3. results'[s] = lists[s]
      <4>1. results'[s] = SubSeq(lists[s], 1, Len(lists[s]))
        BY <2>1, <2>2
      <4> QED  BY <3>1, <4>1, SubSeqFull
    <3>4. SumFunction(lists'[s]) = 0 /\ SumFunction(results[s]) = 0
      BY <2>2, <3>1, <3>2, RatesAddUp
    <3>5. Handed(s)' = Handed(s)
      BY <2>1 DEF Handed
    <3> DEFINE x == SumFunction(lists[s])
    <3>6. /\ x \in Int /\ Handed(s) \in Int /\ bytes_processed[s] \in Int
          /\ bytes_scanned_recently[s] \in Int /\ bytes_scanned[s] \in Int /\ skipped[s] \in Int
          /\ x + 0 + Handed(s) + bytes_processed[s] + bytes_scanned_recently[s]
               = bytes_scanned[s] + skipped[s]
      BY <3>4, TimeTypes DEF TimeInv, TimeOf
    <3>7. SumFunction(results'[s]) = x
      BY <3>3
    <3> HIDE DEF x
    <3>8. SumFunction(lists'[s]) + SumFunction(results'[s]) + Handed(s)' + bytes_processed'[s]
            + bytes_scanned_recently'[s] = bytes_scanned'[s] + skipped'[s]
      BY <1>1, <2>1, <3>4, <3>5, <3>6, <3>7
    <3> QED  BY <3>8 DEF TimeOf
  <2> QED  BY <2>1, <2>3 DEF TimeInv
<1>3. CASE ~ GetResults
  <2>1. /\ UNCHANGED <<bytes_processed, lists, ti, bytes, results>> /\ main # "done"
        /\ tpc' = tpc \/ (tpc' = "test" /\ main = "start")
    BY <1>3 DEF MainStep, StartTimer, EndTimer, StopManager, JoinBoth, timerVars,
       global_timer_start, global_timer_end
  <2>2. (tpc' = "keep") = (tpc = "keep")
    BY <2>1 DEF TimerInv
  <2>3. \A s \in Scanners : Handed(s)' = Handed(s)
    BY <2>1, <2>2 DEF Handed
  <2>4. \A s \in Scanners : TimeOf(s)'
    BY <1>1, <2>1, <2>3 DEF TimeInv, TimeOf
  <2> QED  BY <2>1, <2>4 DEF TimeInv
<1> QED  BY <1>2, <1>3

LEMMA InitTimeInv == Init => TimeInv
<1> SUFFICES ASSUME Init PROVE TimeInv
  OBVIOUS
<1>1. \A s \in Scanners : lists[s] = <<>> /\ results[s] = <<>> /\ tpc = "off"
  BY DEF Init, TimerInit, NoResult
<1>2. SumFunction(<<>>) = 0
  BY SumEmpty DEF SumFunction
<1> QED  BY <1>1, <1>2 DEF TimeInv, TimeOf, Handed, Init, TimerInit, None

LEMMA NextTimeInv == IInv /\ JInv /\ TimeInv /\ [Next]_vars => TimeInv'
<1> SUFFICES ASSUME IInv, JInv, TimeInv, [Next]_vars PROVE TimeInv'
  OBVIOUS
<1>1. ASSUME NEW s \in Scanners, ScannerStep(s) PROVE TimeInv'
  BY <1>1, ScannerTime
<1>2. ASSUME NEW a \in Actors, EventStep(a) PROVE TimeInv'
  BY <1>2, TimeKept DEF EventStep, LogEvent, Store, counts, history
<1>3. CASE Alert \/ ManagerStep
  BY <1>3, TimeKept DEF Alert, ManagerStep, EndWatch, SwitchType, SwitchMode, RegularsDone,
     InputsEmpty, Stop, StopScanners, managerOthers, counts, history
<1>4. CASE UNCHANGED vars
  BY <1>4, TimeKept DEF vars, counts, history
<1> QED  BY <1>1, <1>2, <1>3, <1>4, MainTime, TimerTime DEF Next

(* The measurements are complete when main prints them: no byte that was   *)
(* scanned is missing from the time line, no rate from a list and no event *)
(* from the array (GlobalTimer.c:63-104, 146-160, 186-196).                *)
THEOREM AllMeasured == Spec => []MeasurementsComplete
<1>1. Spec => []IInv
  BY AlwaysIInv
<1>2. Spec => []JInv
  BY AlwaysJInv
<1>3. Spec => []TimeInv
  <2>1. IInv /\ JInv /\ TimeInv /\ [Next]_vars => TimeInv'
    BY NextTimeInv
  <2> QED  BY <1>1, <1>2, <2>1, InitTimeInv, PTL DEF Spec
<1>4. TimeInv => TimelineComplete
  BY DEF TimeInv, TimelineComplete, TimeOf, Handed
<1>5. TimelineComplete /\ RatesComplete /\ EventsKept => MeasurementsComplete
  BY DEF MeasurementsComplete
<1> QED  BY <1>3, <1>4, <1>5, AllRatesThere, AllEventsKept, PTL
=============================================================================
