----------------------------- MODULE TableMachine -----------------------------
(***************************************************************************)
(* The full-table machine: the table filled from the Aho-Corasick tree     *)
(* (putStates) and the scan of one packet with it, by the scanners that    *)
(* measure how heavy a packet is and may give it up (matchTableMachine)    *)
(* and by the scanners that do not (matchTableMachine_no_trasfer).         *)
(*                                                                         *)
(* The ids of the states matter only for current >= num_common: the module *)
(* keeps the set of the common states.  The reordering map puts the states *)
(* in the order of their visits, so that the root keeps the id 0.          *)
(***************************************************************************)
EXTENDS PacketScan

CONSTANTS
  Alphabet,
  NumCommon,              (* num_common                                    *)
  BytesBeforeChecking,    (* HEAVY_PACKET_RECOGNITION_BYTES_TO_READ_...    *)
  LimitNum, LimitDen      (* uncommon_rate_limit = LimitNum / LimitDen     *)

(* The alphabet and the packets are of bytes, and the table is made from a *)
(* tree built without moving failures away from the leaves.                *)
TableInputs ==
  /\ Alphabet \subseteq Character
  /\ Packets \subseteq Seq(Alphabet)
  /\ ~ AvoidFailToLeaves

VARIABLES
  common,                 (* the states with an id below num_common        *)
  table,                  (* the rows filled so far                        *)
  matches,                (* the bit array of the accepting states         *)
  transfer_heavy, current, uncommon, is_heavy, last_idx_in_root

tableMachine == <<common, table, matches>>
tableArgs    == <<packet, transfer_heavy, drop>>
tableLocals  == <<idx, current, res, uncommon, is_heavy, last_idx_in_root, rootVisits>>
tableVars == <<treeVars, tableMachine, tableArgs, tableLocals>>

TableInit ==
  /\ TreeInit
  /\ common = {} /\ table = <<>> /\ matches = {}
  /\ packet = <<>> /\ transfer_heavy = FALSE /\ drop = 0
  /\ idx = 0 /\ current = Root /\ res = 0
  /\ uncommon = 0 /\ is_heavy = FALSE /\ last_idx_in_root = 0 /\ rootVisits = 0

TableBuild == BuildTree /\ UNCHANGED <<tableMachine, tableArgs, tableLocals>>

(* reorderStatesForCommonOrdering, then an empty machine is created. *)
StartTable ==
  /\ phase = "built"
  /\ \E S \in SUBSET Nodes :
       /\ Root \in S
       /\ IF NumCommon >= Cardinality(Nodes) THEN S = Nodes ELSE Cardinality(S) = NumCommon
       /\ common' = S
  /\ phase' = "table" /\ queue' = <<Root>>
  /\ UNCHANGED <<file, count, tree, table, matches, tableArgs, tableLocals>>

(* Mutant: one failure only is looked at. *)
EntryOneFailure(n, c) == IF HasGoto(n, c) THEN Append(n, c) ELSE
                         IF HasGoto(failure[n], c) THEN Append(failure[n], c) ELSE Root

(* The entry of a row: the node's own goto, else that of the first node of *)
(* its failure chain that has one, else the root.                          *)
Entry(n, c) == IF HasGoto(n, c) THEN Append(n, c) ELSE Follow(failure[n], c)

(* putStates dequeues a node, sets its match and its row. *)
PutState ==
  /\ phase = "table" /\ queue # <<>>
  /\ LET n == Head(queue)
     IN /\ table' = [m \in DOMAIN table \cup {n} |->
                       IF m = n THEN [c \in Alphabet |-> Entry(n, c)] ELSE table[m]]
        /\ matches' = IF Match(n) THEN matches \cup {n} ELSE matches
        /\ queue' = Tail(queue) \o gotos[n]
  /\ UNCHANGED <<file, count, tree, phase, common, tableArgs, tableLocals>>

TableReady ==
  /\ phase = "table" /\ queue = <<>>
  /\ phase' = "ready"
  /\ UNCHANGED <<file, count, tree, queue, tableMachine, tableArgs, tableLocals>>

(* A call of one of the two scans. *)
StartTableScan ==
  /\ phase = "ready"
  /\ packet' \in Packets
  /\ \/ transfer_heavy' \in BOOLEAN /\ drop' = 0 /\ phase' = "scan"
     \/ transfer_heavy' = FALSE /\ drop' \in Drops /\ phase' = "plain_scan"
  /\ UNCHANGED <<file, count, tree, queue, tableMachine, tableLocals>>

(* The transition both scans make on the next byte of the packet. *)
NextByte ==
  /\ current' = table[current][packet[idx + 1]]
  /\ res' = IF current' \in matches THEN 1 ELSE res
  /\ idx' = idx + 1

(* The count of the uncommon states and the rate it is compared with. *)
Uncommon == IF current \in common THEN uncommon ELSE uncommon + 1
TooHeavy == /\ current \notin common
            /\ idx > BytesBeforeChecking
            /\ Uncommon * LimitDen > LimitNum * idx

(* Mutant: the depth is left out. *)
ResumeHere == idx

(* Where a scanner that takes the packet over begins: depthMap[current]    *)
(* bytes back.                                                             *)
ResumeIndex == idx - Len(current)

ScanByte ==
  /\ phase = "scan" /\ idx < Len(packet)
  /\ ~(TooHeavy /\ transfer_heavy)
  /\ NextByte
  /\ uncommon' = Uncommon
  /\ is_heavy' = (is_heavy \/ TooHeavy)
  /\ UNCHANGED <<treeVars, tableMachine, tableArgs, last_idx_in_root, rootVisits>>

(* The packet is too heavy: the scan returns -1 and the packet moves. *)
HandOver ==
  /\ phase = "scan" /\ idx < Len(packet)
  /\ TooHeavy /\ transfer_heavy
  /\ uncommon' = Uncommon
  /\ is_heavy' = TRUE
  /\ last_idx_in_root' = ResumeIndex
  /\ res' = -1
  /\ phase' = "handed_over"
  /\ UNCHANGED <<file, count, tree, queue, tableMachine, tableArgs, idx, current, rootVisits>>

(* The visits of the root that the second scan has counted at this byte. *)
RootVisits == IF current = Root THEN rootVisits + 1 ELSE rootVisits

PlainByte ==
  /\ phase = "plain_scan" /\ idx < Len(packet)
  /\ drop = 0 \/ RootVisits <= drop
  /\ NextByte
  /\ rootVisits' = RootVisits
  /\ UNCHANGED <<treeVars, tableMachine, tableArgs, uncommon, is_heavy, last_idx_in_root>>

DropPlainPacket ==
  /\ phase = "plain_scan" /\ idx < Len(packet)
  /\ current = Root /\ drop # 0 /\ RootVisits > drop
  /\ rootVisits' = RootVisits
  /\ res' = -1
  /\ phase' = "dropped"
  /\ UNCHANGED <<file, count, tree, queue, tableMachine, tableArgs, idx, current, uncommon,
                 is_heavy, last_idx_in_root>>

EndOfTableScan ==
  /\ phase \in {"scan", "plain_scan"} /\ idx = Len(packet)
  /\ phase' = "scanned"
  /\ UNCHANGED <<file, count, tree, queue, tableMachine, tableArgs, tableLocals>>

TableNext ==
  \/ TableBuild \/ StartTable \/ PutState \/ TableReady
  \/ StartTableScan \/ ScanByte \/ HandOver \/ PlainByte \/ DropPlainPacket \/ EndOfTableScan

TableSpec == TableInit /\ [][TableNext]_tableVars

-----------------------------------------------------------------------------
(* Properties *)

Accepting == {n \in Nodes : Match(n)}
BytesRead(k) == SubSeq(packet, 1, k)
ReadEndsWith(k, p) == k >= Len(p) /\ IsSuffix(p, BytesRead(k))

(* Whatever the packet and wherever the scan is in it, its state is the    *)
(* longest node the bytes read so far end with.                            *)
StateIsLongestSuffix ==
  phase \in {"scan", "plain_scan", "scanned", "handed_over", "dropped"} =>
    current = LongestSuffixIn(BytesRead(idx), Nodes)

(* No pattern is a suffix of a node that continues or ends another one. *)
NoInnerPattern == \A p \in Accepting : \A n \in Nodes : IsSuffix(p, n) => p = n

(* If no pattern occurs within another, a scan that reaches the end of the *)
(* packet has reported it exactly when it holds a pattern, however the     *)
(* occurrences overlap and whether or not heaviness was measured.          *)
ExactWhenNotNested ==
  phase = "scanned" /\ NoInnerPattern =>
    (res = 1 <=> \E k \in 1 .. Len(packet) : \E p \in Accepting : ReadEndsWith(k, p))

(* matchTableMachine: the scanner that takes a heavy packet over at        *)
(* last_idx_in_root, from the root, comes to the same state at the byte    *)
(* where the first one gave up, and no pattern that ends later began       *)
(* before that index.                                                      *)
HandOverLosesNothing ==
  phase = "handed_over" =>
    /\ LongestSuffixIn(SubSeq(packet, last_idx_in_root + 1, idx), Nodes) = current
    /\ \A k \in idx + 1 .. Len(packet) : \A p \in Accepting :
         ReadEndsWith(k, p) /\ k - Len(p) < idx => k - Len(p) >= last_idx_in_root
================================================================================
