--------------------------- MODULE CompressedMachine ---------------------------
(***************************************************************************)
(* The compressed machine: the states generated from the Aho-Corasick tree *)
(* (generateStates), the data put into them (setStatesData) and the scan   *)
(* of one packet (matchIterative).                                         *)
(*                                                                         *)
(* A node with several gotos becomes a linear encoded, bitmap encoded or   *)
(* lookup table state, a chain of nodes with one goto each becomes one     *)
(* path compressed state, a leaf has no state: who points to it is         *)
(* redirected to its failure.  Pointers to the first two levels are not    *)
(* stored but looked up by the bytes read last.  A state is named by its   *)
(* node; how its bytes are laid out is the matter of StateEncodings.       *)
(***************************************************************************)
EXTENDS PacketScan

CONSTANTS Options            (* the values of <<maxGotosLE, maxGotosBM>>   *)

(* The packets are of bytes, and the machine is made from a tree built     *)
(* with failures moved away from the leaves.                               *)
CompressedInputs ==
  /\ Packets \subseteq Strings
  /\ Drops \subseteq Nat
  /\ Options \subseteq Nat \X Nat
  /\ AvoidFailToLeaves

VARIABLES
  maxGotos,        (* above the first a state is BM, above the second LT   *)
  id,              (* what the code keeps in node->id: "state", "child"    *)
                   (* for -1, "path" for -2                                *)
  firstLevelNodes, secondLevelNodes,
  room,            (* pointers there is memory for in a state              *)
  data,            (* the states filled so far                             *)
  firstLevelLookup, secondLevelLookup,
  init_idx, s, match,
  clean            (* next.match was 0 when the scan began                 *)

machine == <<maxGotos, id, firstLevelNodes, secondLevelNodes, room, data,
             firstLevelLookup, secondLevelLookup>>
args    == <<packet, drop, init_idx>>
locals  == <<idx, s, match, clean, res, rootVisits>>
vars == <<treeVars, machine, args, locals>>

Init ==
  /\ TreeInit
  /\ maxGotos = <<>> /\ id = <<>> /\ firstLevelNodes = {} /\ secondLevelNodes = {}
  /\ room = <<>> /\ data = <<>>
  /\ firstLevelLookup = <<>> /\ secondLevelLookup = <<>>
  /\ packet = <<>> /\ drop = 0 /\ init_idx = 0
  /\ idx = 0 /\ s = Root /\ match = FALSE /\ clean = FALSE /\ res = 0 /\ rootVisits = 0

Build == BuildTree /\ UNCHANGED <<machine, args, locals>>

-----------------------------------------------------------------------------
(* generateStates *)

NumGotos(n) == Len(gotos[n])
IsBranch(n) == NumGotos(n) > 1
Marked(n)   == hasFailInto[n] > 0

StartStates ==
  /\ phase = "built"
  /\ maxGotos' \in Options
  /\ id' = [n \in Nodes |-> "none"]
  /\ queue' = <<Root>>
  /\ phase' = "states"
  /\ UNCHANGED <<file, count, tree, firstLevelNodes, secondLevelNodes, room, data,
                 firstLevelLookup, secondLevelLookup, args, locals>>

(* The first node of a failure chain that is not a leaf. *)
Surviving(n) ==
  LET f[m \in Nodes] == IF m = Root \/ ~IsLeaf(m) THEN m ELSE f[failure[m]]
  IN f[n]

(* The gotos of a branch that point to the first two levels. *)
GotosToL12(n) ==
  {m \in Children(n) :
     Len(m) <= 2 /\ (IsLeaf(m) => Len(Surviving(failure[m])) \in 1 .. 2)}

GenerateBranch(n) ==
  /\ room' = [m \in DOMAIN room \cup {n} |->
                IF m = n THEN NumGotos(n) - Cardinality(GotosToL12(n)) ELSE room[m]]
  /\ firstLevelNodes' = firstLevelNodes \cup (IF n = Root THEN Children(n) ELSE {})
  /\ secondLevelNodes' = secondLevelNodes \cup
                           (IF n # Root /\ n \in firstLevelNodes THEN Children(n) ELSE {})
  /\ id' = [m \in Nodes |-> IF m = n THEN "state"
                            ELSE IF m \in Children(n) THEN "child" ELSE id[m]]
  /\ queue' = Tail(queue) \o gotos[n]

EndsPath(m) == Marked(m) \/ NumGotos(m) # 1

(* The nodes of a compressed path, from n to the node where it ends: one   *)
(* with several gotos, one that others fail into, or a leaf.               *)
Path(n) ==
  LET p[m \in Nodes] == IF m # n /\ EndsPath(m) THEN <<m>>
                        ELSE <<m>> \o p[Head(gotos[m])]
  IN p[n]

(* The path goes on after its last node, which is no unmarked leaf. *)
Continues(n) == Marked(Last(Path(n))) \/ IsBranch(Last(Path(n)))

FailuresToL012(n) == {m \in Range(Front(Path(n))) : Len(failure[m]) <= 2}

GeneratePath(n) ==
  LET path == Path(n)
      end  == Last(path)
  IN /\ room' = [m \in DOMAIN room \cup {n} |->
                   IF m = n THEN Len(path) - 1 - Cardinality(FailuresToL012(n)) ELSE room[m]]
     /\ secondLevelNodes' = secondLevelNodes \cup
          (IF n \in firstLevelNodes /\ Len(path) = 2 /\ Continues(n) THEN {end} ELSE {})
     /\ id' = [m \in Nodes |-> IF m = n THEN "state"
                               ELSE IF m = end /\ Continues(n) THEN "child"
                               ELSE IF m \in Range(path) THEN "path" ELSE id[m]]
     /\ queue' = IF Continues(n) THEN Append(Tail(queue), end) ELSE Tail(queue)
     /\ UNCHANGED firstLevelNodes

GenerateState ==
  /\ phase = "states" /\ queue # <<>>
  /\ LET n == Head(queue)
     IN \/ IsBranch(n) /\ GenerateBranch(n)
        \/ NumGotos(n) = 1 /\ GeneratePath(n)
        \/ /\ IsLeaf(n) /\ queue' = Tail(queue)
           /\ UNCHANGED <<room, firstLevelNodes, secondLevelNodes, id>>
  /\ UNCHANGED <<file, count, tree, phase, maxGotos, data,
                 firstLevelLookup, secondLevelLookup, args, locals>>

StatesDone ==
  /\ phase = "states" /\ queue = <<>>
  /\ queue' = <<Root>>
  /\ phase' = "data"
  /\ UNCHANGED <<file, count, tree, machine, args, locals>>

-----------------------------------------------------------------------------
(* setStatesData *)

HasState(n) == id[n] = "state"

(* setRealPointers: the node a pointer to n really leads to, *)
RealNode(n) == LET r[m \in Nodes] == IF HasState(m) THEN m ELSE r[failure[m]] IN r[n]

(* Mutant: the nodes without a state are left without a look. *)
MatchOfTarget(n) == Match(RealNode(n))

(* and whether following it is a match, of n, of a node on the way to the  *)
(* real one, or of the real one.                                           *)
RealMatch(n) ==
  LET r[m \in Nodes] == Match(m) \/ (~HasState(m) /\ r[failure[m]]) IN r[n]

(* The error setRealPointers reports of a failure. *)
PassesLeaf(n) ==
  LET r[m \in Nodes] == ~HasState(m) /\ (Match(m) \/ r[failure[m]]) IN r[n]

PtrType(n) == IF n \in firstLevelNodes THEN "level1"
              ELSE IF n \in secondLevelNodes THEN "level2" ELSE "regular"

Pointer(n) == [state |-> RealNode(n), type |-> PtrType(RealNode(n)), match |-> RealMatch(n)]

(* The pointer of a path: that to the root has a type of its own. *)
FailPointer(n) ==
  IF RealNode(n) = Root THEN [Pointer(n) EXCEPT !.type = "level0"] ELSE Pointer(n)

MAX_NODE_DEGREE == 64

(* A state too large for its encoding gets a lookup table.                 *)
StateType(n) ==
  IF NumGotos(n) > MAX_NODE_DEGREE THEN "LT"
  ELSE IF NumGotos(n) <= maxGotos[1] THEN "LE"
  ELSE IF NumGotos(n) <= maxGotos[2] THEN "BM" ELSE "LT"

(* A lookup table stores every pointer, whatever its type. *)
GotoPointer(n, p) == IF StateType(n) = "LT" THEN [p EXCEPT !.type = "regular"] ELSE p

BranchData(n) ==
  [type  |-> StateType(n),
   gotos |-> [c \in {Last(m) : m \in Children(n)} |-> GotoPointer(n, Pointer(Append(n, c)))],
   fail  |-> RealNode(failure[n])]

(* What a path leads to when all its characters were read: its end, or the *)
(* failure of the leaf it ends with.                                       *)
PathEnd(n) == IF Continues(n) THEN Last(Path(n)) ELSE failure[Last(Path(n))]

PathData(n) ==
  LET path == Path(n)
      size == Len(path) - 1
  IN [type    |-> "PC",
      chars   |-> [i \in 1 .. size |-> Last(path[i + 1])],
      fails   |-> [i \in 1 .. size |-> FailPointer(failure[path[i]])],
      matches |-> [i \in 1 .. size |->
                     IF i < size
                     THEN Match(path[i + 1]) \/ RealMatch(failure[path[i + 1]])
                     ELSE (~Continues(n) /\ Match(Last(path))) \/ RealMatch(PathEnd(n))],
      next    |-> RealNode(PathEnd(n))]

(* The pointers that are stored in a state. *)
Stored(d) == IF d.type = "PC"
             THEN Cardinality({i \in DOMAIN d.fails : d.fails[i].type = "regular"})
             ELSE Cardinality({c \in DOMAIN d.gotos : d.gotos[c].type = "regular"})

(* Mutant: the second level is forgotten. *)
FillFirstLookup(n) ==
  /\ firstLevelLookup' = IF n \in firstLevelNodes
                         THEN [c \in DOMAIN firstLevelLookup \cup {n[1]} |->
                                 IF c = n[1] THEN n ELSE firstLevelLookup[c]]
                         ELSE firstLevelLookup
  /\ UNCHANGED secondLevelLookup

FillLookups(n) ==
  /\ firstLevelLookup' = IF n \in firstLevelNodes
                         THEN [c \in DOMAIN firstLevelLookup \cup {n[1]} |->
                                 IF c = n[1] THEN n ELSE firstLevelLookup[c]]
                         ELSE firstLevelLookup
  /\ secondLevelLookup' = IF n \in secondLevelNodes \ firstLevelNodes
                          THEN [m \in DOMAIN secondLevelLookup \cup {n} |-> m]
                          ELSE secondLevelLookup

(* The children in g that have a state, in their order. *)
WithState(g) ==
  LET f[i \in 0 .. Len(g)] == IF i = 0 THEN <<>>
                              ELSE IF HasState(g[i]) THEN Append(f[i - 1], g[i]) ELSE f[i - 1]
  IN f[Len(g)]

(* One state is filled, or the program ends or runs away. *)
SetData ==
  /\ phase = "data" /\ queue # <<>>
  /\ LET n == Head(queue)
         d == IF IsBranch(n) THEN BranchData(n) ELSE PathData(n)
         failures == IF IsBranch(n) THEN {n} ELSE Range(Front(Path(n)))
         next == IF IsBranch(n) THEN WithState(gotos[n])
                 ELSE IF Continues(n) THEN <<PathEnd(n)>> ELSE <<>>
     IN IF ~HasState(n)
        THEN phase' = "no_state" /\ UNCHANGED <<queue, data, firstLevelLookup, secondLevelLookup>>
        ELSE IF \E m \in failures : PassesLeaf(failure[m])
        THEN phase' = "leaf_failure" /\ UNCHANGED <<queue, data, firstLevelLookup, secondLevelLookup>>
        ELSE IF ~IsBranch(n) /\ ~Marked(PathEnd(n)) /\ ~IsBranch(PathEnd(n))
        THEN phase' = "runaway" /\ UNCHANGED <<queue, data, firstLevelLookup, secondLevelLookup>>
        ELSE IF d.type # "LT" /\ Stored(d) > room[n]
        THEN phase' = "memory_error" /\ UNCHANGED <<queue, data, firstLevelLookup, secondLevelLookup>>
        ELSE /\ data' = [m \in DOMAIN data \cup {n} |-> IF m = n THEN d ELSE data[m]]
             /\ FillLookups(n)
             /\ queue' = Tail(queue) \o next
             /\ UNCHANGED phase
  /\ UNCHANGED <<file, count, tree, maxGotos, id, firstLevelNodes, secondLevelNodes, room,
                 args, locals>>

MachineReady ==
  /\ phase = "data" /\ queue = <<>>
  /\ phase' = "ready"
  /\ UNCHANGED <<file, count, tree, queue, machine, args, locals>>

-----------------------------------------------------------------------------
(* matchIterative *)

(* The scan begins at init_idx; next.match is whatever was on the stack. *)
StartScan ==
  /\ phase = "ready"
  /\ packet' \in Packets /\ drop' \in Drops
  /\ init_idx' \in 0 .. 1 /\ idx' = init_idx'
  /\ match' \in BOOLEAN /\ clean' = ~match'
  /\ phase' = "scan"
  /\ UNCHANGED <<file, count, tree, queue, machine, s, res, rootVisits>>

Scanning == phase = "scan" /\ idx < Len(packet)
Byte(i) == packet[i + 1]

(* rootVisits, as far as rootVisits > drop can tell. *)
CountRootVisit == rootVisits' = IF rootVisits > drop THEN rootVisits ELSE rootVisits + 1

(* Mutant: the byte the root has no goto for is not passed over. *)
StuckAtRoot(c) == IF c \in DOMAIN firstLevelLookup THEN idx + 1 ELSE idx

(* The byte is read if the root has a goto for it, passed over if not. *)
AfterRoot(c) == idx + 1

(* The root is left by the first-level lookup, which knows of no match. *)
RootByte ==
  /\ Scanning /\ s = Root
  /\ drop = 0 \/ rootVisits < drop
  /\ CountRootVisit
  /\ s' = IF Byte(idx) \in DOMAIN firstLevelLookup THEN firstLevelLookup[Byte(idx)] ELSE Root
  /\ idx' = AfterRoot(Byte(idx))
  /\ res' = IF match THEN 1 ELSE res
  /\ UNCHANGED <<treeVars, machine, args, match, clean>>

DropPacket ==
  /\ Scanning /\ s = Root
  /\ drop # 0 /\ rootVisits >= drop
  /\ CountRootVisit
  /\ res' = -1
  /\ phase' = "dropped"
  /\ UNCHANGED <<file, count, tree, queue, machine, args, idx, s, match, clean>>

(* Where a pointer leads when the bytes before index i have been read, and *)
(* whether the look-up it needs finds something.                           *)
Resolve(p, i) ==
  CASE p.type = "level1" -> firstLevelLookup[Byte(i - 1)]
    [] p.type = "level2" -> secondLevelLookup[<<Byte(i - 2), Byte(i - 1)>>]
    [] OTHER -> p.state
Resolves(p, i) ==
  CASE p.type = "level1" -> Byte(i - 1) \in DOMAIN firstLevelLookup
    [] p.type = "level2" -> i > 1 /\ <<Byte(i - 2), Byte(i - 1)>> \in DOMAIN secondLevelLookup
    [] OTHER -> TRUE

(* A step to the state n, by a match or not. *)
Advance(n, i, m) ==
  /\ s' = n /\ idx' = i /\ match' = m
  /\ res' = IF m THEN 1 ELSE res
  /\ UNCHANGED phase

(* A pointer whose look-up finds nothing leads out of the state table. *)
Take(p, i, m) ==
  IF Resolves(p, i) THEN Advance(Resolve(p, i), i, m)
  ELSE phase' = "lookup_miss" /\ UNCHANGED <<s, idx, match, res>>

(* A lookup table takes the pointer 0, the root's, for none. *)
FoundGoto(d, c) == c \in DOMAIN d.gotos /\ (d.type = "LT" => d.gotos[c].state # Root)

BranchByte ==
  /\ Scanning /\ s # Root /\ IsBranch(s)
  /\ IF FoundGoto(data[s], Byte(idx))
     THEN LET p == data[s].gotos[Byte(idx)] IN Take(p, idx + 1, p.match)
     ELSE Advance(data[s].fail, idx, FALSE)
  /\ UNCHANGED <<file, count, tree, queue, machine, args, clean, rootVisits>>

(* How many characters of a path the packet goes on with. *)
Agreement(chars) ==
  CHOOSE k \in 0 .. Len(chars) :
    /\ idx + k <= Len(packet)
    /\ \A i \in 1 .. k : Byte(idx + i - 1) = chars[i]
    /\ k < Len(chars) /\ idx + k < Len(packet) => Byte(idx + k) # chars[k + 1]

FailureAfter(d, k) == d.fails[k + 1]

MatchesBefore(d, k) == \E i \in 1 .. k : d.matches[i]

PathBytes ==
  /\ Scanning /\ s # Root /\ ~IsBranch(s)
  /\ LET d == data[s]
         k == Agreement(d.chars)
         m == MatchesBefore(d, k)
     IN IF k < Len(d.chars) /\ idx + k < Len(packet)
        THEN Take(FailureAfter(d, k), idx + k, m)
        ELSE Advance(d.next, idx + k, m)
  /\ UNCHANGED <<file, count, tree, queue, machine, args, clean, rootVisits>>

EndOfPacket ==
  /\ phase = "scan" /\ idx >= Len(packet)
  /\ phase' = "scanned"
  /\ UNCHANGED <<file, count, tree, queue, machine, args, locals>>

ScanStep == RootByte \/ DropPacket \/ BranchByte \/ PathBytes \/ EndOfPacket

Next ==
  \/ Build \/ StartStates \/ GenerateState \/ StatesDone \/ SetData \/ MachineReady
  \/ StartScan \/ ScanStep

Spec == Init /\ [][Next]_vars

FairSpec == Spec /\ WF_vars(ScanStep)

-----------------------------------------------------------------------------
(* Properties *)

Failed == {"no_state", "leaf_failure", "runaway", "memory_error"}

TypeOK ==
  /\ TreeTypeOK
  /\ DOMAIN id \subseteq Nodes /\ Range(id) \subseteq {"none", "child", "path", "state"}
  /\ DOMAIN room \subseteq Nodes /\ Range(room) \subseteq Nat
  /\ DOMAIN data \subseteq DOMAIN room
  /\ s \in Nodes /\ idx \in 0 .. Len(packet) + 1 /\ res \in {-1, 0, 1}
  /\ phase = "scan" => s \in DOMAIN data
  /\ phase \in {"enter", "failures", "avoid", "built", "states", "data", "ready", "scan",
                "scanned", "dropped", "lookup_miss"} \cup Failed

Read(k) == SubSeq(packet, init_idx + 1, k)
BranchingRoot == IsBranch(Root)
EndsWith(k, p) == IsSuffix(p, Read(k))
Patterns == {p \in Nodes : p \in Range(message[p])}

(* generateStates and setStatesData go over the same paths and counts one  *)
(* after the other: if the patterns begin with two different characters at *)
(* least, no state is asked for that was not made, no failure leads to an  *)
(* accepting leaf, no path runs on past its leaf, and each state has the   *)
(* memory its pointers need.                                               *)
GenerationSucceeds == BranchingRoot => phase \notin Failed

(* A pointer to the first two levels is looked up by the bytes that were   *)
(* read last, wherever the scan comes from: each state of these levels is  *)
(* to be found, and no look-up ever finds nothing.                         *)
LookupsSucceed ==
  /\ phase # "lookup_miss"
  /\ phase = "ready" /\ BranchingRoot =>
       \A n \in DOMAIN data :
         /\ Len(n) = 1 => n \in Range(firstLevelLookup)
         /\ Len(n) = 2 => n \in Range(secondLevelLookup)

(* A lookup table takes a goto to the root, that is to a leaf which fails  *)
(* to the root, for none.                                                  *)
GotoToRootInTable ==
  \E n \in DOMAIN data : /\ n # Root /\ data[n].type = "LT"
                         /\ \E c \in DOMAIN data[n].gotos : data[n].gotos[c].state = Root

(* matchIterative: the state is a node that the bytes read end with, and   *)
(* no longer node that they end with could go on with the next byte: what  *)
(* compressed leaves and paths leave out is never missing.                 *)
NothingPendingIsLost ==
  BranchingRoot /\ ~ GotoToRootInTable /\ Scanning =>
    /\ EndsWith(idx, s)
    /\ \A n \in Nodes : EndsWith(idx, n) /\ Len(n) > Len(s) => ~HasGoto(n, Byte(idx))

(* If no lookup table has a goto to the root: a scan that reaches the end  *)
(* of the packet reports a match wherever the bytes read end with a node   *)
(* of two characters or more that accepts.  Whether one has or not, if     *)
(* next.match was 0 when it began it never reports one of bytes that hold  *)
(* no pattern.                                                             *)
ScanIsRight ==
  phase = "scanned" =>
    /\ BranchingRoot /\ ~ GotoToRootInTable => \A k \in init_idx + 2 .. Len(packet) :
         LET n == LongestSuffixIn(Read(k), Nodes)
         IN Len(n) > 1 /\ Match(n) => res = 1
    /\ clean /\ res = 1 =>
         \E k \in init_idx + 1 .. Len(packet) : \E p \in Patterns : EndsWith(k, p)

(* The machine made of the tree is complete: paths end at every node that  *)
(* a failure leads to, each state is made and filled, each look-up finds.  *)
MachineIsComplete ==
  TypeOK /\ FailTargetsAreMarked /\ GenerationSucceeds /\ LookupsSucceed

(* A scan of the compressed machine has at every byte the state, and at    *)
(* the end the answer, that the tree and the packet give.                  *)
ScanIsExact == NothingPendingIsLost /\ ScanIsRight

(* Every scan ends, though a failure does not advance in the packet. *)
ScanEnds == (phase = "scan") ~> ( phase \in {"scanned", "dropped", "lookup_miss"})
================================================================================
