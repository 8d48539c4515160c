----------------------------- MODULE SimpleMachine -----------------------------
(***************************************************************************)
(* The simple state machine (createSimpleStateMachine): a state of bytes   *)
(* for every node of the Aho-Corasick tree, with all its gotos and its     *)
(* failure, and the scan of one packet (matchIterativeSimple).             *)
(*                                                                         *)
(* Main.c can be switched to it by a comment.  SIMPLE_USE_TABLE, for a     *)
(* second kind of state, is not compiled in.                               *)
(***************************************************************************)
EXTENDS AhoCorasick, StateEncodings

CONSTANTS Packets

VARIABLES
  junk,               (* what fresh memory holds                           *)
  ids,                (* node->id, of the nodes whose state was made       *)
  states,             (* the bytes of each state, the id k at k + 1        *)
  packet, verbose, idx,
  s,                  (* the id of the current state                       *)
  res

machine == <<junk, ids, states>>
scan == <<packet, verbose, idx, s, res>>
vars == <<treeVars, machine, scan>>

Init ==
  /\ TreeInit
  /\ junk \in {0, 255} /\ ids = <<>> /\ states = <<>>
  /\ packet = <<>> /\ verbose = FALSE /\ idx = 0 /\ s = 0 /\ res = 0

Build == BuildTree /\ UNCHANGED <<machine, scan>>

-----------------------------------------------------------------------------
(* SimpleLinearEncodedState.c.  The six bits of size in the first byte are *)
(* the match (32), the highest bit of the id and four of the failure.      *)

createEmptyState_SLE(id, size) ==
  LET memsize == 6 + size + 2 * size + CeilDiv(2 * size, 8) + 2
  IN Allocate(<<Header(STATE_TYPE_LINEAR_ENCODED, IF id > 65535 THEN 16 ELSE 0), Lo(size),
                Hi(id), Lo(id), Hi(memsize), Lo(memsize)>>, memsize, junk)

(* The two bits of each goto above its sixteenth. *)
HighBits(gotosIds) ==
  FoldLeftDomain(LAMBDA m, i :
      SET_1BIT_ELEMENT(SET_1BIT_ELEMENT(m, 2 * (i - 1), gotosIds[i] \div 65536),
                       2 * (i - 1) + 1, gotosIds[i] \div 131072),
    Bytes(CeilDiv(2 * Len(gotosIds), 8), 0), gotosIds)

setStateData_SLE(m, chars, gotosIds, fail, match) ==
  Overlay(<<m[1] | (4 * ((fail \div 65536) % 16)) | (IF match THEN 128 ELSE 0)>>
            \o SubSeq(m, 2, Len(m)),
          6, Ptr(fail) \o chars \o HighBits(gotosIds) \o FlattenSeq([i \in DOMAIN gotosIds |-> Ptr(gotosIds[i])]))

(* Where the reader looks for the pointers: behind one bit for each goto.  *)
PointersAt(size) == 8 + size + CeilDiv(size, 8)

(* A failure reads no byte. *)
AfterFailure(i) == i

getNextState_SLE(m, c, i) ==
  LET size  == m[2]
      found == {k \in 0 .. size - 1 : m[8 + k + 1] = c /\ c < 128}
      k     == Min(found)
      high  == GET_1BIT_ELEMENT(m, 8 + size, 2 * k) + 2 * GET_1BIT_ELEMENT(m, 8 + size, 2 * k + 1)
  IN IF found = {}
     THEN [next |-> 65536 * (HeaderSize(m) % 16) + Word(m, 6), fail |-> TRUE, idx |-> AfterFailure(i)]
     ELSE [next |-> 65536 * high + Word(m, PointersAt(size) + 2 * k), fail |-> FALSE, idx |-> i + 1]

IsMatchState(m) == HeaderSize(m) >= 32

-----------------------------------------------------------------------------
(* generateSimpleStates and setSimpleStatesData: twice breadth first.      *)

StartStates ==
  /\ phase = "built"
  /\ queue' = <<Root>> /\ phase' = "states"
  /\ UNCHANGED <<file, count, tree, machine, scan>>

GenerateState ==
  /\ phase = "states" /\ queue # <<>>
  /\ LET n == Head(queue)
     IN /\ states' = Append(states, createEmptyState_SLE(Len(states), Len(gotos[n])))
        /\ ids' = [m \in DOMAIN ids \cup {n} |-> IF m = n THEN Len(states) ELSE ids[m]]
        /\ queue' = Tail(queue) \o gotos[n]
  /\ UNCHANGED <<file, count, tree, phase, junk, scan>>

StatesDone ==
  /\ phase = "states" /\ queue = <<>>
  /\ queue' = <<Root>> /\ phase' = "data"
  /\ UNCHANGED <<file, count, tree, machine, scan>>

SetData ==
  /\ phase = "data" /\ queue # <<>>
  /\ LET n == Head(queue)
         k == ids[n] + 1
     IN /\ states' = [states EXCEPT ![k] =
              setStateData_SLE(@, [i \in DOMAIN gotos[n] |-> Last(gotos[n][i])],
                               [i \in DOMAIN gotos[n] |-> ids[gotos[n][i]]],
                               ids[failure[n]], Match(n))]
        /\ queue' = Tail(queue) \o gotos[n]
  /\ UNCHANGED <<file, count, tree, phase, junk, ids, scan>>

(* match: the scan begins in the root. *)
StartScan ==
  /\ phase = "data" /\ queue = <<>>
  /\ packet' \in Packets /\ verbose' \in BOOLEAN
  /\ phase' = "scan"
  /\ UNCHANGED <<file, count, tree, queue, machine, idx, s, res>>

-----------------------------------------------------------------------------
(* matchIterativeSimple.  Patterns are looked for in verbose mode only.    *)

Scanning == phase = "scan" /\ idx < Len(packet)
Asked == getNextState_SLE(states[s + 1], packet[idx + 1], idx)
IsState(id) == id < Len(states)

ScanByte ==
  /\ Scanning /\ IsState(Asked.next)
  /\ s' = Asked.next
  /\ idx' = IF s = 0 /\ Asked.next = 0 /\ Asked.fail THEN Asked.idx + 1 ELSE Asked.idx
  /\ res' = IF verbose /\ IsMatchState(states[Asked.next + 1]) THEN 1 ELSE res
  /\ UNCHANGED <<treeVars, machine, packet, verbose>>

(* A pointer that is none leads out of the state table. *)
ScanAstray ==
  /\ Scanning /\ ~ IsState(Asked.next)
  /\ phase' = "crashed"
  /\ UNCHANGED <<file, count, tree, queue, machine, scan>>

EndOfPacket ==
  /\ phase = "scan" /\ idx = Len(packet)
  /\ phase' = "scanned"
  /\ UNCHANGED <<file, count, tree, queue, machine, scan>>

Next ==
  \/ Build \/ StartStates \/ GenerateState \/ StatesDone \/ SetData
  \/ StartScan \/ ScanByte \/ ScanAstray \/ EndOfPacket

Spec == Init /\ [][Next]_vars

-----------------------------------------------------------------------------
(* Properties *)

Read(k) == SubSeq(packet, 1, k)
NodeOf(id) == CHOOSE n \in Nodes : ids[n] = id
Patterns == {p \in Nodes : Match(p)}

(* A state of more than four gotos has its pointers where the reader does  *)
(* not look for them; a byte of 128 or above is never found.               *)
Readable ==
  \A n \in Nodes : Len(gotos[n]) <= 4 /\ \A m \in Children(n) : m[Len(m)] < 128

(* The bytes lead the scan as the tree would: the state is a node that the *)
(* bytes read end with, and no longer one can go on with the next byte.    *)
FollowsTheTree ==
  Readable =>
    /\ phase # "crashed"
    /\ Scanning =>
         LET n == NodeOf(s)
         IN /\ IsSuffix(n, Read(idx))
            /\ \A m \in Nodes : IsSuffix(m, Read(idx)) /\ Len(m) > Len(n) =>
                                 ~ HasGoto(m, packet[idx + 1])

(* In verbose mode a scan finds a pattern wherever the longest node that   *)
(* the bytes end with is one, and it never finds one that is not there.    *)
SimpleScanIsRight ==
  Readable /\ phase = "scanned" =>
    /\ verbose => \A k \in DOMAIN packet :
                    LongestSuffixIn(Read(k), Nodes) \in Patterns => res = 1
    /\ res = 1 => \E k \in DOMAIN packet : \E p \in Patterns : IsSuffix(p, Read(k))
===============================================================================
