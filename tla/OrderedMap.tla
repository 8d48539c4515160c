------------------------------ MODULE OrderedMap ------------------------------
(***************************************************************************)
(* What the callers of HashMap.h expect of a map: a key that was put in is *)
(* found with its value, any other key is not, and an iteration meets the  *)
(* values in the order they were put in, whatever was put in meanwhile.    *)
(* The automaton builder and both generators rely on it for their gotos.   *)
(***************************************************************************)
EXTENDS Integers, Sequences

CONSTANTS Keys, Values, NoValue

VARIABLES
  entries,   (* what was put in, oldest first                              *)
  position,  (* of the entry an iteration returns next, 0 at its end       *)
  result     (* what the last call returned                                *)

Present(k) == \E i \in DOMAIN entries : entries[i].key = k

Init == entries = <<>> /\ position = 0 /\ result = NoValue

Put(k, v) ==
  /\ ~ Present(k)
  /\ entries' = Append(entries, [key |-> k, data |-> v])
  /\ UNCHANGED <<position, result>>

Get(k) ==
  /\ \/ \E i \in DOMAIN entries : entries[i].key = k /\ result' = entries[i].data
     \/ ~ Present(k) /\ result' = NoValue
  /\ UNCHANGED <<entries, position>>

Size == result' = Len(entries) /\ UNCHANGED <<entries, position>>

Reset == position' = (IF entries = <<>> THEN 0 ELSE 1) /\ UNCHANGED <<entries, result>>

Following ==
  \/ /\ position = 0
     /\ result' = NoValue
     /\ UNCHANGED <<entries, position>>
  \/ /\ position \in DOMAIN entries
     /\ result' = entries[position].data
     /\ position' = IF position = Len(entries) THEN 0 ELSE position + 1
     /\ UNCHANGED entries

(* The map is given up; nothing is asked of it until it is created again.  *)
Discard == entries' = <<>> /\ position' = 0 /\ UNCHANGED result

Next ==
  \/ \E k \in Keys : Get(k) \/ \E v \in Values : Put(k, v)
  \/ Size \/ Reset \/ Following \/ Discard

Spec == Init /\ [][Next]_<<entries, position, result>>
=============================================================================
