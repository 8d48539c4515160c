----------------------------- MODULE PacketReader -----------------------------
(***************************************************************************)
(* The reader thread: it puts a clone of every packet of the trace, as     *)
(* often as the trace is repeated, in the list of every scanner, and then  *)
(* tells the lists that no more will come.                                 *)
(***************************************************************************)
EXTENDS SystemState

VARIABLES
  reader,   (* "off", "running" or "gone"                                  *)
  count     (* packets read                                                *)

readerVars == <<reader, count>>
unreadable == <<useLock, free_queue, matrix, targets, counts, scanners_done,
                stopping, modes, scannerLocals, crashed>>

ReaderInit == reader = "off" /\ count = 0

ReadPacket ==
  /\ reader = "running"
  /\ count < NumPackets
  /\ count' = count + 1
  /\ list' = [s \in Scanners |-> Append(list[s], <<count', s>>)]
  /\ UNCHANGED <<reader, listDone, unreadable>>

(* Mutant: only the first list is marked. *)
MarkFirst == listDone' = [listDone EXCEPT ![0] = TRUE]

(* list_set_done for every scanner *)
MarkDone == listDone' = [s \in Scanners |-> TRUE]

EndOfTrace ==
  /\ reader = "running"
  /\ count = NumPackets
  /\ MarkDone
  /\ reader' = "gone"
  /\ UNCHANGED <<count, list, unreadable>>

ReaderStep == ReadPacket \/ EndOfTrace
=============================================================================
