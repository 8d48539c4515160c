--------------------------- MODULE HeavyPacketFifo ---------------------------
(***************************************************************************)
(* What a regular and a dedicated scanner expect of the heavy-packet queue *)
(* between them (Scanner.c lines 208-288, MulticoreManager.c 389-406):     *)
(* packets come out in the order they went in, an "empty" answer is given  *)
(* only when no packet waits, and an "overrun" answer only when at least   *)
(* Capacity do.  Packets are numbered in the order they go in.             *)
(***************************************************************************)
EXTENDS Integers, Sequences

CONSTANT Capacity

VARIABLES
  queue,   (* packets that wait                                            *)
  answer,  (* what the last call returned, "pending" until it returns      *)
  count    (* packets ever put in                                          *)

vars == <<queue, answer, count>>

NoPacket == -1
Answer(kind, packet) == [kind |-> kind, packet |-> packet]

Init == queue = <<>> /\ answer = Answer("none", NoPacket) /\ count = 0

Put ==
  /\ queue' = Append(queue, count)
  /\ count' = count + 1
  /\ UNCHANGED answer

Call ==
  /\ answer.kind # "pending"
  /\ answer' = Answer("pending", NoPacket)
  /\ UNCHANGED <<queue, count>>

Take ==
  /\ answer.kind = "pending"
  /\ queue # <<>>
  /\ answer' = Answer("packet", Head(queue))
  /\ queue' = Tail(queue)
  /\ UNCHANGED count

Miss ==
  /\ answer.kind = "pending"
  /\ queue = <<>>
  /\ answer' = Answer("empty", NoPacket)
  /\ UNCHANGED <<queue, count>>

Overrun ==
  /\ answer.kind = "pending"
  /\ Len(queue) >= Capacity
  /\ answer' = Answer("overrun", NoPacket)
  /\ UNCHANGED <<queue, count>>

Next == Put \/ Call \/ Take \/ Miss \/ Overrun

Spec == Init /\ [][Next]_vars
=============================================================================
