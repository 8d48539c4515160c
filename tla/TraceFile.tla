------------------------------- MODULE TraceFile -------------------------------
(***************************************************************************)
(* The packets on their way into the program: DumpConverter.java turns the *)
(* text that tcpdump prints into a trace file, and the reader's thread     *)
(* reads that file, as often as it is told, into the lists of the          *)
(* scanners.                                                               *)
(*                                                                         *)
(* All lists get a clone of every packet before any scanner runs: `list'   *)
(* is what each of them holds.  The addresses are left out, the converter  *)
(* writes zeros for them.                                                  *)
(***************************************************************************)
EXTENDS Integers, Sequences, SequencesExt

CONSTANTS
  Texts,              (* what tcpdump printed, sequences of lines          *)
  Repeats,            (* the values of the option -n                       *)
  MaxPacketSize,      (* 1000000 in the code                               *)
  CutsWithin          (* bound: bytes of a record that reach a full disk   *)

VARIABLES
  text, repeat,
  phase,              (* "convert", "read"; "done", "exit"                 *)
  at,                 (* lines converted                                   *)
  lines,              (* the lines of the packet at hand, <<>> for null    *)
  file,               (* the bytes of the trace file                       *)
  cut,                (* the converter stopped before its last packet      *)
  round, pos,         (* the i of the reader, and how far it has read      *)
  list, done, size    (* of each list; the reader's count of all bytes     *)

converter == <<text, repeat, at, lines, file, cut>>
reader == <<round, pos, list, done, size>>
vars == <<text, repeat, phase, at, lines, file, cut, round, pos, list, done, size>>

TextLine == [kind : {"ip", "other", "bytes"}, time : Nat, bytes : Seq(0 .. 255)]

TraceInputs ==
  /\ Texts \subseteq Seq(TextLine)
  /\ Repeats \subseteq Nat /\ MaxPacketSize \in Nat /\ CutsWithin \in Nat

Init ==
  /\ text \in Texts /\ repeat \in Repeats
  /\ phase = "convert" /\ at = 0 /\ lines = <<>> /\ file = <<>> /\ cut = FALSE
  /\ round = 0 /\ pos = 0 /\ list = <<>> /\ done = FALSE /\ size = 0

-----------------------------------------------------------------------------
(* DumpConverter.  A line is [kind, time, bytes]: a heading, of an IP      *)
(* packet ("ip") or of another ("other"), with its time in microseconds,   *)
(* or, after a tab, bytes of the packet ("bytes").                         *)

(* setIntHeaderValue *)
UInt(n) == <<n \div 16777216, (n \div 65536) % 256, (n \div 256) % 256, n % 256>>

Body(group) == FlattenSeq([i \in 1 .. Len(group) - 1 |-> group[i + 1].bytes])

(* setTime cuts the microseconds off. *)
Millis(time) == time \div 1000

Zeros == [i \in 1 .. 8 |-> 0]

(* writePacket.  The constructor of Packet throws for other packets, which *)
(* are then skipped with their bytes.                                      *)
Written(group) ==
  IF group[1].kind # "ip" THEN <<>>
  ELSE UInt(Len(Body(group))) \o Zeros \o UInt(Millis(group[1].time)) \o Body(group)

Line == text[at + 1]
Converting == phase = "convert" /\ at < Len(text)

AddBytes ==
  /\ Converting /\ Line.kind = "bytes" /\ lines # <<>>
  /\ lines' = Append(lines, Line) /\ at' = at + 1
  /\ UNCHANGED <<text, repeat, phase, file, cut, reader>>

NewPacket ==
  /\ Converting /\ Line.kind # "bytes"
  /\ file' = IF lines = <<>> THEN file ELSE file \o Written(lines)
  /\ lines' = <<Line>> /\ at' = at + 1
  /\ UNCHANGED <<text, repeat, phase, cut, reader>>

StartReading == phase' = "read" /\ UNCHANGED <<text, repeat, at, lines, reader>>

(* Bytes before the first heading are added to no list: the converter ends *)
(* by a null pointer, and closes the file.                                 *)
ConverterFails ==
  /\ Converting /\ Line.kind = "bytes" /\ lines = <<>>
  /\ cut' = TRUE
  /\ StartReading /\ UNCHANGED file

(* A write fails: the file ends within the record.                         *)
DiskFull ==
  /\ phase = "convert" /\ lines # <<>>
  /\ at < Len(text) => Line.kind # "bytes"
  /\ \E k \in 0 .. CutsWithin :
       k < Len(Written(lines)) /\ file' = file \o SubSeq(Written(lines), 1, k)
  /\ cut' = TRUE
  /\ StartReading

ConverterDone ==
  /\ phase = "convert" /\ at = Len(text)
  /\ file' = IF lines = <<>> THEN file ELSE file \o Written(lines)
  /\ StartReading /\ UNCHANGED cut

-----------------------------------------------------------------------------
(* start_packetreader_thread *)

HEADER_SIZE == 16
Left == Len(file) - pos
Reading == phase = "read" /\ round < repeat /\ Left >= HEADER_SIZE

readUIntValue(i) ==
  (16777216 * file[i + 1]) + (65536 * file[i + 2]) + (256 * file[i + 3]) + file[i + 4]

PacketSize == readUIntValue(pos)
ValidSize == PacketSize \in 1 .. MaxPacketSize

Incomplete == Left < HEADER_SIZE + PacketSize

(* Only the header has been read: what follows it is taken for the next.   *)
SkipHeader ==
  /\ Reading /\ ~ ValidSize
  /\ pos' = pos + HEADER_SIZE
  /\ UNCHANGED <<converter, phase, round, list, done, size>>

(* The clones are put in the lists. *)
ReadPacket ==
  /\ Reading /\ ValidSize /\ ~ Incomplete
  /\ list' = Append(list, [time |-> readUIntValue(pos + 12),
                           bytes |-> SubSeq(file, pos + 17, pos + 16 + PacketSize)])
  /\ size' = size + PacketSize
  /\ pos' = pos + HEADER_SIZE + PacketSize
  /\ UNCHANGED <<converter, phase, round, done>>

ReadFails ==
  /\ Reading /\ ValidSize /\ Incomplete
  /\ phase' = "exit"
  /\ UNCHANGED <<converter, reader>>

(* A bug: the next round goes on where the last has ended. *)
StartOfRound == pos

(* The file is opened again. *)
StartOfFile == 0

(* The file, or what is left of it, is shorter than a header.              *)
NextRound ==
  /\ phase = "read" /\ round < repeat /\ Left < HEADER_SIZE
  /\ round' = round + 1 /\ pos' = StartOfFile
  /\ UNCHANGED <<converter, phase, list, done, size>>

(* list_set_done of all lists. *)
ReadDone ==
  /\ phase = "read" /\ round = repeat
  /\ done' = TRUE /\ phase' = "done"
  /\ UNCHANGED <<converter, round, pos, list, size>>

Next ==
  \/ AddBytes \/ NewPacket \/ ConverterFails \/ DiskFull \/ ConverterDone
  \/ SkipHeader \/ ReadPacket \/ ReadFails \/ NextRound \/ ReadDone

Spec == Init /\ [][Next]_vars

-----------------------------------------------------------------------------
(* Properties *)

(* The packets the text tells of: each IP heading with the bytes up to the *)
(* next heading, and those of a size the reader takes.                     *)
EndOf(i) == CHOOSE j \in i .. Len(text) :
              /\ \A k \in i + 1 .. j : text[k].kind = "bytes"
              /\ j < Len(text) => text[j + 1].kind # "bytes"
PacketAt(i) ==
  [time |-> text[i].time \div 1000,
   bytes |-> FlattenSeq([k \in 1 .. EndOf(i) - i |-> text[i + k].bytes])]
Told ==
  LET told[n \in 0 .. Len(text)] ==
        IF n = 0 THEN <<>>
        ELSE IF text[n].kind = "ip" /\ PacketAt(n).bytes # <<>>
        THEN Append(told[n - 1], PacketAt(n)) ELSE told[n - 1]
  IN told[Len(text)]
Oversized(p) == Len(p.bytes) > MaxPacketSize
SomeOversized == \E p \in Range(Told) : Oversized(p)

Rounds(packets) ==
  [i \in 1 .. repeat * Len(packets) |-> packets[1 + ((i - 1) % Len(packets))]]

TotalSize(packets) ==
  LET f[n \in 0 .. Len(packets)] == IF n = 0 THEN 0 ELSE f[n - 1] + Len(packets[n].bytes)
  IN f[Len(packets)]

(* The lists hold the packets tcpdump printed, with their bytes and times  *)
(* and nothing of the other protocols', in their order and once for every  *)
(* round.  If the converter was stopped each round gives the same number   *)
(* of packets, the first ones.  The total that is reported later is theirs. *)
PacketsInOrder ==
  ~ SomeOversized =>
    \E k \in 0 .. Len(Told) :
      LET trace == Rounds(SubSeq(Told, 1, k))
      IN /\ IsPrefix(list, trace)
         /\ size = TotalSize(list)
         /\ done => list = trace
         /\ done /\ ~ cut => k = Len(Told)

(* The reader ends the program only if the file was cut within the bytes   *)
(* of a packet, or if a packet was too long and it has lost its place; in  *)
(* all other cases it comes to mark the lists done.                        *)
ExitsOnlyIfDamaged == phase = "exit" => cut \/ SomeOversized

(* A packet that is too long does no harm to what comes before it: in the  *)
(* first round the packets up to it are the first of the lists.            *)
BeforeOversized ==
  round = 0 =>
    \E n \in 0 .. Len(Told) :
      LET first == SubSeq(Told, 1, n)
      IN /\ \A p \in Range(first) : ~ Oversized(p)
         /\ n < Len(Told) => Oversized(Told[n + 1])
         /\ IsPrefix(list, first) \/ IsPrefix(first, list)

(* What becomes of a trace, whole, cut or with packets that are too long.  *)
PacketsArrive == PacketsInOrder /\ ExitsOnlyIfDamaged /\ BeforeOversized
===============================================================================
