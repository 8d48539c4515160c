------------------------------ MODULE PatternFile ------------------------------
(***************************************************************************)
(* The patterns on their way into the program: SnortConverter.java turns   *)
(* the lines of a text file into a binary file, and acBuildTree reads that *)
(* file back, pattern by pattern.                                          *)
(*                                                                         *)
(* A line is the sequence of its pieces: a character, or the words between *)
(* two bars.  A piece is the sequence of the numbers it stands for: the    *)
(* code of the character, or each word read as a hexadecimal number, and   *)
(* NoNumber for a word that is none.                                       *)
(***************************************************************************)
EXTENDS Integers, Sequences, SequencesExt, FiniteSetsExt

CONSTANTS
  Texts,              (* the text files, sequences of lines                *)
  MinLengths,         (* the converter's third argument                    *)
  ConverterBuffer,    (* the length of SnortConverter's buff               *)
  READ_BUFFER_SIZE,
  MAX_PATTERNS,
  CutsWithin          (* bound: bytes of a record that reach a full disk   *)

VARIABLES
  lines, minLen,
  phase,              (* "convert", "read"; "built", "exit", "overrun"     *)
  at,                 (* lines converted                                   *)
  file,               (* the bytes of the binary file                      *)
  cut,                (* the converter stopped before its last line        *)
  pos,                (* bytes read                                        *)
  patterns            (* what has been entered in the tree                 *)

vars == <<lines, minLen, phase, at, file, cut, pos, patterns>>

NoNumber == -1

TextLine == Seq(Seq(Nat \cup {NoNumber}))

(* A size takes two bytes, and no pattern is empty.                        *)
PatternInputs ==
  /\ Texts \subseteq Seq(TextLine)
  /\ MinLengths \subseteq Nat \ {0}
  /\ ConverterBuffer \in Nat /\ ConverterBuffer < 65536
  /\ READ_BUFFER_SIZE \in Nat /\ MAX_PATTERNS \in Nat /\ CutsWithin \in Nat

Init ==
  /\ lines \in Texts /\ minLen \in MinLengths
  /\ phase = "convert" /\ at = 0 /\ file = <<>> /\ cut = FALSE
  /\ pos = 0 /\ patterns = <<>>

-----------------------------------------------------------------------------
(* SnortConverter *)

Numbers(line) == FlattenSeq(line)

(* toBinary: each number is cast to a byte ... *)
toBinary(line) == LET n == Numbers(line) IN [i \in DOMAIN n |-> n[i] % 256]

(* ... and throws if a word is no number or the line does not fit.         *)
Throws(line) ==
  \/ NoNumber \in Range(Numbers(line))
  \/ Len(Numbers(line)) > ConverterBuffer

(* A bug: the size is written as one byte. *)
OneByteRecord(bytes) == <<0, Len(bytes) % 256>> \o bytes

Record(bytes) == <<Len(bytes) \div 256, Len(bytes) % 256>> \o bytes

Line == lines[at + 1]
Converting == phase = "convert" /\ at < Len(lines)
StartReading == phase' = "read" /\ UNCHANGED <<lines, minLen, pos, patterns>>

ConvertLine ==
  /\ Converting /\ ~ Throws(Line)
  /\ file' = IF Len(toBinary(Line)) < minLen THEN file ELSE file \o Record(toBinary(Line))
  /\ at' = at + 1
  /\ UNCHANGED <<lines, minLen, phase, cut, pos, patterns>>

(* main catches what toBinary throws, prints it, and closes the file.      *)
ConverterFails ==
  /\ Converting /\ Throws(Line)
  /\ cut' = TRUE
  /\ StartReading /\ UNCHANGED <<at, file>>

(* The same for a write that fails: the file ends within the record.       *)
DiskFull ==
  /\ Converting /\ ~ Throws(Line) /\ Len(toBinary(Line)) >= minLen
  /\ \E k \in 0 .. CutsWithin :
       /\ k < Len(Record(toBinary(Line)))
       /\ file' = file \o SubSeq(Record(toBinary(Line)), 1, k)
  /\ cut' = TRUE
  /\ StartReading /\ UNCHANGED at

ConverterDone ==
  /\ phase = "convert" /\ at = Len(lines)
  /\ StartReading /\ UNCHANGED <<at, file, cut>>

-----------------------------------------------------------------------------
(* acBuildTree, the loop that reads the file *)

Left == Len(file) - pos
MorePatterns == phase = "read" /\ Left > 0 /\ Len(patterns) < MAX_PATTERNS
length == (256 * file[pos + 1]) + file[pos + 2]
Got == Min({length, Left - 2})

(* buff has no place for what is read and the 0 behind it. *)
Overruns ==
  /\ Left > 1
  /\ \/ Got > READ_BUFFER_SIZE
     \/ Got = READ_BUFFER_SIZE /\ length = Got

(* The size or the pattern cannot be read, or the pattern is empty: exit.  *)
BadRecord == IF Left < 2 THEN TRUE ELSE Got < length \/ length = 0

ReadPattern ==
  /\ MorePatterns /\ ~ Overruns /\ ~ BadRecord
  /\ patterns' = Append(patterns, SubSeq(file, pos + 3, pos + 2 + Got))
  /\ pos' = pos + 2 + Got
  /\ UNCHANGED <<lines, minLen, phase, at, file, cut>>

ReadFails ==
  /\ MorePatterns
  /\ Overruns \/ BadRecord
  /\ phase' = IF Overruns THEN "overrun" ELSE "exit"
  /\ UNCHANGED <<lines, minLen, at, file, cut, pos, patterns>>

ReadDone ==
  /\ phase = "read" /\ ~ MorePatterns
  /\ phase' = "built"
  /\ UNCHANGED <<lines, minLen, at, file, cut, pos, patterns>>

Next ==
  \/ ConvertLine \/ ConverterFails \/ DiskFull \/ ConverterDone
  \/ ReadPattern \/ ReadFails \/ ReadDone

Spec == Init /\ [][Next]_vars

-----------------------------------------------------------------------------
(* Properties *)

(* The patterns the lines stand for: those that are long enough, up to the *)
(* first line that cannot be converted.                                    *)
Said ==
  LET said[n \in 0 .. Len(lines)] ==
        IF n = 0 THEN <<>>
        ELSE IF /\ \A i \in 1 .. n : ~ Throws(lines[i])
                /\ Len(toBinary(lines[n])) >= minLen
        THEN Append(said[n - 1], toBinary(lines[n])) ELSE said[n - 1]
  IN said[Len(lines)]

(* Whatever of the file reached the disk, and whatever bytes the patterns  *)
(* consist of: what is entered in the tree are patterns of the text,       *)
(* whole and in order, none left out before another.  If the converter     *)
(* came to its end and acBuildTree to its own, the tree is that of all the *)
(* patterns, or of the first MAX_PATTERNS of them; and it ends the program *)
(* only if the file was cut within a record.                               *)
PatternsArrive ==
  /\ IsPrefix(patterns, Said)
  /\ phase = "built" /\ ~ cut => patterns = SubSeq(Said, 1, Min({MAX_PATTERNS, Len(Said)}))
  /\ phase = "exit" => cut
===============================================================================
