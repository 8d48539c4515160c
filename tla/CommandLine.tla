----------------------------- MODULE CommandLine -----------------------------
(***************************************************************************)
(* Main.c: the arguments are read one by one, checked together, and decide *)
(* which machines are made and what is done with them.  Either build:      *)
(* HYBRID_SCANNER defined or not.                                          *)
(*                                                                         *)
(* An argument is its option, the separator it has or lacks, and what is   *)
(* behind it, kept where something depends on it: the text of the          *)
(* thresholds.                                                             *)
(***************************************************************************)
EXTENDS Integers, Sequences, SequencesExt

CONSTANTS
  StringOptions, NumericOptions, BooleanOptions,
  NUM_OF_OPTIONS,
  Thresholds               (* what may follow -A: sequences of numbers and "," *)

Comma == ","
Zero == "0"

(* The thresholds are numbers, separated by commas.                        *)
Separated(t) == \A n \in DOMAIN t : t[n] = Comma <=> n % 2 = 0

CommandInputs == Thresholds \subseteq {t \in Seq(STRING) : Separated(t)}

Options == StringOptions \union NumericOptions \union BooleanOptions

VARIABLES
  hybrid,         (* the build                                             *)
  argc, options,  (* the arguments read so far, and the program's name     *)
  text,           (* paths[IDX_THRESHOLDS], empty: NULL                    *)
  machine, tableMachine,
  thresholds,
  doing           (* "reading", "making", "using"; "usage" is the end, ... *)

vars == <<hybrid, argc, options, text, machine, tableMachine, thresholds, doing>>

Init ==
  /\ hybrid \in BOOLEAN
  /\ argc = 1 /\ options = {}
  /\ text = <<>>
  /\ machine = "none" /\ tableMachine = "none" /\ thresholds = <<>>
  /\ doing = "reading"

showUsage == doing' = "usage" /\ UNCHANGED <<hybrid, text, machine, tableMachine, thresholds>>

(* Lines 197-289: an argument.  A text for a string or numeric option has  *)
(* to have its separator.                                                  *)
ReadArgument ==
  /\ doing = "reading" /\ argc < NUM_OF_OPTIONS
  /\ argc' = argc + 1
  /\ \E o \in Options :
       /\ options' = options \union {o}
       /\ text' \in IF o = "A" THEN Thresholds ELSE {text}
  /\ UNCHANGED <<hybrid, machine, tableMachine, thresholds, doing>>

ReadBadArgument ==
  /\ doing = "reading"
  /\ showUsage
  /\ UNCHANGED <<argc, options>>

has(o) == o \in options

(* Lines 138-144 *)
FullTableValid ==
  has("a") => has("s") /\ ~ has("c") /\ ~ has("d") /\ (hybrid \/ ~ has("r"))

(* A bug: -d may come with -s.                                             *)
DumpOfCreated == has("d") => has("c")

(* Lines 126 and 130 *)
DumpValid == has("d") => has("c") /\ ~ has("s")

checkOptionsValidity ==
  /\ has("c") \/ has("r") \/ has("a")
  /\ has("c") \/ has("d") => ~ has("r")
  /\ DumpValid
  /\ has("l") \/ has("b") => has("c")
  /\ has("v") \/ has("m") => has("s")
  /\ FullTableValid
  /\ has("f") => has("a")

(* Lines 187 and 290: the number of arguments is tested before they are    *)
(* read, which changes nothing.                                            *)
EndOfArguments ==
  /\ doing = "reading"
  /\ IF argc >= 3 /\ argc < NUM_OF_OPTIONS /\ checkOptionsValidity
       THEN doing' = "making" /\ UNCHANGED <<hybrid, text, machine, tableMachine, thresholds>>
       ELSE showUsage
  /\ UNCHANGED <<argc, options>>

(* Lines 331-349 *)
MakeMachines ==
  /\ doing = "making"
  /\ IF hybrid
       THEN /\ machine' = IF has("c") \/ (has("r") /\ has("a")) THEN "compressed" ELSE "none"
            /\ tableMachine' = IF ~ has("c") /\ has("r") /\ has("a") THEN "table" ELSE "none"
       ELSE /\ machine' = IF has("c") \/ has("r") THEN "compressed" ELSE "table"
            /\ UNCHANGED tableMachine
  /\ doing' = "using"
  /\ UNCHANGED <<hybrid, argc, options, text, thresholds>>

(* parseThresholds: what is before a comma is stored, from the last comma  *)
(* on; the array is main's, nothing else is stored in it.                  *)
parseThresholds(t) ==
  LET out[n \in 0 .. Len(t)] ==
        IF n = 0 THEN <<>>
        ELSE IF t[n] # Comma THEN out[n - 1]
        ELSE Append(out[n - 1], IF n = 1 \/ t[n - 1] = Comma THEN Zero ELSE t[n - 1])
  IN out[Len(t)]

(* Lines 351-366: dump, or scan; strcpy from NULL ends the process.        *)
Use ==
  /\ doing = "using"
  /\ \/ /\ has("d") /\ doing' = "dumped" /\ UNCHANGED thresholds
     \/ /\ ~ has("d") /\ ~ has("s") /\ doing' = "made" /\ UNCHANGED thresholds
     \/ /\ ~ has("d") /\ has("s") /\ ~ hybrid /\ doing' = "scanned" /\ UNCHANGED thresholds
     \/ /\ ~ has("d") /\ has("s") /\ hybrid /\ tableMachine = "none"
        /\ doing' = "error" /\ UNCHANGED thresholds
     \/ /\ ~ has("d") /\ has("s") /\ hybrid /\ tableMachine # "none"
        /\ IF text = <<>> THEN doing' = "crashed" /\ UNCHANGED thresholds
           ELSE doing' = "scanned" /\ thresholds' = parseThresholds(text)
  /\ UNCHANGED <<hybrid, argc, options, text, machine, tableMachine>>

Next == ReadArgument \/ ReadBadArgument \/ EndOfArguments \/ MakeMachines \/ Use

Spec == Init /\ [][Next]_vars

-----------------------------------------------------------------------------
(* What lines 28-40 of USAGE say of the options' use together.             *)
Usage ==
  /\ has("l") \/ has("b") => has("c")                         (* 28-30     *)
  /\ has("d") => has("c")                                     (* 31        *)
  /\ has("r") => ~ has("c") /\ ~ has("d")                     (* 32        *)
  /\ has("s") => (has("c") \/ has("r") \/ has("a")) /\ ~ has("d") (* 33, 39 *)
  /\ has("m") => has("s")                                     (* 33-35     *)
  /\ has("a") => has("s") /\ ~ has("d")                       (* 38, 39    *)
  /\ has("f") => has("a")                                     (* 40        *)

(* "If compiled on HYBRID_SCANNER mode, both -a and -r must be supplied!"  *)
(* (49) is more than main asks for: it holds of a scan only.  That build   *)
(* also makes a machine with -c, and dumps it, and does nothing with -r.   *)
BothForHybridScan == hybrid /\ doing = "scanned" => has("a") /\ has("r")

(* The machine that is dumped, scanned with or destroyed is one that was   *)
(* made, and of the kind it is cast to: without HYBRID_SCANNER the pointer *)
(* is a table machine's if and only if -a was given (338, 363 and 379);    *)
(* with it both are there for a scan.                                      *)
CastsAreRight ==
  /\ doing = "dumped" => machine = "compressed"
  /\ doing \in {"dumped", "made", "scanned"} /\ ~ hybrid =>
       machine = (IF has("a") THEN "table" ELSE "compressed")
  /\ doing = "scanned" /\ hybrid => machine = "compressed" /\ tableMachine = "table"

(* The thresholds handed on are the first of those given, in order.  (The  *)
(* last one is not stored unless a comma is behind it.)                    *)
Values(t) ==
  LET f[n \in 0 .. Len(t)] == IF n = 0 THEN <<>>
                              ELSE IF t[n] # Comma THEN Append(f[n - 1], t[n]) ELSE f[n - 1]
  IN f[Len(t)]
ThresholdsAreGiven == IsPrefix(thresholds, Values(text))

Acted == doing \notin {"reading", "usage", "error"}

(* A program that does something was called as lines 28-40 of USAGE allow, *)
(* has both machines for a hybrid scan, and uses the machines and the      *)
(* thresholds that its options ask for.                                    *)
UsedConsistently ==
  Acted => Usage /\ BothForHybridScan /\ CastsAreRight /\ ThresholdsAreGiven

(* "You cannot use -c with -a or with -s" (README.md:42): no run that went *)
(* well did.                                                               *)
CreatedAlone ==
  doing \in {"dumped", "made", "scanned"} /\ has("c") => ~ has("a") /\ ~ has("s")
=============================================================================
