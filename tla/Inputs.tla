-------------------------------- MODULE Inputs --------------------------------
(***************************************************************************)
(* What is given to the program, one of three kinds in each behaviour: a   *)
(* command line ("options"), a text of patterns ("patterns"), or what      *)
(* tcpdump printed ("trace").  The variables of the others stay idle.      *)
(***************************************************************************)
EXTENDS Integers, Sequences, SequencesExt

CONSTANTS
  StringOptions, NumericOptions, BooleanOptions, NUM_OF_OPTIONS, Thresholds,
  PatternTexts, PatternCuts, MinLengths, ConverterBuffer, READ_BUFFER_SIZE, MAX_PATTERNS,
  TraceTexts, TraceCuts, Repeats, MaxPacketSize

VARIABLES
  given,
  hybrid, argc, options, text, machine, tableMachine, thresholds, doing,
  lines, minLen, phase, at, file, cut, pos, patterns,
  repeat, round, list, done, size

optionsOnly  == <<hybrid, argc, options, machine, tableMachine, thresholds, doing>>
fileVars     == <<lines, phase, at, file, cut, pos>>
patternsOnly == <<minLen, patterns>>
traceOnly    == <<repeat, round, list, done, size>>
vars == <<given, text, optionsOnly, fileVars, patternsOnly, traceOnly>>

NoOptions == /\ hybrid = FALSE /\ argc = 0 /\ options = {} /\ machine = "none"
             /\ tableMachine = "none" /\ thresholds = <<>> /\ doing = "idle"
NoFile == lines = <<>> /\ phase = "idle" /\ at = 0 /\ file = <<>> /\ cut = FALSE /\ pos = 0
NoPatterns == minLen = 0 /\ patterns = <<>>
NoTrace == repeat = 0 /\ round = 0 /\ list = <<>> /\ done = FALSE /\ size = 0

-----------------------------------------------------------------------------
Command == INSTANCE CommandLine

Patterns == INSTANCE PatternFile WITH Texts <- PatternTexts, CutsWithin <- PatternCuts

Trace == INSTANCE TraceFile WITH Texts <- TraceTexts, CutsWithin <- TraceCuts

ASSUME CommandAssumption == Command!CommandInputs
ASSUME PatternsAssumption == Patterns!PatternInputs
ASSUME TraceAssumption == Trace!TraceInputs

Init ==
  \/ given = "options"  /\ Command!Init /\ NoFile /\ NoPatterns /\ NoTrace
  \/ given = "patterns" /\ Patterns!Init /\ NoOptions /\ text = <<>> /\ NoTrace
  \/ given = "trace"    /\ Trace!Init /\ NoOptions /\ NoPatterns

Next ==
  /\ UNCHANGED given
  /\ \/ given = "options" /\ Command!Next /\ UNCHANGED <<fileVars, patternsOnly, traceOnly>>
     \/ given = "patterns" /\ Patterns!Next /\ UNCHANGED <<text, optionsOnly, traceOnly>>
     \/ given = "trace" /\ Trace!Next /\ UNCHANGED <<optionsOnly, patternsOnly>>

Spec == Init /\ [][Next]_vars

-----------------------------------------------------------------------------
(* The command lines acted on keep to USAGE's rules for single options,    *)
(* and get the machines and thresholds they ask for (CommandLine).         *)
UsedConsistently == given = "options" => Command!UsedConsistently

(* "You cannot use -c with -a or with -s" (README.md:42).                  *)
CreatedAlone == given = "options" => Command!CreatedAlone

(* The patterns of the text are those of the tree (PatternFile).           *)
PatternsArrive == given = "patterns" => Patterns!PatternsArrive

(* The packets tcpdump printed are those of the lists (TraceFile).         *)
PacketsArrive == given = "trace" => Trace!PacketsArrive
===============================================================================
