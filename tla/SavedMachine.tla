----------------------------- MODULE SavedMachine -----------------------------
(***************************************************************************)
(* The states of a compressed machine as bytes: made (generateEmptyState,  *)
(* setStatesData), written to the three dump files and read back           *)
(* (StateMachineDumper), and asked for a next state before and after.      *)
(*                                                                         *)
(* What the states are to say comes from CompressedMachine; here it is a   *)
(* member of Machines, a record [states, first, second] of the             *)
(* descriptions of StateEncodings and the two lookup tables.               *)
(***************************************************************************)
EXTENDS StateEncodings

CONSTANTS
  Machines,
  Questions(_, _)     (* the strings a state is asked with, from index 2   *)

VARIABLES
  wanted,             (* the member of Machines                            *)
  junk,               (* what fresh memory holds                           *)
  machine, phase,
  step,               (* states handled so far in this phase               *)
  file,               (* the contents of the dump files                    *)
  at,                 (* how far the file at hand was read                 *)
  asked, answer

vars == <<wanted, junk, machine, phase, step, file, at, asked, answer>>

NoMachine == [states |-> <<>>, patterns |-> <<>>,
              firstLevelLookupTable |-> <<>>, secondLevelLookupHash |-> <<>>]
NoFiles == [states |-> <<>>, lookup |-> <<>>, patterns |-> <<>>]

(* A cell of the pattern table: a pointer to a row, NULL, or not set.      *)
Null    == [kind |-> "null", texts |-> <<>>]
Garbage == [kind |-> "garbage", texts |-> <<>>]
Row(texts) == [kind |-> "row", texts |-> texts]

Init ==
  /\ wanted \in Machines /\ junk \in {0, 255}
  /\ machine = NoMachine /\ phase = "create" /\ step = 0
  /\ file = NoFiles /\ at = 0
  /\ asked = <<>> /\ answer = <<>>

Goto(p) == phase' = p /\ step' = 0
More == step < Len(wanted.states)
OneMore == step' = step + 1 /\ UNCHANGED phase

(* generateStates has counted the pointers that are not stored. *)
Types(d) == IF d.type = STATE_TYPE_PATH_COMPRESSED THEN FailTypes(d) ELSE d.types
Levels(d) == Len(d.chars) - Cardinality(Regulars(Types(d), Len(d.chars)))

CreateState ==
  /\ phase = "create" /\ More
  /\ LET d == wanted.states[step + 1]
     IN machine' = [machine EXCEPT !.states = Append(@, generateEmptyState(d, step, Levels(d), junk))]
  /\ OneMore
  /\ UNCHANGED <<wanted, junk, file, at, asked, answer>>

(* The pattern table is not cleared when it is created. *)
StartData ==
  /\ phase = "create" /\ ~ More
  /\ machine' = [machine EXCEPT
                   !.firstLevelLookupTable = wanted.first,
                   !.secondLevelLookupHash = wanted.second,
                   !.patterns = [i \in 1 .. Len(wanted.states) |-> IF junk = 0 THEN Null ELSE Garbage]]
  /\ Goto("data")
  /\ UNCHANGED <<wanted, junk, file, at, asked, answer>>
(* setData of one state; a pointer past its memory ends the program.       *)
FillState ==
  /\ phase = "data" /\ More
  /\ LET i == step + 1
         d == wanted.states[i]
         s == setData(machine.states[i], d)
     IN IF Len(s.mem) > Len(machine.states[i])
        THEN Goto("memory_error") /\ UNCHANGED machine
        ELSE /\ machine' = [machine EXCEPT
                              !.states[i] = s.mem,
                              !.patterns[i] = IF s.row = <<>> THEN @ ELSE Row(s.row)]
             /\ OneMore
  /\ UNCHANGED <<wanted, junk, file, at, asked, answer>>

DataDone ==
  /\ phase = "data" /\ ~ More
  /\ Goto("ready")
  /\ UNCHANGED <<wanted, junk, machine, file, at, asked, answer>>

(* One step of a scan, in the machine as made or as read back.             *)
Ask ==
  /\ phase \in {"ready", "loaded"}
  /\ \E i \in DOMAIN wanted.states : \E str \in Questions(wanted, i) :
       /\ asked' = [state |-> i, str |-> str]
       /\ answer' = getNextState(machine, machine.states[i], str, 2)
  /\ Goto("asked")
  /\ UNCHANGED <<wanted, junk, machine, file, at>>

-----------------------------------------------------------------------------
(* dumpStateMachine *)

BigPtr(n) == <<Hi(n), Lo(n)>>

StartDump ==
  /\ phase = "ready"
  /\ file' = [file EXCEPT !.states = BigPtr(Len(machine.states))]
  /\ Goto("dump")
  /\ UNCHANGED <<wanted, junk, machine, at, asked, answer>>

MaxDumpedSize == 1000

DumpState ==
  /\ phase = "dump" /\ More
  /\ LET m == machine.states[step + 1]
         size == getStateSizeInBytes(m)
     IN IF size \in 1 .. MaxDumpedSize
        THEN file' = [file EXCEPT !.states = @ \o SubSeq(m, 1, size)] /\ OneMore
        ELSE Goto("dump_error") /\ UNCHANGED file
  /\ UNCHANGED <<wanted, junk, machine, at, asked, answer>>

(* The first-level table as it is in memory, then the entries of the hash  *)
(* map in the order they were put in, high byte first.                     *)
DumpFastLookup ==
  /\ phase = "dump" /\ ~ More
  /\ LET hash == machine.secondLevelLookupHash
     IN file' = [file EXCEPT !.lookup =
                   Joined([c \in 1 .. 256 |-> Ptr(machine.firstLevelLookupTable[c - 1])])
                   \o BigPtr(Len(hash))
                   \o Joined([k \in DOMAIN hash |-> BigPtr(hash[k].key) \o BigPtr(hash[k].data)])]
  /\ Goto("dump_patterns")
  /\ UNCHANGED <<wanted, junk, machine, at, asked, answer>>

RowBytes(id, texts) ==
  BigPtr(id) \o <<Lo(Len(texts))>>
  \o Joined([k \in DOMAIN texts |-> BigPtr(Len(texts[k]) + 1) \o texts[k] \o <<0>>])

(* A row whose cell was never set is followed wherever it points.          *)
DumpRow ==
  /\ phase = "dump_patterns" /\ More
  /\ LET row == machine.patterns[step + 1]
     IN \/ row.kind = "null" /\ OneMore /\ UNCHANGED file
        \/ /\ row.kind = "row" /\ OneMore
           /\ file' = [file EXCEPT !.patterns = @ \o RowBytes(step, row.texts)]
        \/ row.kind = "garbage" /\ Goto("crashed") /\ UNCHANGED file
  /\ UNCHANGED <<wanted, junk, machine, at, asked, answer>>

(* readStateMachine, in another run of the program.                        *)
StartLoad ==
  /\ phase = "dump_patterns" /\ ~ More
  /\ machine' = NoMachine
  /\ at' = 2
  /\ Goto("load")
  /\ UNCHANGED <<wanted, junk, file, asked, answer>>

(* Each state begins where the one before it says it ends.                 *)
LoadState ==
  /\ phase = "load" /\ step < BigWord(file.states, 0)
  /\ LET buff == SubSeq(file.states, at + 1, Len(file.states))
         size == getNextStatePointer(buff)
     IN /\ machine' = [machine EXCEPT !.states = Append(@, SubSeq(buff, 1, size))]
        /\ at' = at + size
  /\ OneMore
  /\ UNCHANGED <<wanted, junk, file, asked, answer>>

(* The entries are put into an empty hash map, the pattern table is clear. *)
LoadFastLookup ==
  /\ phase = "load" /\ step = BigWord(file.states, 0)
  /\ LET f == file.lookup
         entry(k) == 514 + 4 * (k - 1)
     IN machine' = [machine EXCEPT
          !.firstLevelLookupTable = [c \in 0 .. 255 |-> Word(f, 2 * c)],
          !.secondLevelLookupHash =
             [k \in 1 .. BigWord(f, 512) |->
                [key |-> BigWord(f, entry(k)), data |-> BigWord(f, entry(k) + 2)]],
          !.patterns = [i \in DOMAIN machine.states |-> Null]]
  /\ at' = 0
  /\ Goto("load_patterns")
  /\ UNCHANGED <<wanted, junk, file, asked, answer>>

(* The row that begins at index k of the patterns file: where each of its  *)
(* patterns begins, the last one being where the row ends.                 *)
Starts(f, k) ==
  LET s[n \in 0 .. f[k + 3]] ==
        IF n = 0 THEN k + 3 ELSE LET b == s[n - 1] IN b + 2 + BigWord(f, b)
  IN s

(* The heading does not lie in the file, or is not that of a state.        *)
BadHeading(f, k) == Len(f) < k + 3 \/ BigWord(f, k) >= Len(machine.states)

LoadRow ==
  /\ phase = "load_patterns" /\ at < Len(file.patterns)
  /\ ~ BadHeading(file.patterns, at)
  /\ LET f == file.patterns
         count == f[at + 3]
         s == Starts(f, at)
     IN /\ machine' = [machine EXCEPT !.patterns[BigWord(f, at) + 1] =
                         Row([n \in 1 .. count |-> SubSeq(f, s[n - 1] + 3, s[n] - 1)])]
        /\ at' = s[count]
  /\ UNCHANGED <<wanted, junk, phase, step, file, asked, answer>>

LoadError ==
  /\ phase = "load_patterns" /\ at < Len(file.patterns)
  /\ BadHeading(file.patterns, at)
  /\ Goto("load_error")
  /\ UNCHANGED <<wanted, junk, machine, file, at, asked, answer>>

LoadDone ==
  /\ phase = "load_patterns" /\ at >= Len(file.patterns)
  /\ Goto("loaded")
  /\ UNCHANGED <<wanted, junk, machine, file, at, asked, answer>>

Next ==
  \/ CreateState \/ StartData \/ FillState \/ DataDone \/ Ask
  \/ StartDump \/ DumpState \/ DumpFastLookup \/ DumpRow
  \/ StartLoad \/ LoadState \/ LoadFastLookup \/ LoadRow \/ LoadError \/ LoadDone

Spec == Init /\ [][Next]_vars

-----------------------------------------------------------------------------
(* Properties *)

(* Every state has been given the memory its data take and no more, so     *)
(* that no byte of it is left as malloc returned it, and says of itself    *)
(* what its id and its size in bytes are: the dump copies, and the reader  *)
(* skips, as many bytes as the state says.  (A state of exactly 64 gotos   *)
(* says that it has none, its size has six bits, and is not filled.)       *)
MemoryIsExact ==
  /\ phase # "memory_error"
  /\ phase = "ready" =>
       \A i \in DOMAIN wanted.states :
         LET m == machine.states[i]
             d == wanted.states[i]
             empty == generateEmptyState(d, i - 1, Levels(d), junk)
         IN /\ getStateID(m) = i - 1
            /\ getStateSizeInBytes(m) = Len(empty) /\ Len(m) = Len(empty)
            /\ Len(d.chars) # MAX_NODE_DEGREE =>
                 setData(generateEmptyState(d, i - 1, Levels(d), 255 - junk), d).mem = m

(* What the encodings cannot say, or are asked wrongly: 64 gotos; a byte   *)
(* of 128 or above in a linear encoded state; a goto to the root in a      *)
(* lookup table.                                                           *)
Encodable(d, c) ==
  /\ Len(d.chars) # MAX_NODE_DEGREE
  /\ BranchType(d) = STATE_TYPE_LINEAR_ENCODED => c < 128
  /\ BranchType(d) = STATE_TYPE_LOOKUP_TABLE =>
       \A i \in DOMAIN d.chars : d.chars[i] = c => d.ptrs[i] # 0

(* A branching state answers with the goto of the byte, its match and the  *)
(* pattern reported for it, or else with the failure.                      *)
BranchAnswer(d, c, a) ==
  /\ \A i \in DOMAIN d.chars : d.chars[i] = c =>
       /\ a.next = d.ptrs[i] /\ a.match = d.matches[i] /\ ~ a.fail /\ a.idx = 3
       /\ BranchType(d) # STATE_TYPE_LOOKUP_TABLE /\ a.match = 1 =>
            machine.patterns[asked.state].texts[a.pattern] =
              d.patterns[Cardinality({j \in 1 .. i : d.matches[j] = 1})]
  /\ c \notin ToSet(d.chars) => a.next = d.last /\ a.match = 0 /\ a.fail /\ a.idx = 2

(* A path goes on as long as the bytes are its characters, then with the   *)
(* failure of the node it has come to, or, at an end, with the next state. *)
PathAnswer(d, bytes, a) ==
  LET k == Cardinality({i \in DOMAIN bytes : IsPrefix(SubSeq(bytes, 1, i), d.chars)})
  IN /\ a.idx = 2 + k
     /\ a.match = 1 <=> \E i \in 1 .. k : d.matches[i] = 1
     /\ IF k < Len(d.chars) /\ k < Len(bytes)
        THEN a.fail /\ a.next = d.ptrs[k + 1]
        ELSE ~ a.fail /\ a.next = d.last

(* Whatever the order of the gotos, however many pointers are left to the  *)
(* lookup tables and wherever an element crosses a byte, each encoding     *)
(* answers what the state was told to, also after a dump and a load.       *)
AnswerIsRight ==
  phase = "asked" =>
    LET d == wanted.states[asked.state]
        bytes == SubSeq(asked.str, 3, Len(asked.str))
    IN IF d.type = STATE_TYPE_PATH_COMPRESSED THEN PathAnswer(d, bytes, answer)
       ELSE Encodable(d, bytes[1]) => BranchAnswer(d, bytes[1], answer)

(* A dump that comes to its end and is read back gives the same machine:   *)
(* every state byte by byte, both lookup tables and every pattern row.     *)
(* Only a row of more than 255 patterns cannot be read back: the count is  *)
(* written as one byte.                                                    *)
ReloadedIsSame ==
  /\ phase = "load_error" => \E i \in DOMAIN wanted.states : Len(wanted.states[i].patterns) > 255
  /\ phase = "loaded" =>
    /\ machine.firstLevelLookupTable = wanted.first
    /\ machine.secondLevelLookupHash = wanted.second
    /\ Len(machine.states) = Len(wanted.states)
    /\ \A i \in DOMAIN wanted.states :
         LET d == wanted.states[i]
             s == setData(generateEmptyState(d, i - 1, Levels(d), junk), d)
         IN /\ machine.states[i] = s.mem
            /\ machine.patterns[i] = IF s.row = <<>> THEN Null ELSE Row(s.row)

(* What is dumped is what was allocated, and what is read back is what was *)
(* dumped.                                                                 *)
SavedExactly == MemoryIsExact /\ ReloadedIsSame
===============================================================================
