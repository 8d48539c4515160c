------------------------------ MODULE MCMachines ------------------------------
(***************************************************************************)
(* Three programs of which one runs, the one `program' says:               *)
(*   "table"   the full-table machine, for every file of at most MaxFile   *)
(*             patterns of at most MaxLength characters, up to a renaming  *)
(*             of the characters, and every packet of PacketLength bytes;  *)
(*   "simple"  the simple machine, for files of up to two patterns of up   *)
(*             to three characters, and of a character for each of three   *)
(*             to MaxGotos patterns, one of them not ASCII;                *)
(*   "saved"   the states of a compressed machine as bytes: every          *)
(*             branching state of two gotos, and of five with fewer kinds, *)
(*             every path of one and two characters, and of nine with two  *)
(*             kinds; machines of three states of all types; states at the *)
(*             limits of their encodings.                                  *)
(* The variables of the others stay idle.                                  *)
(***************************************************************************)
EXTENDS TableMachine, StateEncodings

CONSTANTS MaxLength, MaxFile, PacketLength, MaxGotos

VARIABLES
  program,
  junk, ids, states, verbose, s,
  wanted, saved, step, at, asked, answer

treeOnly   == <<count, gotos, message, failure, hasFailInto, queue>>
scanOnly   == <<packet, idx, res>>
tableOnly  == <<common, table, matches, transfer_heavy, drop, current,
                uncommon, is_heavy, last_idx_in_root, rootVisits>>
simpleOnly == <<ids, states, verbose, s>>
savedOnly  == <<wanted, saved, step, at, asked, answer>>
allVars == <<program, file, phase, junk, treeOnly, scanOnly, tableOnly, simpleOnly, savedOnly>>

NoTree == /\ count = 0 /\ gotos = <<>> /\ message = <<>> /\ failure = <<>>
          /\ hasFailInto = <<>> /\ queue = <<>>
NoScan == packet = <<>> /\ idx = 0 /\ res = 0
NoTable == /\ common = {} /\ table = <<>> /\ matches = {} /\ transfer_heavy = FALSE /\ drop = 0
           /\ current = <<>> /\ uncommon = 0 /\ is_heavy = FALSE
           /\ last_idx_in_root = 0 /\ rootVisits = 0
NoSimple == ids = <<>> /\ states = <<>> /\ verbose = FALSE /\ s = 0
NoSaved == /\ wanted = <<>> /\ saved = <<>> /\ step = 0 /\ at = 0
           /\ asked = <<>> /\ answer = <<>>

-----------------------------------------------------------------------------
TableAlphabet == {1, 2}
PatternsUpTo == BoundedSeq(TableAlphabet, MaxLength) \ {<<>>}

TableFiles ==
  {f \in BoundedSeq(PatternsUpTo, MaxFile) : f # <<>> /\ IsInjective(f) /\ f[1][1] = 1}

Singletons == <<<<1>>, <<2>>, <<3>>, <<97>>, <<98>>, <<200>>>>
SimpleFiles ==
  {f \in BoundedSeq(PatternsUpTo, 2) : f # <<>>}
  \cup {SubSeq(Singletons, 1, k) \o <<<<2, 1>>, <<2, 2>>, <<2, 3>>>> : k \in 3 .. MaxGotos}

(* The kinds of a pointer: its type and whether it is a match. *)
Kind(type, match) == [type |-> type, match |-> match]
Kinds == {Kind(PTR_TYPE_REGULAR, 0), Kind(PTR_TYPE_REGULAR, 1),
          Kind(PTR_TYPE_LEVEL1, 1), Kind(PTR_TYPE_LEVEL2, 0)}
FewKinds == Kinds \ {Kind(PTR_TYPE_REGULAR, 1)}
(* setRealPointers gives a failure to the root no type of its own. *)
PathKinds == {Kind(t, b) : t \in 0 .. 3, b \in 0 .. 1}
FewPathKinds == {Kind(PTR_TYPE_REGULAR, 0), Kind(PTR_TYPE_LEVEL0, 1)}

(* The tables: a level-1 pointer by the byte b is to 300 + b, a level-2    *)
(* one to 1000 + b.  Before the string a state is asked with come 6 and 7. *)
BranchChars == <<97, 2, 200, 255, 5>>
Long(n) == [i \in 1 .. n |-> 10 + (i % 100)]
MCFirst == [c \in 0 .. 255 |-> IF c = 9 THEN 65535 ELSE 300 + c]
MCPairs == [i \in 1 .. 5 |-> <<7, BranchChars[i]>>] \o <<<<6, 7>>, <<7, 11>>>>
           \o [i \in 1 .. 9 |-> <<10 + i, 11 + i>>]
MCSecond == [i \in DOMAIN MCPairs |->
               [key |-> 256 * MCPairs[i][1] + MCPairs[i][2], data |-> 1000 + MCPairs[i][2]]]

PtrTo(kind, i, b) == CASE kind.type = PTR_TYPE_REGULAR -> 258 + i
                       [] kind.type = PTR_TYPE_LEVEL0 -> 0
                       [] kind.type = PTR_TYPE_LEVEL1 -> 300 + b
                       [] kind.type = PTR_TYPE_LEVEL2 -> 1000 + b

Texts(k) == [n \in 1 .. Cardinality({i \in DOMAIN k : k[i].match = 1}) |-> <<64 + n, 66>>]

Branch(type, chars, k) ==
  [type |-> type, chars |-> chars, last |-> 513,
   ptrs |-> [i \in DOMAIN k |-> PtrTo(k[i], i, chars[i])],
   types |-> [i \in DOMAIN k |-> k[i].type],
   matches |-> [i \in DOMAIN k |-> k[i].match], patterns |-> Texts(k)]

CharBefore(chars, i) == IF i = 1 THEN 7 ELSE chars[i - 1]

PathState(k) ==
  LET chars == Long(Len(k))
  IN [type |-> STATE_TYPE_PATH_COMPRESSED, chars |-> chars, last |-> 770,
      ptrs |-> [i \in DOMAIN k |-> PtrTo(k[i], i, CharBefore(chars, i))],
      types |-> [i \in DOMAIN k |-> IF k[i].type = PTR_TYPE_LEVEL0
                                     THEN PTR_TYPE_REGULAR ELSE k[i].type],
      matches |-> [i \in DOMAIN k |-> k[i].match], patterns |-> Texts(k)]

(* A lookup table may also have a goto to the root. *)
TableState(k, root) ==
  LET d == Branch(STATE_TYPE_LOOKUP_TABLE, SubSeq(BranchChars, 1, 2), k)
  IN IF root THEN [d EXCEPT !.ptrs[1] = 0] ELSE d

All(kind, n) == [i \in 1 .. n |-> kind]
Regular == Kind(PTR_TYPE_REGULAR, 0)

Singles ==
  {Branch(t, SubSeq(BranchChars, 1, Len(k)), k) :
     t \in 0 .. 1, k \in [1 .. 2 -> Kinds] \cup [1 .. 5 -> FewKinds]}
  \cup {TableState(k, r) : k \in [1 .. 2 -> Kinds], r \in BOOLEAN}
  \cup {PathState(k) : k \in [1 .. 1 -> PathKinds] \cup [1 .. 2 -> PathKinds]
                              \cup [1 .. 9 -> FewPathKinds]}

Limits ==
  {Branch(t, [i \in 1 .. n |-> i - 1], All(Regular, n)) : t \in 0 .. 1, n \in 63 .. 65}
  \cup {PathState(All(Kind(PTR_TYPE_LEVEL0, 1), 257)), PathState(All(Regular, 296))}

Mixed ==
  {Branch(0, <<97, 2>>, <<Regular, Kind(PTR_TYPE_LEVEL1, 1)>>),
   Branch(1, <<97, 2>>, <<Kind(PTR_TYPE_REGULAR, 1), Kind(PTR_TYPE_LEVEL1, 1)>>),
   TableState(<<Regular, Kind(PTR_TYPE_REGULAR, 1)>>, FALSE),
   PathState(<<Regular, Kind(PTR_TYPE_LEVEL2, 1)>>)}

SavedMachines ==
  {[states |-> m, first |-> MCFirst, second |-> MCSecond] :
     m \in [1 .. 1 -> Singles \cup Limits] \cup [1 .. 3 -> Mixed]}

(* Strings that agree with a path for k characters and end or differ.      *)
SavedQuestions(w, i) ==
  LET d == w.states[i] n == Len(d.chars)
      ks == (0 .. 9 \cup {n - 1, n}) \cap (0 .. n)
  IN IF d.type = STATE_TYPE_PATH_COMPRESSED
     THEN {<<6, 7>> \o SubSeq(d.chars, 1, k) \o <<255>> : k \in ks}
          \cup {<<6, 7>> \o SubSeq(d.chars, 1, k) : k \in ks \ {0}}
     ELSE {<<6, 7, c>> : c \in ToSet(BranchChars) \cup {8}}

-----------------------------------------------------------------------------
TablePackets == [1 .. PacketLength -> TableAlphabet]
EitherDrop == {0, 1}

ASSUME TableAssumption == TableInputs

Simple == INSTANCE SimpleMachine WITH
            Files <- SimpleFiles, AvoidFailToLeaves <- FALSE, MaxPatterns <- 9,
            Packets <- [1 .. PacketLength -> {1, 2, 97, 200}]

Saved == INSTANCE SavedMachine WITH
           machine <- saved, Machines <- SavedMachines, Questions <- SavedQuestions

AnyInit ==
  \/ program = "table" /\ TableInit /\ junk = 0 /\ NoSimple /\ NoSaved
  \/ program = "simple" /\ Simple!Init /\ NoTable /\ NoSaved
  \/ program = "saved" /\ Saved!Init
     /\ NoTree /\ NoScan /\ NoTable /\ NoSimple

AnyNext ==
  /\ UNCHANGED program
  /\ \/ program = "table" /\ TableNext /\ UNCHANGED <<junk, simpleOnly, savedOnly>>
     \/ program = "simple" /\ Simple!Next /\ UNCHANGED <<tableOnly, savedOnly>>
     \/ program = "saved" /\ Saved!Next /\ UNCHANGED <<treeOnly, scanOnly, tableOnly, simpleOnly>>

AnySpec == AnyInit /\ [][AnyNext]_allVars

-----------------------------------------------------------------------------
(* A scan has at every byte the state that the tree gives, and at the end  *)
(* the answer, in the table machine and in the simple one.                 *)
ScansAreRight ==
  /\ program = "table"  => StateIsLongestSuffix /\ ExactWhenNotNested
  /\ program = "simple" => Simple!FollowsTheTree /\ Simple!SimpleScanIsRight

(* The bytes of a state answer what it was told to (SavedMachine).         *)
AnswerIsRight == program = "saved" => Saved!AnswerIsRight

(* Memory, dump and reload agree byte by byte (SavedMachine).              *)
SavedExactly == program = "saved" => Saved!SavedExactly
===============================================================================
