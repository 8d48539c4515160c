------------------------------ MODULE InputProofs ------------------------------
(***************************************************************************)
(* Proofs about what is given to the program (Inputs): its command line,   *)
(* its patterns and its trace.                                             *)
(***************************************************************************)
EXTENDS Inputs, SumProofs, SequenceTheorems

-----------------------------------------------------------------------------
(* Functions defined by recursion over an interval. *)

Iterated(f, v, G, V, b) ==
  /\ f \in [0 .. b -> V]
  /\ f[0] = v
  /\ \A i \in 1 .. b : f[i - 1] \in V /\ f[i] = G[i][f[i - 1]]

LEMMA Recursion ==
  ASSUME NEW V, NEW v \in V, NEW b \in Nat, NEW G \in [1 .. b -> [V -> V]]
  PROVE  \E f : Iterated(f, v, G, V, b)
<1> DEFINE UpTo(f, k) == f[0] = v /\ \A i \in 1 .. k : f[i] = G[i][f[i - 1]]
           P == {k \in Nat : k <= b => \E f \in [0 .. k -> V] : UpTo(f, k)}
<1>1. 0 \in P
  <2> DEFINE f == [i \in 0 .. 0 |-> v]
  <2>1. f \in [0 .. 0 -> V] /\ UpTo(f, 0)
    OBVIOUS
  <2> QED
    BY <2>1
<1>2. ASSUME NEW k \in Nat, k \in P PROVE k + 1 \in P
  <2> SUFFICES ASSUME k + 1 <= b PROVE \E f \in [0 .. k + 1 -> V] : UpTo(f, k + 1)
    OBVIOUS
  <2>1. PICK f \in [0 .. k -> V] : UpTo(f, k)
    BY <1>2
  <2> DEFINE g == [i \in 0 .. k + 1 |-> IF i <= k THEN f[i] ELSE G[k + 1][f[k]]]
  <2>2. f[k] \in V /\ k + 1 \in 1 .. b
    OBVIOUS
  <2>3. G[k + 1][f[k]] \in V
    BY <2>2
  <2>4. g \in [0 .. k + 1 -> V] /\ g[0] = f[0] /\ g[k + 1] = G[k + 1][f[k]]
    BY <2>3
  <2>5. \A i \in 0 .. k : g[i] = f[i]
    OBVIOUS
  <2> HIDE DEF g
  <2>6. ASSUME NEW i \in 1 .. k + 1 PROVE g[i] = G[i][g[i - 1]]
    <3>1. i - 1 \in 0 .. k /\ g[i - 1] = f[i - 1]
      BY <2>5
    <3>2. CASE i = k + 1
      <4>1. i - 1 = k
        BY <3>2
      <4> QED
        BY <2>4, <3>1, <3>2, <4>1
    <3>3. CASE i # k + 1
      <4>1. i \in 1 .. k /\ i \in 0 .. k
        BY <3>3
      <4>2. f[i] = G[i][f[i - 1]] /\ g[i] = f[i]
        BY <2>1, <2>5, <4>1
      <4> QED
        BY <3>1, <4>2
    <3> QED
      BY <3>2, <3>3
  <2>7. UpTo(g, k + 1)
    BY <2>1, <2>4, <2>6
  <2> QED
    BY <2>4, <2>7
<1> HIDE DEF P
<1>3. b \in P
  BY <1>1, <1>2, Induction
<1>4. PICK f \in [0 .. b -> V] : UpTo(f, b)
  BY <1>3 DEF P
<1>5. \A i \in 1 .. b : f[i - 1] \in V
  OBVIOUS
<1> QED
  BY <1>4, <1>5 DEF Iterated

(* Sequences put together are a sequence of the same elements.             *)
LEMMA FlattenType ==
  ASSUME NEW S, NEW q \in Seq(Seq(S))
  PROVE  FlattenSeq(q) \in Seq(S)
<1> DEFINE b == Len(q)
           T == Seq(S)
           Step(s, n) == s \o q[n]
           out == CHOOSE out : out = [n \in 1 .. b |-> IF n = 1 THEN q[n] ELSE Step(out[n - 1], n)]
           G == [n \in 1 .. b |-> [s \in T |-> Step(s, n)]]
<1>0. b \in Nat /\ \A i \in 1 .. b : q[i] \in T
  OBVIOUS
<1>1. FlattenSeq(q) = IF b = 0 THEN q ELSE out[b]
  BY DEF FlattenSeq
<1>2. G \in [1 .. b -> [T -> T]]
  <2> SUFFICES ASSUME NEW s \in T, NEW n \in 1 .. b PROVE Step(s, n) \in T
    OBVIOUS
  <2>1. s \in Seq(S) /\ q[n] \in Seq(S)
    BY <1>0
  <2> QED
    BY <2>1, ConcatProperties
<1>3. PICK f : Iterated(f, <<>>, G, T, b)
  <2>1. b \in Nat /\ <<>> \in T
    OBVIOUS
  <2> HIDE DEF G, b, T
  <2> QED
    BY <1>2, <2>1, Recursion
<1>4. f \in [0 .. b -> T] /\ f[0] = <<>>
  BY <1>3 DEF Iterated
<1>5. ASSUME NEW n \in 1 .. b PROVE f[n] = Step(f[n - 1], n)
  <2>1. f[n - 1] \in T /\ f[n] = G[n][f[n - 1]]
    BY <1>3 DEF Iterated
  <2> HIDE DEF Step, T
  <2> QED
    BY <2>1
<1> DEFINE g == [n \in 1 .. b |-> f[n]]
<1>6. g = [n \in 1 .. b |-> IF n = 1 THEN q[n] ELSE Step(g[n - 1], n)]
  <2>1. ASSUME NEW n \in 1 .. b PROVE g[n] = IF n = 1 THEN q[n] ELSE Step(g[n - 1], n)
    <3>1. g[n] = Step(f[n - 1], n)
      BY <1>5
    <3>2. CASE n = 1
      <4>1. f[n - 1] = <<>>
        BY <1>4, <3>2
      <4>2. g[n] = <<>> \o q[n]
        BY <3>1, <4>1
      <4>3. q[n] \in Seq(S)
        BY <1>0
      <4>4. <<>> \o q[n] = q[n]
        BY <4>3, EmptySeq, ConcatEmptySeq
      <4> QED
        BY <3>2, <4>2, <4>4
    <3>3. CASE n # 1
      <4>1. n - 1 \in 1 .. b
        BY <1>0, <3>3
      <4>2. g[n - 1] = f[n - 1]
        BY <4>1
      <4> HIDE DEF Step, g
      <4> QED
        BY <3>1, <3>3, <4>2
    <3> QED
      BY <3>2, <3>3
  <2> HIDE DEF Step
  <2> QED
    BY <2>1
<1>7. out = [n \in 1 .. b |-> IF n = 1 THEN q[n] ELSE Step(out[n - 1], n)]
  BY <1>6, Zenon
<1> HIDE DEF out
<1> DEFINE P == {n \in Nat : n \in 1 .. b => out[n] = f[n]}
<1>8. 0 \in P
  OBVIOUS
<1>9. ASSUME NEW n \in Nat, n \in P PROVE n + 1 \in P
  <2> SUFFICES ASSUME n + 1 \in 1 .. b PROVE out[n + 1] = f[n + 1]
    OBVIOUS
  <2>1. out[n + 1] = IF n + 1 = 1 THEN q[n + 1] ELSE Step(out[n], n + 1)
    <3>1. n + 1 - 1 = n
      OBVIOUS
    <3> HIDE DEF Step
    <3>2. out[n + 1] = [m \in 1 .. b |-> IF m = 1 THEN q[m] ELSE Step(out[m - 1], m)][n + 1]
      BY <1>7
    <3> QED
      BY <3>1, <3>2
  <2>2. f[n + 1] = Step(f[n], n + 1)
    <3>1. n + 1 - 1 = n
      OBVIOUS
    <3> HIDE DEF Step
    <3> QED
      BY <1>5, <3>1
  <2>3. CASE n = 0
    <3>1. f[n] = <<>>
      BY <1>4, <2>3
    <3>2. out[n + 1] = q[n + 1] /\ f[n + 1] = <<>> \o q[n + 1]
      BY <2>1, <2>2, <2>3, <3>1
    <3>3. q[n + 1] \in Seq(S)
      BY <1>0
    <3>4. <<>> \o q[n + 1] = q[n + 1]
      BY <3>3, EmptySeq, ConcatEmptySeq
    <3> QED
      BY <3>2, <3>4
  <2>4. CASE n # 0
    <3>1. out[n] = f[n]
      BY <1>0, <1>9, <2>4
    <3> QED
      <4> HIDE DEF Step
      <4> QED
        BY <2>1, <2>2, <2>4, <3>1
  <2> QED
    BY <2>3, <2>4
<1> HIDE DEF P
<1>10. b \in P
  BY <1>0, <1>8, <1>9, Induction
<1> QED
  BY <1>0, <1>1, <1>4, <1>10 DEF P

-----------------------------------------------------------------------------
(* The thresholds *)

(* What is stored is what is before the commas, what is given is also what *)
(* is behind the last one.                                                 *)
LEMMA ThresholdsStored ==
  ASSUME NEW S, NEW t \in Seq(S), Command!Separated(t)
  PROVE  Command!parseThresholds(t) = [i \in 1 .. Len(t) \div 2 |-> t[2 * i - 1]]
<1> DEFINE b == Len(t)
           T == Seq(S \cup {Command!Zero})
           Step(s, n) == IF t[n] # Command!Comma THEN s
                         ELSE Append(s, IF n = 1 \/ t[n - 1] = Command!Comma THEN Command!Zero ELSE t[n - 1])
           out == CHOOSE out : out = [n \in 0 .. b |-> IF n = 0 THEN <<>>
                                                        ELSE Step(out[n - 1], n)]
           G == [n \in 1 .. b |-> [s \in T |-> Step(s, n)]]
           Half(n) == [i \in 1 .. n \div 2 |-> t[2 * i - 1]]
           P == {n \in Nat : n <= b => out[n] = Half(n)}
<1>0. b \in Nat /\ DOMAIN t = 1 .. b /\ \A i \in 1 .. b : t[i] \in S
  OBVIOUS
<1>1. Command!parseThresholds(t) = out[b]
  BY DEF Command!parseThresholds
<1>2. G \in [1 .. b -> [T -> T]]
  <2> SUFFICES ASSUME NEW s \in T, NEW n \in 1 .. b
               PROVE  Step(s, n) \in T
    OBVIOUS
  <2>1. n # 1 => t[n - 1] \in S
    BY <1>0
  <2> QED
    BY <2>1
<1>3. PICK f : Iterated(f, <<>>, G, T, b)
  <2>1. b \in Nat /\ <<>> \in T
    OBVIOUS
  <2> HIDE DEF G, b, T
  <2> QED
    BY <1>2, <2>1, Recursion
<1>4. ASSUME NEW n \in 1 .. b PROVE f[n] = Step(f[n - 1], n)
  <2>1. f[n - 1] \in T /\ f[n] = G[n][f[n - 1]]
    BY <1>3 DEF Iterated
  <2> HIDE DEF Step, T
  <2> QED
    BY <2>1
<1>5. f = [n \in 0 .. b |-> IF n = 0 THEN <<>> ELSE Step(f[n - 1], n)]
  <2> HIDE DEF Step
  <2>1. ASSUME NEW n \in 0 .. b PROVE f[n] = IF n = 0 THEN <<>> ELSE Step(f[n - 1], n)
    BY <1>3, <1>4 DEF Iterated
  <2> QED
    BY <1>3, <2>1 DEF Iterated
<1>6. out = [n \in 0 .. b |-> IF n = 0 THEN <<>> ELSE Step(out[n - 1], n)]
  BY <1>5, Zenon
<1> HIDE DEF out
<1>7. out[0] = <<>> /\ \A n \in 1 .. b : out[n] = Step(out[n - 1], n)
  <2> HIDE DEF b, Step
  <2> QED
    BY <1>0, <1>6
<1>8. 0 \in P
  BY <1>7
<1>9. ASSUME NEW n \in Nat, n \in P PROVE n + 1 \in P
  <2> SUFFICES ASSUME n + 1 <= b PROVE out[n + 1] = Half(n + 1)
    <3> HIDE DEF b, Half
    <3> QED
      OBVIOUS
  <2>0. n + 1 \in 1 .. b /\ n + 1 # 0 /\ n + 1 - 1 = n
    BY <1>0
  <2>1. n + 1 \in 1 .. b /\ out[n + 1] = Step(out[n], n + 1) /\ out[n] = Half(n)
    <3> HIDE DEF b, Step, Half
    <3> QED
      BY <1>0, <1>7, <1>9, <2>0
  <2>2. CASE (n + 1) % 2 # 0
    <3>1. t[n + 1] # Command!Comma /\ (n + 1) \div 2 = n \div 2
      BY <1>0, <2>1, <2>2 DEF Command!Separated
    <3> QED
      BY <2>1, <3>1
  <2>3. CASE (n + 1) % 2 = 0
    <3>0. n # 0 /\ n % 2 # 0
      BY <2>3
    <3>1. t[n + 1] = Command!Comma
      BY <1>0, <2>0, <2>3 DEF Command!Separated
    <3>2. n \in 1 .. b
      BY <1>0, <2>0, <3>0
    <3>3. n \in DOMAIN t /\ t[n] # Command!Comma
      BY <1>0, <3>0, <3>2 DEF Command!Separated
    <3>4. (n + 1) \div 2 = n \div 2 + 1 /\ 2 * (n \div 2 + 1) - 1 = n /\ n \div 2 \in Nat
      BY <2>3
    <3>5. Step(out[n], n + 1) = Append(Half(n), t[n])
      BY <2>1, <3>1, <3>3
    <3>6. Half(n + 1) = Append(Half(n), t[n])
      BY <3>4
    <3> QED
      BY <2>1, <3>5, <3>6
  <2> QED
    BY <2>2, <2>3
<1> HIDE DEF P
<1>10. b \in P
  BY <1>0, <1>8, <1>9, Induction
<1> QED
  BY <1>1, <1>10 DEF P

LEMMA ThresholdsGiven ==
  ASSUME NEW S, NEW t \in Seq(S), Command!Separated(t)
  PROVE  Command!Values(t) = [i \in 1 .. (Len(t) + 1) \div 2 |-> t[2 * i - 1]]
<1> DEFINE b == Len(t)
           T == Seq(S)
           Step(s, n) == IF t[n] # Command!Comma THEN Append(s, t[n]) ELSE s
           out == CHOOSE out : out = [n \in 0 .. b |-> IF n = 0 THEN <<>>
                                                        ELSE Step(out[n - 1], n)]
           G == [n \in 1 .. b |-> [s \in T |-> Step(s, n)]]
           Half(n) == [i \in 1 .. (n + 1) \div 2 |-> t[2 * i - 1]]
           P == {n \in Nat : n <= b => out[n] = Half(n)}
<1>0. b \in Nat /\ DOMAIN t = 1 .. b /\ \A i \in 1 .. b : t[i] \in S
  OBVIOUS
<1>1. Command!Values(t) = out[b]
  BY DEF Command!Values
<1>2. G \in [1 .. b -> [T -> T]]
  BY <1>0
<1>3. PICK f : Iterated(f, <<>>, G, T, b)
  <2>1. b \in Nat /\ <<>> \in T
    OBVIOUS
  <2> HIDE DEF G, b, T
  <2> QED
    BY <1>2, <2>1, Recursion
<1>4. ASSUME NEW n \in 1 .. b PROVE f[n] = Step(f[n - 1], n)
  <2>1. f[n - 1] \in T /\ f[n] = G[n][f[n - 1]]
    BY <1>3 DEF Iterated
  <2> HIDE DEF Step, T
  <2> QED
    BY <2>1
<1>5. f = [n \in 0 .. b |-> IF n = 0 THEN <<>> ELSE Step(f[n - 1], n)]
  <2> HIDE DEF Step
  <2>1. ASSUME NEW n \in 0 .. b PROVE f[n] = IF n = 0 THEN <<>> ELSE Step(f[n - 1], n)
    BY <1>3, <1>4 DEF Iterated
  <2> QED
    BY <1>3, <2>1 DEF Iterated
<1>6. out = [n \in 0 .. b |-> IF n = 0 THEN <<>> ELSE Step(out[n - 1], n)]
  BY <1>5, Zenon
<1> HIDE DEF out
<1>7. out[0] = <<>> /\ \A n \in 1 .. b : out[n] = Step(out[n - 1], n)
  <2> HIDE DEF b, Step
  <2> QED
    BY <1>0, <1>6
<1>8. 0 \in P
  BY <1>7
<1>9. ASSUME NEW n \in Nat, n \in P PROVE n + 1 \in P
  <2> SUFFICES ASSUME n + 1 <= b PROVE out[n + 1] = Half(n + 1)
    <3> HIDE DEF b, Half
    <3> QED
      OBVIOUS
  <2>0. n + 1 \in 1 .. b /\ n + 1 # 0 /\ n + 1 - 1 = n
    BY <1>0
  <2>1. n + 1 \in 1 .. b /\ out[n + 1] = Step(out[n], n + 1) /\ out[n] = Half(n)
    <3> HIDE DEF b, Step, Half
    <3> QED
      BY <1>0, <1>7, <1>9, <2>0
  <2>2. CASE (n + 1) % 2 = 0
    <3>1. t[n + 1] = Command!Comma /\ (n + 1 + 1) \div 2 = (n + 1) \div 2
      BY <1>0, <2>1, <2>2 DEF Command!Separated
    <3> QED
      BY <2>1, <3>1
  <2>3. CASE (n + 1) % 2 # 0
    <3>1. t[n + 1] # Command!Comma
      BY <1>0, <2>0, <2>3 DEF Command!Separated
    <3>2. /\ (n + 1 + 1) \div 2 = (n + 1) \div 2 + 1 /\ 2 * ((n + 1) \div 2 + 1) - 1 = n + 1
          /\ (n + 1) \div 2 \in Nat
      BY <2>3
    <3>3. Step(out[n], n + 1) = Append(Half(n), t[n + 1])
      BY <2>1, <3>1
    <3>4. Half(n + 1) = Append(Half(n), t[n + 1])
      BY <3>2
    <3> QED
      BY <2>1, <3>3, <3>4
  <2> QED
    BY <2>2, <2>3
<1> HIDE DEF P
<1>10. b \in P
  BY <1>0, <1>8, <1>9, Induction
<1> QED
  BY <1>1, <1>10 DEF P

LEMMA StoredAreGiven ==
  ASSUME NEW S, NEW t \in Seq(S), Command!Separated(t)
  PROVE  /\ Command!IsPrefix(Command!parseThresholds(t), Command!Values(t))
         /\ Command!IsPrefix(<<>>, Command!Values(t))
<1> DEFINE a == [i \in 1 .. Len(t) \div 2 |-> t[2 * i - 1]]
           b == [i \in 1 .. (Len(t) + 1) \div 2 |-> t[2 * i - 1]]
<1>1. Len(t) \in Nat /\ \A i \in 1 .. Len(t) : t[i] \in S
  OBVIOUS
<1>2. Len(t) \div 2 \in Nat /\ (Len(t) + 1) \div 2 \in Nat /\ Len(t) \div 2 <= (Len(t) + 1) \div 2
  BY <1>1
<1>3. a \in Seq(S) /\ b \in Seq(S) /\ Len(a) = Len(t) \div 2
        /\ Len(b) = (Len(t) + 1) \div 2
  BY <1>1, <1>2
<1>4. SubSeq(a, 1, Len(a)) = SubSeq(b, 1, Len(a))
  BY <1>2, <1>3
<1>5. SubSeq(<<>>, 1, Len(<<>>)) = SubSeq(b, 1, Len(<<>>))
  BY <1>3
<1> QED
  BY <1>2, <1>3, <1>4, <1>5, ThresholdsStored, ThresholdsGiven DEF Command!IsPrefix

(* The command line: from the end of the arguments on they are valid and   *)
(* unchanged, the machines are those MakeMachines makes of them, and       *)
(* nothing is stored before the scan.                                      *)
Acting == doing \notin {"reading", "usage"}

MachinesMade ==
  IF hybrid
    THEN /\ machine = IF Command!has("c") \/ (Command!has("r") /\ Command!has("a"))
                        THEN "compressed" ELSE "none"
         /\ tableMachine = IF ~ Command!has("c") /\ Command!has("r") /\ Command!has("a")
                             THEN "table" ELSE "none"
    ELSE machine = IF Command!has("c") \/ Command!has("r") THEN "compressed" ELSE "table"

CommandInv ==
  /\ doing \in {"reading", "usage", "making", "using", "dumped", "made", "scanned", "error",
                "crashed"}
  /\ text \in Thresholds \cup {<<>>}
  /\ Acting => Command!checkOptionsValidity
  /\ Acting /\ doing # "making" => MachinesMade
  /\ doing = "dumped" => Command!has("d")
  /\ doing = "made" => ~ Command!has("d")
  /\ doing \in {"scanned", "crashed"} => Command!has("s")
  /\ doing \in {"scanned", "crashed"} /\ hybrid => tableMachine # "none"
  /\ thresholds # <<>> =>
       doing = "scanned" /\ text # <<>> /\ thresholds = Command!parseThresholds(text)

LEMMA CommandInitInv == Command!Init => CommandInv
BY DEF Command!Init, CommandInv, Acting

LEMMA CommandStepInv == CommandInv /\ Command!Next => CommandInv'
<1> SUFFICES ASSUME CommandInv, Command!Next PROVE CommandInv'
  OBVIOUS
<1> USE DEF CommandInv, Acting, MachinesMade, Command!checkOptionsValidity, Command!has,
            Command!DumpValid, Command!FullTableValid
<1>1. CASE Command!ReadArgument
  BY <1>1 DEF Command!ReadArgument
<1>2. CASE Command!ReadBadArgument
  BY <1>2 DEF Command!ReadBadArgument, Command!showUsage
<1>3. CASE Command!EndOfArguments
  BY <1>3 DEF Command!EndOfArguments, Command!showUsage
<1>4. CASE Command!MakeMachines
  BY <1>4 DEF Command!MakeMachines
<1>5. CASE Command!Use
  BY <1>5 DEF Command!Use
<1> QED
  BY <1>1, <1>2, <1>3, <1>4, <1>5 DEF Command!Next

LEMMA CommandConsistent ==
  ASSUME CommandInv, hybrid \in BOOLEAN, Command!CommandInputs PROVE Command!UsedConsistently
<1> SUFFICES ASSUME doing \notin {"reading", "usage", "error"}
             PROVE  /\ Command!Usage /\ Command!BothForHybridScan /\ Command!CastsAreRight
                    /\ Command!ThresholdsAreGiven
  BY DEF Command!UsedConsistently, Command!Acted
<1>1. Command!checkOptionsValidity /\ Acting
  BY DEF CommandInv, Acting
<1>2. Command!Usage /\ Command!BothForHybridScan
  BY <1>1 DEF Command!checkOptionsValidity, Command!Usage, Command!BothForHybridScan, Command!has, Command!DumpValid,
              Command!FullTableValid, CommandInv, MachinesMade
<1>3. Command!CastsAreRight
  BY <1>1 DEF Command!CastsAreRight, Command!checkOptionsValidity, Command!has,
              Command!DumpValid, Command!FullTableValid, CommandInv, MachinesMade
<1>4. Command!ThresholdsAreGiven
  <2>1. text \in Thresholds \cup {<<>>}
    BY DEF CommandInv
  <2>2. \E S : text \in Seq(S) /\ Command!Separated(text)
    <3>1. CASE text = <<>>
      BY <3>1 DEF Command!Separated
    <3>2. CASE text \in Thresholds
      BY <3>2, Zenon DEF Command!CommandInputs
    <3> QED
      BY <2>1, <3>1, <3>2
  <2>3. thresholds # <<>> => thresholds = Command!parseThresholds(text)
    BY DEF CommandInv
  <2>4. /\ Command!IsPrefix(Command!parseThresholds(text), Command!Values(text))
        /\ Command!IsPrefix(<<>>, Command!Values(text))
    BY <2>2, StoredAreGiven
  <2> QED
    BY <2>3, <2>4 DEF Command!ThresholdsAreGiven
<1> QED
  BY <1>2, <1>3, <1>4

-----------------------------------------------------------------------------
(* The patterns: what is said in the text *)

Line(l) == Patterns!toBinary(l)
Counts(n) == /\ \A i \in 1 .. n : ~ Patterns!Throws(lines[i])
             /\ Len(Line(lines[n])) >= minLen

PatternSeqs == Seq(Seq(Nat))

(* What is said up to each line. *)
SaidBy(said) ==
  /\ said \in [0 .. Len(lines) -> Seq(Seq(Nat))]
  /\ said[0] = <<>>
  /\ \A n \in 1 .. Len(lines) :
       said[n] = IF Counts(n) THEN Append(said[n - 1], Line(lines[n])) ELSE said[n - 1]

PatternLines == Seq(Patterns!TextLine)

LEMMA LineType ==
  ASSUME NEW l \in Patterns!TextLine
  PROVE  Line(l) \in Seq(Nat)
<1> DEFINE n == Patterns!Numbers(l)
<1>1. n \in Seq(Nat \cup {Patterns!NoNumber})
  BY FlattenType DEF Patterns!TextLine, Patterns!Numbers, Patterns!FlattenSeq, FlattenSeq
<1>2. Line(l) = [i \in DOMAIN n |-> n[i] % 256]
  BY DEF Line, Patterns!toBinary
<1> HIDE DEF n
<1>3. DOMAIN n = 1 .. Len(n) /\ Len(n) \in Nat
  BY <1>1
<1>4. ASSUME NEW i \in 1 .. Len(n) PROVE n[i] % 256 \in Nat
  <2>1. n[i] \in Int
    BY <1>1 DEF Patterns!NoNumber
  <2> QED
    BY <2>1
<1> QED
  BY <1>2, <1>3, <1>4

LEMMA SaidMeans ==
  ASSUME lines \in PatternLines
  PROVE  \E said : SaidBy(said) /\ Patterns!Said = said[Len(lines)]
<1> DEFINE b == Len(lines)
           T == Seq(Seq(Nat))
           Step(s, n) == IF Counts(n) THEN Append(s, Line(lines[n])) ELSE s
           out == CHOOSE out : out = [n \in 0 .. b |-> IF n = 0 THEN <<>>
                                                        ELSE Step(out[n - 1], n)]
           G == [n \in 1 .. b |-> [s \in T |-> Step(s, n)]]
<1>0. b \in Nat /\ \A n \in 1 .. b : Line(lines[n]) \in Seq(Nat)
  BY LineType DEF PatternLines
<1>1. Patterns!Said = out[b]
  BY DEF Patterns!Said, Counts, Line
<1>2. G \in [1 .. b -> [T -> T]]
  <2> SUFFICES ASSUME NEW s \in T, NEW n \in 1 .. b PROVE Step(s, n) \in T
    OBVIOUS
  <2> QED
    BY <1>0
<1>3. PICK f : Iterated(f, <<>>, G, T, b)
  <2>1. b \in Nat /\ <<>> \in T
    BY <1>0
  <2> HIDE DEF G, b, T
  <2> QED
    BY <1>2, <2>1, Recursion
<1>4. f \in [0 .. b -> T] /\ f[0] = <<>>
  BY <1>3 DEF Iterated
<1>5. ASSUME NEW n \in 1 .. b PROVE f[n] = Step(f[n - 1], n)
  <2>1. f[n - 1] \in T /\ f[n] = G[n][f[n - 1]]
    BY <1>3 DEF Iterated
  <2> HIDE DEF Step, T
  <2> QED
    BY <2>1
<1>6. f = [n \in 0 .. b |-> IF n = 0 THEN <<>> ELSE Step(f[n - 1], n)]
  <2> HIDE DEF Step
  <2>1. ASSUME NEW n \in 0 .. b PROVE f[n] = IF n = 0 THEN <<>> ELSE Step(f[n - 1], n)
    BY <1>4, <1>5
  <2> QED
    BY <1>4, <2>1
<1>7. out = [n \in 0 .. b |-> IF n = 0 THEN <<>> ELSE Step(out[n - 1], n)]
  BY <1>6, Zenon
<1> DEFINE P == {n \in Nat : n <= b => out[n] = f[n]}
<1> HIDE DEF out, b, Step
<1>8. out[0] = <<>> /\ \A n \in 1 .. b : out[n] = Step(out[n - 1], n)
  BY <1>0, <1>7
<1>9. 0 \in P
  BY <1>4, <1>8
<1>10. ASSUME NEW n \in Nat, n \in P PROVE n + 1 \in P
  <2> SUFFICES ASSUME n + 1 <= b PROVE out[n + 1] = f[n + 1]
    OBVIOUS
  <2>1. n + 1 \in 1 .. b /\ n + 1 - 1 = n /\ n <= b
    BY <1>0
  <2>2. out[n + 1] = Step(out[n], n + 1) /\ f[n + 1] = Step(f[n], n + 1)
    BY <1>5, <1>8, <2>1
  <2> QED
    BY <1>10, <2>1, <2>2
<1> HIDE DEF P
<1>11. b \in P
  BY <1>0, <1>9, <1>10, Induction
<1>12. SaidBy(f)
  BY <1>4, <1>5 DEF SaidBy, b, Step
<1> QED
  BY <1>0, <1>1, <1>11, <1>12 DEF P, b

(* What is said up to a line is the beginning of all that is said.         *)
LEMMA SaidGrows ==
  ASSUME lines \in PatternLines, NEW said, SaidBy(said)
  PROVE  \A n \in 0 .. Len(lines) : \A m \in 0 .. n :
           /\ Len(said[m]) <= Len(said[n])
           /\ \A i \in 1 .. Len(said[m]) : said[n][i] = said[m][i]
<1> DEFINE b == Len(lines)
           Q(n) == \A m \in 0 .. n :
                     /\ Len(said[m]) <= Len(said[n])
                     /\ \A i \in 1 .. Len(said[m]) : said[n][i] = said[m][i]
           P == {n \in Nat : n <= b => Q(n)}
<1>0. b \in Nat /\ \A n \in 1 .. b : Line(lines[n]) \in Seq(Nat)
  BY LineType DEF PatternLines
<1>1. \A n \in 0 .. b : said[n] \in Seq(Seq(Nat)) /\ Len(said[n]) \in Nat
  BY DEF SaidBy
<1>2. 0 \in P
  BY <1>1
<1>3. ASSUME NEW n \in Nat, n \in P PROVE n + 1 \in P
  <2> SUFFICES ASSUME n + 1 <= b, NEW m \in 0 .. n + 1
               PROVE  /\ Len(said[m]) <= Len(said[n + 1])
                      /\ \A i \in 1 .. Len(said[m]) : said[n + 1][i] = said[m][i]
    OBVIOUS
  <2>1. n \in 0 .. b /\ n + 1 \in 1 .. b /\ n + 1 \in 0 .. b /\ n + 1 - 1 = n
    BY <1>0
  <2>2. said[n + 1] = IF Counts(n + 1) THEN Append(said[n], Line(lines[n + 1])) ELSE said[n]
    BY <2>1 DEF SaidBy
  <2>3. /\ Len(said[n]) <= Len(said[n + 1])
        /\ \A i \in 1 .. Len(said[n]) : said[n + 1][i] = said[n][i]
    <3>1. said[n] \in Seq(Seq(Nat)) /\ Line(lines[n + 1]) \in Seq(Nat)
      BY <1>0, <1>1, <2>1
    <3>2. CASE said[n + 1] = Append(said[n], Line(lines[n + 1]))
      BY <3>1, <3>2
    <3>3. CASE said[n + 1] = said[n]
      BY <3>1, <3>3
    <3> QED
      BY <2>2, <3>2, <3>3
  <2>4. CASE m = n + 1
    <3>1. Len(said[n + 1]) \in Nat
      BY <1>1, <2>1
    <3> QED
      BY <2>4, <3>1
  <2>5. CASE m # n + 1
    <3>1. m \in 0 .. n /\ m \in 0 .. b
      BY <1>0, <2>5
    <3>2. /\ Len(said[m]) <= Len(said[n])
          /\ \A i \in 1 .. Len(said[m]) : said[n][i] = said[m][i]
      BY <1>3, <2>1, <3>1
    <3> QED
      BY <1>1, <2>1, <2>3, <3>1, <3>2
  <2> QED
    BY <2>4, <2>5
<1> HIDE DEF Q
<1>4. \A n \in Nat : n \in P
  <2> HIDE DEF P
  <2> QED
    BY <1>2, <1>3, Induction
<1> QED
  BY <1>4 DEF Q

LEMMA SaidLengths ==
  ASSUME lines \in PatternLines, NEW said, SaidBy(said)
  PROVE  \A n \in 0 .. Len(lines) : \A i \in 1 .. Len(said[n]) : Len(said[n][i]) >= minLen
<1> DEFINE b == Len(lines)
           P == {n \in Nat : n <= b => \A i \in 1 .. Len(said[n]) : Len(said[n][i]) >= minLen}
<1>0. b \in Nat /\ \A n \in 1 .. b : Line(lines[n]) \in Seq(Nat)
  BY LineType DEF PatternLines
<1>1. \A n \in 0 .. b : said[n] \in Seq(Seq(Nat)) /\ Len(said[n]) \in Nat
  BY DEF SaidBy
<1>2. 0 \in P
  BY DEF SaidBy
<1>3. ASSUME NEW n \in Nat, n \in P PROVE n + 1 \in P
  <2> SUFFICES ASSUME n + 1 <= b, NEW i \in 1 .. Len(said[n + 1])
               PROVE  Len(said[n + 1][i]) >= minLen
    OBVIOUS
  <2>1. n \in 0 .. b /\ n + 1 \in 1 .. b /\ n + 1 - 1 = n
    BY <1>0
  <2>2. CASE said[n + 1] = said[n]
    BY <1>3, <2>1, <2>2
  <2>3. CASE Counts(n + 1) /\ said[n + 1] = Append(said[n], Line(lines[n + 1]))
    <3>1. i = Len(said[n]) + 1 => said[n + 1][i] = Line(lines[n + 1])
      BY <1>0, <1>1, <2>1, <2>3
    <3>2. i # Len(said[n]) + 1 => i \in 1 .. Len(said[n]) /\ said[n + 1][i] = said[n][i]
      BY <1>0, <1>1, <2>1, <2>3
    <3> QED
      BY <1>3, <2>1, <2>3, <3>1, <3>2 DEF Counts
  <2>4. said[n + 1] = IF Counts(n + 1) THEN Append(said[n], Line(lines[n + 1])) ELSE said[n]
    BY <2>1 DEF SaidBy
  <2> QED
    BY <2>2, <2>3, <2>4
<1>4. \A n \in Nat : n \in P
  <2> HIDE DEF P
  <2> QED
    BY <1>2, <1>3, Induction
<1> QED
  BY <1>4

LEMMA SameText ==
  ASSUME NEW said, SaidBy(said), lines' = lines, minLen' = minLen
  PROVE  SaidBy(said)'
BY DEF SaidBy, Counts, Line

-----------------------------------------------------------------------------
(* The patterns: what is in the file and in the tree *)

(* Where the records of the patterns w end, one after the other.           *)
OffsetsOf(off, w) ==
  /\ off \in [0 .. Len(w) -> Nat]
  /\ off[0] = 0
  /\ \A i \in 1 .. Len(w) : off[i] = off[i - 1] + 2 + Len(w[i])

SizeAt(o, b) == file[o + 1] = Len(b) \div 256 /\ file[o + 2] = Len(b) % 256

RecordAt(o, b) ==
  /\ o + 2 + Len(b) <= Len(file)
  /\ SizeAt(o, b)
  /\ \A j \in 1 .. Len(b) : file[o + 2 + j] = b[j]

(* The file ends within the record. *)
BrokenAt(o, b) ==
  /\ Len(file) < o + 2 + Len(b)
  /\ o + 2 <= Len(file) => SizeAt(o, b)

AllSaid(said) == said[Len(lines)]

(* The file holds n of the patterns.  If the converter came to its end     *)
(* they are all patterns, and otherwise a part of the next may follow.     *)
FileHas(said, off, n) ==
  LET w == AllSaid(said)
  IN /\ \A i \in 1 .. n : RecordAt(off[i - 1], w[i])
     /\ phase = "convert" =>
          /\ Len(file) = off[n] /\ n = Len(said[at]) /\ ~ cut
          /\ \A i \in 1 .. at : ~ Patterns!Throws(lines[i])
     /\ phase # "convert" =>
          \/ Len(file) = off[n] /\ (cut \/ n = Len(w))
          \/ cut /\ n < Len(w) /\ BrokenAt(off[n], w[n + 1])

(* The tree has some of them, the first ones, and the reader is behind.    *)
TreeHas(said, off, n) ==
  LET w == AllSaid(said)
      k == Len(patterns)
  IN /\ patterns \in PatternSeqs
     /\ k <= n /\ k <= MAX_PATTERNS
     /\ pos = off[k]
     /\ \A i \in 1 .. k : patterns[i] = w[i]
     /\ phase = "convert" => k = 0
     /\ phase = "exit" => cut
     /\ phase = "built" /\ ~ cut => k = Len(w) \/ k = MAX_PATTERNS

PatternTypes ==
  /\ lines \in PatternLines /\ minLen \in Nat \ {0}
  /\ at \in 0 .. Len(lines) /\ file \in Seq(Nat) /\ cut \in BOOLEAN

PatternsHeld(said, off, n) ==
  /\ SaidBy(said) /\ OffsetsOf(off, AllSaid(said)) /\ n \in 0 .. Len(AllSaid(said))
  /\ FileHas(said, off, n) /\ TreeHas(said, off, n)

PatternInv == PatternTypes /\ \E said, off, n : PatternsHeld(said, off, n)

LEMMA OffsetsExist ==
  ASSUME NEW w \in PatternSeqs
  PROVE  \E off : OffsetsOf(off, w)
<1> DEFINE b == Len(w)
           G == [n \in 1 .. b |-> [s \in Nat |-> s + 2 + Len(w[n])]]
<1>1. b \in Nat /\ \A n \in 1 .. b : Len(w[n]) \in Nat
  BY DEF PatternSeqs
<1>2. G \in [1 .. b -> [Nat -> Nat]]
  <2> SUFFICES ASSUME NEW n \in 1 .. b, NEW s \in Nat PROVE s + 2 + Len(w[n]) \in Nat
    OBVIOUS
  <2>1. Len(w[n]) \in Nat
    BY <1>1
  <2>2. \A x \in Nat : s + 2 + x \in Nat
    OBVIOUS
  <2> HIDE DEF b
  <2> QED
    BY <2>1, <2>2, Zenon
<1>3. PICK f : Iterated(f, 0, G, Nat, b)
  <2> HIDE DEF G, b
  <2> QED
    BY <1>1, <1>2, Recursion
<1>4. f \in [0 .. b -> Nat] /\ f[0] = 0
  BY <1>3 DEF Iterated
<1>5. ASSUME NEW i \in 1 .. b PROVE f[i] = f[i - 1] + 2 + Len(w[i])
  <2>1. f[i - 1] \in Nat /\ f[i] = G[i][f[i - 1]]
    BY <1>3 DEF Iterated
  <2> QED
    BY <2>1
<1> QED
  BY <1>4, <1>5 DEF OffsetsOf

LEMMA PatternInitInv ==
  ASSUME Patterns!PatternInputs, Patterns!Init
  PROVE  PatternInv
<1>1. PatternTypes
  <2>1. lines \in PatternTexts /\ minLen \in MinLengths /\ at = 0 /\ file = <<>> /\ cut = FALSE
    BY DEF Patterns!Init
  <2>2. lines \in PatternLines /\ minLen \in Nat \ {0}
    <3>1. PatternTexts \subseteq PatternLines
      BY DEF Patterns!PatternInputs, PatternLines
    <3>2. MinLengths \subseteq Nat \ {0}
      BY DEF Patterns!PatternInputs
    <3> QED
      BY <2>1, <3>1, <3>2
  <2>3. Len(lines) \in Nat
    BY <2>2 DEF PatternLines
  <2>4. 0 \in 0 .. Len(lines) /\ <<>> \in Seq(Nat)
    BY <2>3
  <2> QED
    BY <2>1, <2>2, <2>4, Zenon DEF PatternTypes
<1>2. PICK said : SaidBy(said)
  BY <1>1, SaidMeans DEF PatternTypes
<1>3. AllSaid(said) \in PatternSeqs /\ said[0] = <<>> /\ Len(AllSaid(said)) \in Nat
  BY <1>1, <1>2 DEF SaidBy, AllSaid, PatternTypes, PatternLines, PatternSeqs
<1>4. PICK off : OffsetsOf(off, AllSaid(said))
  BY <1>3, OffsetsExist
<1>5. off[0] = 0
  BY <1>4 DEF OffsetsOf
<1>6. at = 0 /\ file = <<>> /\ phase = "convert" /\ ~ cut /\ patterns = <<>> /\ pos = 0
  BY DEF Patterns!Init
<1>7. FileHas(said, off, 0)
  BY <1>3, <1>5, <1>6 DEF FileHas
<1>8. TreeHas(said, off, 0)
  <2>1. <<>> \in PatternSeqs /\ Len(<<>>) = 0
    BY DEF PatternSeqs
  <2>2. MAX_PATTERNS \in Nat
    BY DEF Patterns!PatternInputs
  <2> QED
    BY <1>5, <1>6, <2>1, <2>2 DEF TreeHas
<1> QED
  BY <1>1, <1>2, <1>3, <1>4, <1>7, <1>8 DEF PatternInv, PatternsHeld

(* What lies in the file before its old end stays.                         *)
LEMMA FileGrows ==
  ASSUME NEW more \in Seq(Nat), file \in Seq(Nat), file' = file \o more,
         NEW o \in Nat, NEW b \in Seq(Nat), RecordAt(o, b)
  PROVE  RecordAt(o, b)'
<1>1. /\ Len(file') = Len(file) + Len(more) /\ Len(file) \in Nat /\ Len(more) \in Nat
      /\ \A i \in 1 .. Len(file) : file'[i] = file[i]
  OBVIOUS
<1>2. Len(b) \in Nat
  OBVIOUS
<1>3. o + 1 \in 1 .. Len(file) /\ o + 2 \in 1 .. Len(file)
        /\ \A j \in 1 .. Len(b) : o + 2 + j \in 1 .. Len(file)
  <2>1. o + 2 + Len(b) <= Len(file)
    BY DEF RecordAt
  <2>2. PICK l \in Nat : l = Len(b)
    BY <1>2
  <2>3. PICK f \in Nat : f = Len(file)
    BY <1>1
  <2>4. o + 2 + l <= f
    BY <2>1, <2>2, <2>3
  <2>5. o + 1 \in 1 .. f /\ o + 2 \in 1 .. f /\ \A j \in 1 .. l : o + 2 + j \in 1 .. f
    BY <2>4
  <2> QED
    BY <2>2, <2>3, <2>5
<1> QED
  BY <1>1, <1>2, <1>3 DEF RecordAt, SizeAt

LEMMA TwoBefore ==
  ASSUME NEW S, NEW x \in S, NEW y \in S, NEW b \in Seq(S)
  PROVE  /\ <<x, y>> \o b \in Seq(S) /\ Len(<<x, y>> \o b) = 2 + Len(b)
         /\ (<<x, y>> \o b)[1] = x /\ (<<x, y>> \o b)[2] = y
         /\ \A j \in 1 .. Len(b) : (<<x, y>> \o b)[2 + j] = b[j]
<1> DEFINE h == <<x, y>>
<1>1. h \in Seq(S)
  OBVIOUS
<1>2. Len(h) = 2 /\ h[1] = x /\ h[2] = y
  OBVIOUS
<1> HIDE DEF h
<1>3. h \o b \in Seq(S) /\ Len(h \o b) = Len(h) + Len(b)
  BY <1>1
<1>4. \A i \in 1 .. Len(h) : (h \o b)[i] = h[i]
  BY <1>1
<1>5. \A i \in 1 .. Len(b) : (h \o b)[Len(h) + i] = b[i]
  BY <1>1
<1>6. (h \o b)[1] = h[1] /\ (h \o b)[2] = h[2]
  <2>1. 1 \in 1 .. Len(h) /\ 2 \in 1 .. Len(h)
    BY <1>2
  <2> QED
    BY <1>4, <2>1, Zenon
<1>7. Len(h \o b) = 2 + Len(b)
  BY <1>2, <1>3
<1>8. \A j \in 1 .. Len(b) : (h \o b)[2 + j] = b[j]
  BY <1>2, <1>5, Zenon
<1>9. (h \o b)[1] = x /\ (h \o b)[2] = y
  BY <1>2, <1>6, Zenon
<1> QED
  BY <1>3, <1>7, <1>8, <1>9, Zenon DEF h

LEMMA RecordType ==
  ASSUME NEW b \in Seq(Nat)
  PROVE  /\ Patterns!Record(b) \in Seq(Nat) /\ Len(Patterns!Record(b)) = 2 + Len(b)
         /\ Patterns!Record(b)[1] = Len(b) \div 256 /\ Patterns!Record(b)[2] = Len(b) % 256
         /\ \A j \in 1 .. Len(b) : Patterns!Record(b)[2 + j] = b[j]
<1>1. Len(b) \in Nat
  OBVIOUS
<1>2. Len(b) \div 256 \in Nat /\ Len(b) % 256 \in Nat
  BY <1>1
<1> DEFINE x == Len(b) \div 256
           y == Len(b) % 256
<1>3. Patterns!Record(b) = <<x, y>> \o b
  BY DEF Patterns!Record
<1> HIDE DEF x, y
<1>4. x \in Nat /\ y \in Nat
  BY <1>2 DEF x, y
<1>5. /\ <<x, y>> \o b \in Seq(Nat) /\ Len(<<x, y>> \o b) = 2 + Len(b)
      /\ (<<x, y>> \o b)[1] = x /\ (<<x, y>> \o b)[2] = y
      /\ \A j \in 1 .. Len(b) : (<<x, y>> \o b)[2 + j] = b[j]
  BY <1>4, TwoBefore
<1> QED
  BY <1>3, <1>5 DEF x, y

LEMMA RecordWritten ==
  ASSUME file \in Seq(Nat), NEW b \in Seq(Nat), NEW o \in Nat, o = Len(file),
         file' = file \o Patterns!Record(b)
  PROVE  RecordAt(o, b)' /\ file' \in Seq(Nat) /\ Len(file') = o + 2 + Len(b)
<1> DEFINE r == Patterns!Record(b)
<1>1. /\ r \in Seq(Nat) /\ Len(r) = 2 + Len(b)
      /\ r[1] = Len(b) \div 256 /\ r[2] = Len(b) % 256
      /\ \A j \in 1 .. Len(b) : r[2 + j] = b[j]
  BY RecordType
<1>2. r \in Seq(Nat) /\ Len(b) \in Nat
  BY <1>1
<1> HIDE DEF r
<1>3. /\ file \o r \in Seq(Nat) /\ Len(file \o r) = Len(file) + Len(r)
      /\ \A i \in 1 .. Len(r) : (file \o r)[Len(file) + i] = r[i]
  BY <1>2
<1>4. file' = file \o r
  BY DEF r
<1>5. Len(file') = o + 2 + Len(b)
  BY <1>1, <1>2, <1>3, <1>4
<1>6. file'[o + 1] = r[1] /\ file'[o + 2] = r[2]
  <2>1. 1 \in 1 .. Len(r) /\ 2 \in 1 .. Len(r)
    BY <1>1, <1>2
  <2> QED
    BY <1>3, <1>4, <2>1
<1>7. ASSUME NEW j \in 1 .. Len(b) PROVE file'[o + 2 + j] = b[j]
  <2>1. 2 + j \in 1 .. Len(r) /\ o + (2 + j) = o + 2 + j
    BY <1>1, <1>2
  <2>2. file'[o + (2 + j)] = r[2 + j]
    BY <1>3, <1>4, <2>1
  <2> QED
    BY <1>1, <2>1, <2>2
<1>8. o + 2 + Len(b) <= Len(file')
  BY <1>2, <1>5
<1>9. SizeAt(o, b)'
  BY <1>1, <1>6 DEF SizeAt
<1>10. RecordAt(o, b)'
  BY <1>7, <1>8, <1>9 DEF RecordAt
<1>11. file' \in Seq(Nat)
  BY <1>3, <1>4
<1> QED
  BY <1>5, <1>10, <1>11

LEMMA RecordBroken ==
  ASSUME file \in Seq(Nat), NEW b \in Seq(Nat), NEW o \in Nat, o = Len(file),
         NEW k \in Nat, k < Len(Patterns!Record(b)),
         file' = file \o SubSeq(Patterns!Record(b), 1, k)
  PROVE  BrokenAt(o, b)' /\ file' \in Seq(Nat)
<1> DEFINE r == Patterns!Record(b)
           q == SubSeq(r, 1, k)
<1>1. /\ r \in Seq(Nat) /\ Len(r) = 2 + Len(b)
      /\ r[1] = Len(b) \div 256 /\ r[2] = Len(b) % 256
  BY RecordType
<1>2. r \in Seq(Nat) /\ Len(r) \in Nat /\ Len(b) \in Nat /\ k < Len(r)
  BY <1>1
<1> HIDE DEF r
<1>3. q \in Seq(Nat) /\ Len(q) = k /\ \A i \in 1 .. k : q[i] = r[i]
  BY <1>2
<1>4. file' = file \o q
  BY DEF r
<1>5. q \in Seq(Nat)
  BY <1>3
<1> HIDE DEF q
<1>6. /\ file \o q \in Seq(Nat) /\ Len(file \o q) = Len(file) + Len(q)
      /\ \A i \in 1 .. Len(q) : (file \o q)[Len(file) + i] = q[i]
  BY <1>5
<1>7. Len(file') = o + k /\ k < 2 + Len(b)
  BY <1>1, <1>2, <1>3, <1>4, <1>6
<1>8. k >= 2 => file'[o + 1] = r[1] /\ file'[o + 2] = r[2]
  <2> SUFFICES ASSUME k >= 2 PROVE file'[o + 1] = r[1] /\ file'[o + 2] = r[2]
    OBVIOUS
  <2>1. 1 \in 1 .. k /\ 2 \in 1 .. k
    OBVIOUS
  <2> QED
    BY <1>3, <1>4, <1>6, <2>1
<1>9. Len(file') < o + 2 + Len(b) /\ (o + 2 <= Len(file') => k >= 2)
  BY <1>2, <1>7
<1> QED
  BY <1>1, <1>4, <1>6, <1>8, <1>9 DEF BrokenAt, SizeAt

LEMMA PatternFacts ==
  ASSUME PatternTypes, NEW said, NEW off, NEW n, PatternsHeld(said, off, n)
  PROVE  LET w == AllSaid(said) IN
         /\ Len(w) \in Nat /\ n \in 0 .. Len(w) /\ Len(patterns) \in 0 .. n
         /\ \A i \in 0 .. Len(w) : off[i] \in Nat
         /\ \A i \in 1 .. Len(w) : /\ w[i] \in Seq(Nat) /\ Len(w[i]) \in Nat \ {0}
                                  /\ off[i] = off[i - 1] + 2 + Len(w[i])
         /\ Len(file) \in Nat
<1> DEFINE w == AllSaid(said)
<1>1. lines \in PatternLines /\ Len(lines) \in Nat /\ minLen \in Nat \ {0}
  BY DEF PatternTypes, PatternLines
<1>2. SaidBy(said) /\ OffsetsOf(off, w) /\ n \in 0 .. Len(w) /\ TreeHas(said, off, n)
  BY DEF PatternsHeld
<1>3. w \in PatternSeqs
  BY <1>1, <1>2 DEF SaidBy, AllSaid, PatternSeqs
<1>4. Len(w) \in Nat /\ \A i \in 1 .. Len(w) : w[i] \in Seq(Nat)
  BY <1>3 DEF PatternSeqs
<1>5. \A i \in 1 .. Len(w) : Len(w[i]) \in Nat
  BY <1>4
<1>6. \A i \in 1 .. Len(w) : Len(w[i]) >= minLen
  <2>1. Len(lines) \in 0 .. Len(lines)
    BY <1>1
  <2>2. \A i \in 1 .. Len(said[Len(lines)]) : Len(said[Len(lines)][i]) >= minLen
    BY <1>1, <1>2, <2>1, SaidLengths
  <2> QED
    BY <2>2 DEF AllSaid
<1>7. Len(patterns) \in Nat /\ Len(patterns) <= n
  BY <1>2 DEF TreeHas, PatternSeqs
<1>8. Len(file) \in Nat
  BY DEF PatternTypes
<1> HIDE DEF w
<1>9. \A i \in 0 .. Len(w) : off[i] \in Nat
  BY <1>2 DEF OffsetsOf
<1>10. \A i \in 1 .. Len(w) : Len(w[i]) \in Nat \ {0}
  BY <1>1, <1>5, <1>6
<1>11. \A i \in 1 .. Len(w) : off[i] = off[i - 1] + 2 + Len(w[i])
  BY <1>2 DEF OffsetsOf
<1>12. Len(patterns) \in 0 .. n
  BY <1>2, <1>4, <1>7
<1> QED
  BY <1>2, <1>4, <1>8, <1>9, <1>10, <1>11, <1>12 DEF w

(* Only the line of patterns that are said changes nothing.                *)
LEMMA SameSaid ==
  ASSUME NEW said, NEW off, SaidBy(said), OffsetsOf(off, AllSaid(said)),
         lines' = lines, minLen' = minLen
  PROVE  SaidBy(said)' /\ OffsetsOf(off, AllSaid(said))' /\ AllSaid(said)' = AllSaid(said)
<1>1. AllSaid(said)' = AllSaid(said)
  BY DEF AllSaid
<1> QED
  BY <1>1, SameText DEF OffsetsOf

(* The next line is the next that is said, if it is long enough.           *)
LEMMA NextSaid ==
  ASSUME PatternTypes, NEW said, NEW off, NEW n, PatternsHeld(said, off, n),
         phase = "convert", at < Len(lines), ~ Patterns!Throws(lines[at + 1]),
         NEW b, b = Line(lines[at + 1]), NEW w, w = AllSaid(said)
  PROVE  /\ b \in Seq(Nat)
         /\ Len(b) < minLen => said[at + 1] = said[at]
         /\ ~ (Len(b) < minLen) =>
              n + 1 \in 1 .. Len(w) /\ w[n + 1] = b /\ Len(said[at + 1]) = n + 1
<1>1. /\ lines \in PatternLines /\ minLen \in Nat \ {0} /\ Len(lines) \in Nat
      /\ at \in 0 .. Len(lines)
  BY DEF PatternTypes, PatternLines
<1>2. at \in 0 .. Len(lines) /\ at + 1 \in 0 .. Len(lines) /\ at + 1 \in 1 .. Len(lines)
        /\ at + 1 - 1 = at /\ at \in Nat
  BY <1>1
<1>3. b \in Seq(Nat)
  BY <1>1, <1>2, LineType DEF PatternLines
<1>4. SaidBy(said) /\ FileHas(said, off, n)
  BY DEF PatternsHeld
<1>5. Len(w) \in Nat /\ n \in 0 .. Len(w)
  BY PatternFacts
<1>6. n = Len(said[at]) /\ \A i \in 1 .. at : ~ Patterns!Throws(lines[i])
  BY <1>4 DEF FileHas
<1>7. said[at + 1] = IF Len(b) < minLen THEN said[at] ELSE Append(said[at], b)
  <2>1. \A i \in 1 .. at + 1 : ~ Patterns!Throws(lines[i])
    BY <1>2, <1>6
  <2>2. Counts(at + 1) <=> Len(b) >= minLen
    BY <2>1 DEF Counts
  <2>3. said[at + 1] = IF Counts(at + 1) THEN Append(said[at], b) ELSE said[at]
    BY <1>2, <1>4 DEF SaidBy
  <2>4. Len(b) \in Nat
    BY <1>3
  <2> QED
    BY <1>1, <2>2, <2>3, <2>4
<1>8. CASE Len(b) < minLen
  BY <1>3, <1>7, <1>8
<1>9. CASE ~ (Len(b) < minLen)
  <2>1. said[at + 1] = Append(said[at], b)
    BY <1>7, <1>9
  <2>2. said[at] \in PatternSeqs
    BY <1>2, <1>4 DEF SaidBy, PatternSeqs
  <2>3. Len(said[at + 1]) = n + 1 /\ said[at + 1][n + 1] = b
    BY <1>3, <1>6, <2>1, <2>2 DEF PatternSeqs
  <2>4. n + 1 \in 1 .. Len(w) /\ w[n + 1] = b
    <3>1. Len(said[at + 1]) <= Len(w)
            /\ \A i \in 1 .. Len(said[at + 1]) : w[i] = said[at + 1][i]
      <4>1. Len(lines) \in 0 .. Len(lines) /\ at + 1 \in 0 .. Len(lines)
        BY <1>1, <1>2
      <4>2. w = said[Len(lines)]
        BY DEF AllSaid
      <4> QED
        BY <1>1, <1>4, <4>1, <4>2, SaidGrows
    <3>2. n + 1 \in 1 .. n + 1
      BY <1>5
    <3> QED
      BY <1>5, <2>3, <3>1, <3>2
  <2> QED
    BY <1>3, <1>9, <2>3, <2>4
<1> QED
  BY <1>8, <1>9

LEMMA ConvertLineStep ==
  ASSUME Patterns!PatternInputs, PatternInv, Patterns!ConvertLine
  PROVE  PatternInv'
<1>0. PICK b : b = Line(lines[at + 1])
  OBVIOUS
<1>1. PatternTypes
  BY DEF PatternInv
<1>2. PICK said, off, n : PatternsHeld(said, off, n)
  BY DEF PatternInv
<1>w. PICK w : w = AllSaid(said)
  OBVIOUS
<1>3. /\ phase = "convert" /\ at < Len(lines) /\ ~ Patterns!Throws(lines[at + 1])
      /\ file' = IF Len(b) < minLen THEN file ELSE file \o Patterns!Record(b)
      /\ at' = at + 1
      /\ lines' = lines /\ minLen' = minLen /\ phase' = phase /\ cut' = cut /\ pos' = pos
      /\ patterns' = patterns
  BY <1>0 DEF Patterns!ConvertLine, Patterns!Converting, Patterns!Line, Line
<1>4. /\ lines \in PatternLines /\ minLen \in Nat \ {0} /\ Len(lines) \in Nat
      /\ at \in 0 .. Len(lines) /\ file \in Seq(Nat) /\ cut \in BOOLEAN
  BY <1>1 DEF PatternTypes, PatternLines
<1>5. at \in 0 .. Len(lines) /\ at + 1 \in 0 .. Len(lines) /\ at + 1 \in 1 .. Len(lines)
        /\ at + 1 - 1 = at /\ at \in Nat
  BY <1>3, <1>4
<1>6. b \in Seq(Nat)
  BY <1>0, <1>4, <1>5, LineType DEF PatternLines
<1>7. SaidBy(said) /\ OffsetsOf(off, w) /\ FileHas(said, off, n) /\ TreeHas(said, off, n)
  BY <1>2, <1>w DEF PatternsHeld
<1>8. /\ Len(w) \in Nat /\ n \in 0 .. Len(w) /\ Len(patterns) \in 0 .. n
      /\ \A i \in 0 .. Len(w) : off[i] \in Nat
      /\ \A i \in 1 .. Len(w) : /\ w[i] \in Seq(Nat) /\ Len(w[i]) \in Nat \ {0}
                               /\ off[i] = off[i - 1] + 2 + Len(w[i])
      /\ Len(file) \in Nat
  BY <1>1, <1>2, <1>w, PatternFacts
<1>9. /\ Len(file) = off[n] /\ n = Len(said[at]) /\ ~ cut
      /\ \A i \in 1 .. at : ~ Patterns!Throws(lines[i])
      /\ \A i \in 1 .. n : RecordAt(off[i - 1], w[i])
  BY <1>3, <1>7, <1>w DEF FileHas
<1>10. /\ Len(b) < minLen => said[at + 1] = said[at]
       /\ ~ (Len(b) < minLen) =>
            n + 1 \in 1 .. Len(w) /\ w[n + 1] = b /\ Len(said[at + 1]) = n + 1
  BY <1>0, <1>1, <1>2, <1>3, <1>w, NextSaid
<1>11. SaidBy(said)' /\ OffsetsOf(off, AllSaid(said))' /\ AllSaid(said)' = w
  BY <1>3, <1>7, <1>w, SameSaid
<1>12. \A k \in 0 .. Len(w) : TreeHas(said, off, n) /\ n <= k => TreeHas(said, off, k)'
  <2> SUFFICES ASSUME NEW k \in 0 .. Len(w), n <= k PROVE TreeHas(said, off, k)'
    BY <1>7
  <2>1. Len(patterns) <= k
    BY <1>8
  <2> QED
    BY <1>3, <1>7, <1>11, <1>w, <2>1 DEF TreeHas
<1>13. \A i \in 1 .. at + 1 : ~ Patterns!Throws(lines'[i])
  BY <1>3, <1>5, <1>9
<1>14. CASE Len(b) < minLen
  <2>1. file' = file /\ said[at + 1] = said[at]
    BY <1>3, <1>10, <1>14
  <2>2. FileHas(said, off, n)'
    <3>1. \A i \in 1 .. n : RecordAt(off[i - 1], w[i])'
      BY <1>9, <2>1 DEF RecordAt, SizeAt
    <3>2. n = Len(said[at'])
      BY <1>3, <1>9, <2>1
    <3> QED
      BY <1>3, <1>9, <1>11, <1>13, <2>1, <3>1, <3>2 DEF FileHas
  <2>3. PatternTypes'
    BY <1>3, <1>4, <1>5, <2>1 DEF PatternTypes
  <2> QED
    BY <1>7, <1>8, <1>11, <1>12, <2>2, <2>3 DEF PatternInv, PatternsHeld
<1>15. CASE ~ (Len(b) < minLen)
  <2>1. file' = file \o Patterns!Record(b)
    BY <1>3, <1>15
  <2>2. Len(said[at + 1]) = n + 1
    BY <1>10, <1>15
  <2>3. n + 1 \in 1 .. Len(w) /\ w[n + 1] = b
    BY <1>10, <1>15
  <2>4. n \in 0 .. Len(w) /\ n + 1 - 1 = n /\ off[n] \in Nat
          /\ off[n + 1] = off[n] + 2 + Len(b)
    BY <1>8, <2>3
  <2>5. RecordAt(off[n], b)' /\ file' \in Seq(Nat) /\ Len(file') = off[n] + 2 + Len(b)
    BY <1>4, <1>6, <1>9, <2>1, <2>4, RecordWritten
  <2>6. ASSUME NEW i \in 1 .. n + 1 PROVE RecordAt(off[i - 1], w[i])'
    <3>1. CASE i = n + 1
      BY <2>3, <2>4, <2>5, <3>1
    <3>2. CASE i # n + 1
      <4>1. i \in 1 .. n /\ i \in 1 .. Len(w) /\ i - 1 \in 0 .. Len(w)
        BY <1>8, <3>2
      <4>2. RecordAt(off[i - 1], w[i]) /\ off[i - 1] \in Nat /\ w[i] \in Seq(Nat)
        BY <1>8, <1>9, <4>1
      <4>3. Patterns!Record(b) \in Seq(Nat)
        BY <1>6, RecordType
      <4> QED
        BY <1>4, <2>1, <4>2, <4>3, FileGrows
    <3> QED
      BY <3>1, <3>2
  <2>7. FileHas(said, off, n + 1)'
    <3>1. n + 1 = Len(said[at'])
      BY <1>3, <2>2
    <3> QED
      BY <3>1, <1>3, <1>9, <1>11, <1>13, <2>2, <2>4, <2>5, <2>6 DEF FileHas
  <2>8. PatternTypes'
    BY <1>3, <1>4, <1>5, <2>5 DEF PatternTypes
  <2>9. n + 1 \in 0 .. Len(w) /\ n <= n + 1
    BY <1>8, <2>3
  <2>10. TreeHas(said, off, n + 1)'
    BY <1>7, <1>12, <2>9
  <2> QED
    BY <1>11, <2>7, <2>8, <2>9, <2>10 DEF PatternInv, PatternsHeld
<1> QED
  BY <1>14, <1>15

(* The conversion ends: the file has what it had, and perhaps a part of    *)
(* the next pattern.                                                       *)
LEMMA StartReadingStep ==
  ASSUME PatternTypes, NEW said, NEW off, NEW n, PatternsHeld(said, off, n),
         phase = "convert", Patterns!StartReading, at' = at, cut' \in BOOLEAN, file' \in Seq(Nat),
         NEW w, w = AllSaid(said),
         \A i \in 1 .. n : RecordAt(off[i - 1], w[i])',
         \/ Len(file') = off[n] /\ (cut' \/ n = Len(w))
         \/ cut' /\ n < Len(w) /\ BrokenAt(off[n], w[n + 1])'
  PROVE  PatternInv'
<1>1. /\ lines' = lines /\ minLen' = minLen /\ phase' = "read" /\ pos' = pos
      /\ patterns' = patterns
  BY DEF Patterns!StartReading
<1>2. SaidBy(said) /\ OffsetsOf(off, w) /\ TreeHas(said, off, n) /\ n \in 0 .. Len(w)
  BY DEF PatternsHeld
<1>3. SaidBy(said)' /\ OffsetsOf(off, AllSaid(said))' /\ AllSaid(said)' = w
  BY <1>1, <1>2, SameSaid
<1>4. FileHas(said, off, n)'
  BY <1>1, <1>3 DEF FileHas
<1>5. TreeHas(said, off, n)'
  BY <1>1, <1>2, <1>3 DEF TreeHas
<1>6. PatternTypes'
  BY <1>1 DEF PatternTypes
<1> QED
  BY <1>2, <1>3, <1>4, <1>5, <1>6 DEF PatternInv, PatternsHeld

LEMMA ConversionEnds ==
  ASSUME Patterns!PatternInputs, PatternInv,
         Patterns!ConverterFails \/ Patterns!DiskFull \/ Patterns!ConverterDone
  PROVE  PatternInv'
<1>1. PatternTypes
  BY DEF PatternInv
<1>2. PICK said, off, n : PatternsHeld(said, off, n)
  BY DEF PatternInv
<1>3. PICK w : w = AllSaid(said)
  OBVIOUS
<1>4. phase = "convert"
  BY DEF Patterns!ConverterFails, Patterns!DiskFull, Patterns!ConverterDone, Patterns!Converting
<1>5. SaidBy(said) /\ OffsetsOf(off, w) /\ FileHas(said, off, n) /\ TreeHas(said, off, n)
  BY <1>2, <1>3 DEF PatternsHeld
<1>6. /\ Len(w) \in Nat /\ n \in 0 .. Len(w)
      /\ \A i \in 0 .. Len(w) : off[i] \in Nat
      /\ \A i \in 1 .. Len(w) : /\ w[i] \in Seq(Nat) /\ Len(w[i]) \in Nat \ {0}
                               /\ off[i] = off[i - 1] + 2 + Len(w[i])
      /\ Len(file) \in Nat
  BY <1>1, <1>2, <1>3, PatternFacts
<1>7. /\ Len(file) = off[n] /\ n = Len(said[at]) /\ ~ cut
      /\ \A i \in 1 .. at : ~ Patterns!Throws(lines[i])
      /\ \A i \in 1 .. n : RecordAt(off[i - 1], w[i])
  BY <1>3, <1>4, <1>5 DEF FileHas
<1>8. file \in Seq(Nat) /\ cut \in BOOLEAN
  BY <1>1 DEF PatternTypes
<1>9. ASSUME file' = file, NEW i \in 1 .. n PROVE RecordAt(off[i - 1], w[i])'
  BY <1>7, <1>9 DEF RecordAt, SizeAt
<1>10. CASE Patterns!ConverterFails
  <2>1. cut' = TRUE /\ at' = at /\ file' = file /\ Patterns!StartReading
    BY <1>10 DEF Patterns!ConverterFails
  <2>2. Len(file') = off[n]
    BY <1>7, <2>1
  <2> QED
    BY <1>1, <1>2, <1>3, <1>4, <1>8, <1>9, <2>1, <2>2, StartReadingStep
<1>11. CASE Patterns!ConverterDone
  <2>1. cut' = cut /\ at' = at /\ file' = file /\ Patterns!StartReading /\ at = Len(lines)
    BY <1>11 DEF Patterns!ConverterDone
  <2>2. Len(file') = off[n] /\ n = Len(w)
    BY <1>3, <1>7, <2>1 DEF AllSaid
  <2> QED
    BY <1>1, <1>2, <1>3, <1>4, <1>8, <1>9, <2>1, <2>2, StartReadingStep
<1>12. CASE Patterns!DiskFull
  <2>1. PICK b : b = Line(lines[at + 1])
    OBVIOUS
  <2>2. /\ at < Len(lines) /\ ~ Patterns!Throws(lines[at + 1]) /\ Len(b) >= minLen
        /\ cut' = TRUE /\ at' = at /\ Patterns!StartReading
        /\ \E k \in 0 .. PatternCuts :
             /\ k < Len(Patterns!Record(b))
             /\ file' = file \o SubSeq(Patterns!Record(b), 1, k)
    BY <1>12, <2>1 DEF Patterns!DiskFull, Patterns!Converting, Patterns!Line, Line
  <2>3. PICK k \in 0 .. PatternCuts :
          /\ k < Len(Patterns!Record(b))
          /\ file' = file \o SubSeq(Patterns!Record(b), 1, k)
    BY <2>2
  <2>4. b \in Seq(Nat) /\ (~ (Len(b) < minLen) => n + 1 \in 1 .. Len(w) /\ w[n + 1] = b)
    BY <1>1, <1>2, <1>3, <1>4, <2>1, <2>2, NextSaid
  <2>5. n + 1 \in 1 .. Len(w) /\ w[n + 1] = b
    <3>1. Len(b) \in Nat /\ minLen \in Nat
      BY <1>1, <2>4 DEF PatternTypes
    <3> QED
      BY <2>2, <2>4, <3>1
  <2>6. off[n] \in Nat /\ n < Len(w) /\ k \in Nat
    BY <1>6, <2>3, <2>5
  <2>7. BrokenAt(off[n], b)' /\ file' \in Seq(Nat)
    BY <1>7, <1>8, <2>3, <2>4, <2>6, RecordBroken
  <2>8. SubSeq(Patterns!Record(b), 1, k) \in Seq(Nat)
    <3>1. Patterns!Record(b) \in Seq(Nat)
      BY <2>4, RecordType
    <3>2. Len(Patterns!Record(b)) \in Nat
      BY <3>1
    <3> HIDE DEF Patterns!Record
    <3>3. \A i \in 1 .. k : Patterns!Record(b)[i] \in Nat
      BY <2>3, <2>6, <3>1, <3>2
    <3> QED
      BY <2>6, <3>3
  <2>9. ASSUME NEW i \in 1 .. n PROVE RecordAt(off[i - 1], w[i])'
    <3>1. i \in 1 .. Len(w) /\ i - 1 \in 0 .. Len(w)
      BY <1>6
    <3>2. RecordAt(off[i - 1], w[i]) /\ off[i - 1] \in Nat /\ w[i] \in Seq(Nat)
      BY <1>6, <1>7, <3>1
    <3> QED
      BY <1>8, <2>3, <2>8, <3>2, FileGrows
  <2>10. BrokenAt(off[n], w[n + 1])'
    BY <2>5, <2>7
  <2> QED
    BY <1>1, <1>2, <1>3, <1>4, <2>2, <2>6, <2>7, <2>9, <2>10, StartReadingStep
<1> QED
  BY <1>10, <1>11, <1>12

-----------------------------------------------------------------------------
(* The patterns: how the file is read *)

LEMMA LesserOfTwo ==
  ASSUME NEW a \in Int, NEW b \in Int
  PROVE  Patterns!Min({a, b}) = IF a <= b THEN a ELSE b
<1> DEFINE m == IF a <= b THEN a ELSE b
<1>1. m \in {a, b} /\ \A y \in {a, b} : m <= y
  OBVIOUS
<1>2. \A x \in {a, b} : (\A y \in {a, b} : x <= y) => x = m
  OBVIOUS
<1> HIDE DEF m
<1>3. Patterns!Min({a, b}) = CHOOSE x \in {a, b} : \A y \in {a, b} : x <= y
  BY DEF Patterns!Min
<1>4. (CHOOSE x \in {a, b} : \A y \in {a, b} : x <= y) = m
  BY <1>1, <1>2
<1> QED
  BY <1>3, <1>4 DEF m

(* Where the reader stands is a whole record, or the file was cut there.   *)
LEMMA AtRecord ==
  ASSUME PatternTypes, NEW said, NEW off, NEW n, PatternsHeld(said, off, n),
         phase = "read", Patterns!Left > 0, NEW w, w = AllSaid(said),
         NEW k, k = Len(patterns)
  PROVE  \/ /\ k < n /\ Patterns!Left >= 2 + Len(w[k + 1])
            /\ Patterns!length = Len(w[k + 1]) /\ Patterns!Got = Len(w[k + 1])
            /\ ~ Patterns!BadRecord
         \/ k = n /\ cut /\ Patterns!BadRecord
<1>1. /\ Len(w) \in Nat /\ n \in 0 .. Len(w) /\ k \in 0 .. n
      /\ \A i \in 0 .. Len(w) : off[i] \in Nat
      /\ \A i \in 1 .. Len(w) : /\ w[i] \in Seq(Nat) /\ Len(w[i]) \in Nat \ {0}
                               /\ off[i] = off[i - 1] + 2 + Len(w[i])
      /\ Len(file) \in Nat
  BY PatternFacts
<1>2. FileHas(said, off, n) /\ TreeHas(said, off, n)
  BY DEF PatternsHeld
<1>3. pos = off[k] /\ off[k] \in Nat
  BY <1>1, <1>2 DEF TreeHas
<1>4. Patterns!Left = Len(file) - pos
  BY DEF Patterns!Left
<1>5. PICK l : l = Len(w[k + 1])
  OBVIOUS
<1>6. 256 * (l \div 256) + (l % 256) = l \/ l \notin Nat
  OBVIOUS
<1>7. CASE k < n
  <2>1. k + 1 \in 1 .. n /\ k + 1 \in 1 .. Len(w) /\ k + 1 - 1 = k
    BY <1>1, <1>7
  <2>2. RecordAt(pos, w[k + 1])
    BY <1>2, <1>3, <2>1 DEF FileHas
  <2>3. l \in Nat \ {0}
    BY <1>1, <1>5, <2>1
  <2>4. pos + 2 + l <= Len(file) /\ file[pos + 1] = l \div 256 /\ file[pos + 2] = l % 256
    BY <1>5, <2>2 DEF RecordAt, SizeAt
  <2>5. Patterns!length = l
    BY <1>6, <2>3, <2>4 DEF Patterns!length
  <2>6. Patterns!Left >= 2 + l /\ Patterns!Left - 2 \in Int
    <3>1. PICK p \in Nat : p = pos
      BY <1>3
    <3>2. PICK f \in Nat : f = Len(file)
      BY <1>1
    <3>3. p + 2 + l <= f /\ Patterns!Left = f - p
      BY <1>4, <2>4, <3>1, <3>2
    <3> QED
      BY <2>3, <3>3
  <2>7. Patterns!Got = l
    <3>1. Patterns!Got = Patterns!Min({l, Patterns!Left - 2})
      BY <2>5 DEF Patterns!Got
    <3>2. l <= Patterns!Left - 2
      BY <1>1, <1>3, <1>4, <2>3, <2>6
    <3> HIDE DEF Patterns!Left
    <3> QED
      BY <2>3, <2>6, <3>1, <3>2, LesserOfTwo
  <2>8. ~ Patterns!BadRecord
    BY <1>1, <1>3, <1>4, <2>3, <2>5, <2>6, <2>7 DEF Patterns!BadRecord
  <2> QED
    BY <1>5, <1>7, <2>5, <2>6, <2>7, <2>8
<1>8. CASE ~ (k < n)
  <2>1. k = n
    BY <1>1, <1>8
  <2>2. Len(file) > off[n]
    BY <1>1, <1>3, <1>4, <2>1
  <2>3. cut /\ n < Len(w) /\ BrokenAt(off[n], w[n + 1])
    BY <1>2, <2>2 DEF FileHas
  <2>4. l \in Nat \ {0}
    <3>1. k + 1 \in 1 .. Len(w)
      BY <1>1, <2>1, <2>3
    <3> QED
      BY <1>1, <1>5, <3>1
  <2>5. /\ Len(file) < pos + 2 + l
        /\ pos + 2 <= Len(file) => file[pos + 1] = l \div 256 /\ file[pos + 2] = l % 256
    BY <1>3, <1>5, <2>1, <2>3 DEF BrokenAt, SizeAt
  <2>6. ASSUME Patterns!Left < 2 PROVE Patterns!BadRecord
    BY <2>6 DEF Patterns!BadRecord
  <2>7. ASSUME ~ (Patterns!Left < 2) PROVE Patterns!BadRecord
    <3>1. pos + 2 <= Len(file)
      BY <1>1, <1>3, <1>4, <2>7
    <3>2. Patterns!length = l
      BY <1>6, <2>4, <2>5, <3>1 DEF Patterns!length
    <3>3. Patterns!Left - 2 \in Int /\ Patterns!Left - 2 < l
      BY <1>1, <1>3, <1>4, <2>4, <2>5
    <3>4. Patterns!Got = Patterns!Left - 2
      <4>1. Patterns!Got = Patterns!Min({l, Patterns!Left - 2})
        BY <3>2 DEF Patterns!Got
      <4> QED
        BY <2>4, <3>3, <4>1, LesserOfTwo
    <3> QED
      BY <2>7, <3>2, <3>3, <3>4 DEF Patterns!BadRecord
  <2> QED
    BY <2>1, <2>3, <2>6, <2>7
<1> QED
  BY <1>7, <1>8

(* A part of a sequence is what its elements are.                          *)
LEMMA PartOf ==
  ASSUME NEW S, NEW s \in Seq(S), NEW b \in Seq(S), NEW m \in Nat,
         m + Len(b) <= Len(s), \A j \in 1 .. Len(b) : s[m + j] = b[j]
  PROVE  SubSeq(s, m + 1, m + Len(b)) = b
<1> DEFINE q == SubSeq(s, m + 1, m + Len(b))
<1>1. Len(b) \in Nat /\ Len(s) \in Nat
  OBVIOUS
<1>2. \A i \in m + 1 .. m + Len(b) : s[i] \in S
  BY <1>1
<1>3. m + 1 \in Int /\ m + Len(b) \in Int
  BY <1>1
<1>4. /\ q \in Seq(S)
      /\ Len(q) = IF m + 1 <= m + Len(b) THEN m + Len(b) - (m + 1) + 1 ELSE 0
      /\ \A i \in 1 .. m + Len(b) - (m + 1) + 1 : q[i] = s[m + 1 + i - 1]
  BY <1>2, <1>3, SubSeqProperties
<1> HIDE DEF q
<1>5. Len(q) = Len(b)
  BY <1>1, <1>4
<1>6. ASSUME NEW i \in 1 .. Len(b) PROVE q[i] = b[i]
  <2>1. i \in 1 .. m + Len(b) - (m + 1) + 1 /\ m + 1 + i - 1 = m + i
    BY <1>1
  <2> QED
    BY <1>4, <2>1
<1>7. q = b
  BY <1>4, <1>5, <1>6
<1> QED
  BY <1>7 DEF q

LEMMA ReadPatternStep ==
  ASSUME Patterns!PatternInputs, PatternInv, Patterns!ReadPattern
  PROVE  PatternInv'
<1>1. PatternTypes
  BY DEF PatternInv
<1>2. PICK said, off, n : PatternsHeld(said, off, n)
  BY DEF PatternInv
<1>w. PICK w : w = AllSaid(said)
  OBVIOUS
<1>k. PICK k : k = Len(patterns)
  OBVIOUS
<1>3. /\ phase = "read" /\ Patterns!Left > 0 /\ k < MAX_PATTERNS /\ ~ Patterns!BadRecord
      /\ patterns' = Append(patterns, SubSeq(file, pos + 3, pos + 2 + Patterns!Got))
      /\ pos' = pos + 2 + Patterns!Got
      /\ lines' = lines /\ minLen' = minLen /\ phase' = phase /\ at' = at /\ file' = file
      /\ cut' = cut
  BY <1>k DEF Patterns!ReadPattern, Patterns!MorePatterns
<1>4. /\ Len(w) \in Nat /\ n \in 0 .. Len(w) /\ k \in 0 .. n
      /\ \A i \in 0 .. Len(w) : off[i] \in Nat
      /\ \A i \in 1 .. Len(w) : /\ w[i] \in Seq(Nat) /\ Len(w[i]) \in Nat \ {0}
                               /\ off[i] = off[i - 1] + 2 + Len(w[i])
  BY <1>1, <1>2, <1>w, <1>k, PatternFacts
<1>5. SaidBy(said) /\ OffsetsOf(off, w) /\ FileHas(said, off, n) /\ TreeHas(said, off, n)
  BY <1>2, <1>w DEF PatternsHeld
<1>6. k < n /\ Patterns!Got = Len(w[k + 1])
  BY <1>1, <1>2, <1>3, <1>k, <1>w, AtRecord
<1>7. k + 1 \in 1 .. n /\ k + 1 \in 1 .. Len(w) /\ k + 1 - 1 = k /\ off[k] \in Nat
  BY <1>4, <1>6
<1>8. PICK b : b = w[k + 1]
  OBVIOUS
<1>9. /\ b \in Seq(Nat) /\ Len(b) \in Nat /\ off[k + 1] = off[k] + 2 + Len(b)
      /\ pos = off[k]
  BY <1>4, <1>5, <1>7, <1>8, <1>k DEF TreeHas
<1>10. RecordAt(pos, b)
  <2>1. \A i \in 1 .. n : RecordAt(off[i - 1], w[i])
    BY <1>5, <1>w DEF FileHas
  <2>2. PICK i : i = k + 1
    OBVIOUS
  <2>3. RecordAt(off[i - 1], w[i])
    BY <1>7, <2>1, <2>2
  <2>4. i - 1 = k
    BY <1>4, <2>2
  <2>5. pos = off[k] /\ b = w[i]
    BY <1>8, <1>9, <2>2
  <2> QED
    BY <2>3, <2>4, <2>5
<1>11. SubSeq(file, pos + 3, pos + 2 + Len(b)) = b
  <2>1. file \in Seq(Nat) /\ pos \in Nat
    BY <1>1, <1>7, <1>9 DEF PatternTypes
  <2>2. /\ pos + 2 + Len(b) <= Len(file)
        /\ \A j \in 1 .. Len(b) : file[pos + 2 + j] = b[j]
    BY <1>10 DEF RecordAt
  <2>3. pos + 2 \in Nat /\ pos + 2 + 1 = pos + 3
    BY <2>1
  <2>4. SubSeq(file, pos + 2 + 1, pos + 2 + Len(b)) = b
    BY <1>9, <2>1, <2>2, <2>3, PartOf
  <2> QED
    BY <2>3, <2>4
<1>12. patterns' = Append(patterns, b) /\ pos' = off[k + 1]
  BY <1>3, <1>6, <1>8, <1>9, <1>11
<1>13. patterns \in PatternSeqs
  BY <1>5 DEF TreeHas
<1>14. /\ patterns' \in PatternSeqs /\ Len(patterns') = k + 1 /\ patterns'[k + 1] = b
       /\ \A i \in 1 .. k : patterns'[i] = patterns[i]
  BY <1>9, <1>12, <1>13, <1>k DEF PatternSeqs
<1>15. \A i \in 1 .. k + 1 : patterns'[i] = w[i]
  <2>1. \A i \in 1 .. k : patterns[i] = w[i]
    BY <1>5, <1>k, <1>w DEF TreeHas
  <2>2. \A i \in 1 .. k + 1 : i = k + 1 \/ i \in 1 .. k
    BY <1>4
  <2> QED
    BY <1>8, <1>14, <2>1, <2>2
<1>16. SaidBy(said)' /\ OffsetsOf(off, AllSaid(said))' /\ AllSaid(said)' = w
  BY <1>3, <1>5, <1>w, SameSaid
<1>17. FileHas(said, off, n)'
  <2>1. \A i \in 1 .. n : RecordAt(off[i - 1], w[i]) /\ RecordAt(off[i - 1], w[i])'
    BY <1>3, <1>5, <1>w DEF FileHas, RecordAt, SizeAt
  <2>2. \/ Len(file) = off[n] /\ (cut \/ n = Len(w))
        \/ cut /\ n < Len(w) /\ BrokenAt(off[n], w[n + 1])
    BY <1>3, <1>5, <1>w DEF FileHas
  <2>3. \/ Len(file') = off[n] /\ (cut' \/ n = Len(w))
        \/ cut' /\ n < Len(w) /\ BrokenAt(off[n], w[n + 1])'
    BY <1>3, <2>2 DEF BrokenAt, SizeAt
  <2> QED
    BY <1>3, <1>16, <2>1, <2>3 DEF FileHas
<1>18. TreeHas(said, off, n)'
  <2>1. k + 1 <= n /\ k + 1 <= MAX_PATTERNS
    BY <1>3, <1>4, <1>6 DEF Patterns!PatternInputs
  <2> QED
    BY <1>3, <1>12, <1>14, <1>15, <1>16, <2>1 DEF TreeHas
<1>19. PatternTypes'
  BY <1>1, <1>3 DEF PatternTypes
<1> QED
  BY <1>4, <1>16, <1>17, <1>18, <1>19 DEF PatternInv, PatternsHeld

(* The reader comes to an end, and changes nothing but the phase.          *)
LEMMA ReadEnds ==
  ASSUME Patterns!PatternInputs, PatternInv, Patterns!ReadFails \/ Patterns!ReadDone
  PROVE  PatternInv'
<1>1. PatternTypes
  BY DEF PatternInv
<1>2. PICK said, off, n : PatternsHeld(said, off, n)
  BY DEF PatternInv
<1>w. PICK w : w = AllSaid(said)
  OBVIOUS
<1>k. PICK k : k = Len(patterns)
  OBVIOUS
<1>3. /\ phase = "read" /\ phase' \in {"overrun", "exit", "built"}
      /\ lines' = lines /\ minLen' = minLen /\ at' = at /\ file' = file
      /\ cut' = cut /\ pos' = pos /\ patterns' = patterns
  BY DEF Patterns!ReadFails, Patterns!ReadDone, Patterns!MorePatterns
<1>4. /\ Len(w) \in Nat /\ n \in 0 .. Len(w) /\ k \in 0 .. n
      /\ \A i \in 0 .. Len(w) : off[i] \in Nat
      /\ \A i \in 1 .. Len(w) : /\ w[i] \in Seq(Nat) /\ Len(w[i]) \in Nat \ {0}
                               /\ off[i] = off[i - 1] + 2 + Len(w[i])
      /\ Len(file) \in Nat
  BY <1>1, <1>2, <1>w, <1>k, PatternFacts
<1>5. SaidBy(said) /\ OffsetsOf(off, w) /\ FileHas(said, off, n) /\ TreeHas(said, off, n)
  BY <1>2, <1>w DEF PatternsHeld
<1>6. SaidBy(said)' /\ OffsetsOf(off, AllSaid(said))' /\ AllSaid(said)' = w
  BY <1>3, <1>5, <1>w, SameSaid
<1>7. FileHas(said, off, n)'
  <2>1. \A i \in 1 .. n : RecordAt(off[i - 1], w[i]) /\ RecordAt(off[i - 1], w[i])'
    BY <1>3, <1>5, <1>w DEF FileHas, RecordAt, SizeAt
  <2>2. \/ Len(file) = off[n] /\ (cut \/ n = Len(w))
        \/ cut /\ n < Len(w) /\ BrokenAt(off[n], w[n + 1])
    BY <1>3, <1>5, <1>w DEF FileHas
  <2>3. \/ Len(file') = off[n] /\ (cut' \/ n = Len(w))
        \/ cut' /\ n < Len(w) /\ BrokenAt(off[n], w[n + 1])'
    BY <1>3, <2>2 DEF BrokenAt, SizeAt
  <2> QED
    BY <1>3, <1>6, <2>1, <2>3 DEF FileHas
<1>8. phase' = "exit" => cut
  <2> SUFFICES ASSUME phase' = "exit" PROVE cut
    OBVIOUS
  <2>1. Patterns!ReadFails
    BY DEF Patterns!ReadDone
  <2>2. Patterns!Left > 0 /\ Patterns!BadRecord
    BY <2>1 DEF Patterns!ReadFails, Patterns!MorePatterns
  <2> QED
    BY <1>1, <1>2, <1>3, <1>w, <1>k, <2>2, AtRecord
<1>9. phase' = "built" /\ ~ cut => k = Len(w) \/ k = MAX_PATTERNS
  <2> SUFFICES ASSUME phase' = "built", ~ cut, k # MAX_PATTERNS PROVE k = Len(w)
    OBVIOUS
  <2>1. Patterns!ReadDone
    BY DEF Patterns!ReadFails
  <2>2. k < MAX_PATTERNS
    BY <1>4, <1>5, <1>k, <1>w DEF TreeHas, Patterns!PatternInputs
  <2>3. ~ (Patterns!Left > 0)
    BY <1>3, <1>k, <2>1, <2>2 DEF Patterns!ReadDone, Patterns!MorePatterns
  <2>4. Len(file) = off[n] /\ n = Len(w) /\ \A i \in 1 .. n : RecordAt(off[i - 1], w[i])
    BY <1>3, <1>5, <1>w DEF FileHas
  <2>5. pos = off[k] /\ off[k] \in Nat
    BY <1>4, <1>5, <1>k, <1>w DEF TreeHas
  <2>6. ASSUME k < n PROVE FALSE
    <3>1. k + 1 \in 1 .. n /\ k + 1 \in 1 .. Len(w) /\ k + 1 - 1 = k
      BY <1>4, <2>6
    <3>2. RecordAt(pos, w[k + 1]) /\ Len(w[k + 1]) \in Nat
      BY <1>4, <2>4, <2>5, <3>1
    <3>3. pos + 2 + Len(w[k + 1]) <= Len(file)
      BY <3>2 DEF RecordAt
    <3> QED
      BY <1>4, <2>3, <2>5, <3>2, <3>3 DEF Patterns!Left
  <2> QED
    BY <1>4, <2>4, <2>6
<1>10. TreeHas(said, off, n)'
  BY <1>3, <1>5, <1>6, <1>8, <1>9, <1>k, <1>w DEF TreeHas
<1>11. PatternTypes'
  BY <1>1, <1>3 DEF PatternTypes
<1> QED
  BY <1>4, <1>6, <1>7, <1>10, <1>11 DEF PatternInv, PatternsHeld

LEMMA PatternStepInv ==
  ASSUME Patterns!PatternInputs, PatternInv, Patterns!Next
  PROVE  PatternInv'
BY ConvertLineStep, ConversionEnds, ReadPatternStep, ReadEnds DEF Patterns!Next

(* What is said is determined by the text.                                 *)
LEMMA SaidOnce ==
  ASSUME lines \in PatternLines, NEW f, SaidBy(f), NEW g, SaidBy(g)
  PROVE  AllSaid(f) = AllSaid(g)
<1> DEFINE b == Len(lines)
           P == {n \in Nat : n <= b => f[n] = g[n]}
<1>0. b \in Nat
  BY DEF PatternLines
<1>1. 0 \in P
  BY DEF SaidBy
<1>2. ASSUME NEW n \in Nat, n \in P PROVE n + 1 \in P
  <2> SUFFICES ASSUME n + 1 <= b PROVE f[n + 1] = g[n + 1]
    OBVIOUS
  <2>1. n + 1 \in 1 .. b /\ n + 1 - 1 = n /\ n <= b
    BY <1>0
  <2>2. f[n] = g[n]
    BY <1>2, <2>1
  <2>3. /\ f[n + 1] = IF Counts(n + 1) THEN Append(f[n], Line(lines[n + 1])) ELSE f[n]
        /\ g[n + 1] = IF Counts(n + 1) THEN Append(g[n], Line(lines[n + 1])) ELSE g[n]
    BY <2>1 DEF SaidBy
  <2> QED
    BY <2>2, <2>3
<1> HIDE DEF P
<1>3. b \in P
  BY <1>0, <1>1, <1>2, Induction
<1> QED
  BY <1>0, <1>3 DEF P, AllSaid

LEMMA InvPatternsArrive ==
  ASSUME Patterns!PatternInputs, PatternInv
  PROVE  Patterns!PatternsArrive
<1>1. PatternTypes
  BY DEF PatternInv
<1>2. PICK said, off, n : PatternsHeld(said, off, n)
  BY DEF PatternInv
<1>w. PICK w : w = AllSaid(said)
  OBVIOUS
<1>k. PICK k : k = Len(patterns)
  OBVIOUS
<1>3. Patterns!Said = w
  <2>1. lines \in PatternLines /\ SaidBy(said)
    BY <1>1, <1>2 DEF PatternTypes, PatternsHeld
  <2>2. PICK g : SaidBy(g) /\ Patterns!Said = AllSaid(g)
    BY <2>1, SaidMeans DEF AllSaid
  <2> QED
    BY <1>w, <2>1, <2>2, SaidOnce
<1>4. Len(w) \in Nat /\ n \in 0 .. Len(w) /\ k \in 0 .. n
  BY <1>1, <1>2, <1>w, <1>k, PatternFacts
<1>5. /\ patterns \in PatternSeqs /\ k <= MAX_PATTERNS
      /\ \A i \in 1 .. k : patterns[i] = w[i]
      /\ phase = "exit" => cut
      /\ phase = "built" /\ ~ cut => k = Len(w) \/ k = MAX_PATTERNS
  BY <1>2, <1>w, <1>k DEF PatternsHeld, TreeHas
<1>6. w \in PatternSeqs
  <2>1. Len(lines) \in 0 .. Len(lines)
    BY <1>1 DEF PatternTypes, PatternLines
  <2>2. said \in [0 .. Len(lines) -> PatternSeqs]
    BY <1>2 DEF PatternsHeld, SaidBy, PatternSeqs
  <2> QED
    BY <1>w, <2>1, <2>2 DEF AllSaid
<1>7. patterns = SubSeq(w, 1, k)
  <2>1. SubSeq(w, 1, k) = [i \in 1 .. k |-> w[i]]
    BY <1>4, <1>6 DEF PatternSeqs
  <2>2. patterns = [i \in 1 .. k |-> patterns[i]]
    BY <1>5, <1>k DEF PatternSeqs
  <2> QED
    BY <1>5, <2>1, <2>2
<1>8. Patterns!IsPrefix(patterns, w)
  <2>1. SubSeq(patterns, 1, k) = patterns
    BY <1>4, <1>5, <1>k DEF PatternSeqs
  <2> QED
    BY <1>4, <1>7, <1>k, <2>1 DEF Patterns!IsPrefix
<1>9. ASSUME phase = "built", ~ cut
      PROVE  patterns = SubSeq(w, 1, Patterns!Min({MAX_PATTERNS, Len(w)}))
  <2>1. MAX_PATTERNS \in Nat
    BY DEF Patterns!PatternInputs
  <2>2. k = Patterns!Min({MAX_PATTERNS, Len(w)})
    BY <1>4, <1>5, <1>9, <2>1, LesserOfTwo
  <2> QED
    BY <1>7, <2>2
<1> QED
  BY <1>3, <1>5, <1>8, <1>9 DEF Patterns!PatternsArrive

LEMMA PatternStutter ==
  ASSUME PatternInv, UNCHANGED <<fileVars, patternsOnly>>
  PROVE  PatternInv'
<1>1. PatternTypes
  BY DEF PatternInv
<1>2. PICK said, off, n : PatternsHeld(said, off, n)
  BY DEF PatternInv
<1>3. /\ lines' = lines /\ minLen' = minLen /\ phase' = phase /\ at' = at /\ file' = file
      /\ cut' = cut /\ pos' = pos /\ patterns' = patterns
  BY DEF fileVars, patternsOnly
<1>4. SaidBy(said)' /\ OffsetsOf(off, AllSaid(said))' /\ AllSaid(said)' = AllSaid(said)
  BY <1>2, <1>3, SameSaid DEF PatternsHeld
<1>5. FileHas(said, off, n)'
  <2>1. FileHas(said, off, n)
    BY <1>2 DEF PatternsHeld
  <2>2. \A o, b : (RecordAt(o, b)' <=> RecordAt(o, b)) /\ (BrokenAt(o, b)' <=> BrokenAt(o, b))
    BY <1>3 DEF RecordAt, BrokenAt, SizeAt
  <2> QED
    BY <1>3, <1>4, <2>1, <2>2 DEF FileHas
<1>6. TreeHas(said, off, n)'
  BY <1>2, <1>3, <1>4 DEF PatternsHeld, TreeHas
<1>7. PatternTypes'
  BY <1>1, <1>3 DEF PatternTypes
<1> QED
  BY <1>2, <1>4, <1>5, <1>6, <1>7 DEF PatternInv, PatternsHeld

-----------------------------------------------------------------------------
(* The trace: what is told in the text t *)

TraceText == Seq(Trace!TextLine)
Packet == [time : Nat, bytes : Seq(Nat)]
Packets == Seq(Packet)

(* The bytes after a heading end where the next heading or the text ends.  *)
IsEnd(t, i, j) ==
  /\ j \in i .. Len(t)
  /\ \A k \in i + 1 .. j : t[k].kind = "bytes"
  /\ j < Len(t) => t[j + 1].kind # "bytes"

EndIn(t, i) == CHOOSE j \in i .. Len(t) :
                 /\ \A k \in i + 1 .. j : t[k].kind = "bytes"
                 /\ j < Len(t) => t[j + 1].kind # "bytes"

BytesIn(t, i, j) == FlattenSeq([k \in 1 .. j - i |-> t[i + k].bytes])
PacketIn(t, i) == [time |-> t[i].time \div 1000, bytes |-> BytesIn(t, i, EndIn(t, i))]
IsPacket(t, i) == t[i].kind = "ip"
IsTold(t, i) == IsPacket(t, i) /\ PacketIn(t, i).bytes # <<>>

(* What is told up to each line. *)
ToldBy(told, t) ==
  /\ told \in [0 .. Len(t) -> Packets]
  /\ told[0] = <<>>
  /\ \A n \in 1 .. Len(t) :
       told[n] = IF IsTold(t, n) THEN Append(told[n - 1], PacketIn(t, n)) ELSE told[n - 1]

(* Where the records of the packets up to each line end.                   *)
EndsOf(off, t) ==
  /\ off \in [0 .. Len(t) -> Nat]
  /\ off[0] = 0
  /\ \A n \in 1 .. Len(t) :
       off[n] = IF IsPacket(t, n) THEN off[n - 1] + 16 + Len(PacketIn(t, n).bytes)
                ELSE off[n - 1]

LEMMA EndFound ==
  ASSUME NEW t \in TraceText, NEW i \in 1 .. Len(t)
  PROVE  IsEnd(t, i, EndIn(t, i))
<1> DEFINE T == {j \in i .. Len(t) : j = Len(t) \/ t[j + 1].kind # "bytes"}
<1>1. Len(t) \in Nat
  BY DEF TraceText
<1>2. T \in SUBSET Nat /\ Len(t) \in T
  BY <1>1
<1>3. PICK j \in T : \A y \in T : j <= y
  BY <1>2, LeastElement
<1>4. \A k \in i + 1 .. j : t[k].kind = "bytes"
  <2> SUFFICES ASSUME NEW k \in i + 1 .. j, t[k].kind # "bytes" PROVE FALSE
    OBVIOUS
  <2>1. k - 1 \in i .. Len(t) /\ k - 1 + 1 = k /\ k - 1 < j
    BY <1>1
  <2>2. k - 1 \in T
    BY <2>1
  <2> HIDE DEF T
  <2>3. j <= k - 1 /\ j \in Nat /\ k \in Int
    BY <1>2, <1>3, <2>2
  <2> QED
    BY <2>1, <2>3
<1>5. IsEnd(t, i, j)
  BY <1>1, <1>3, <1>4 DEF IsEnd
<1> HIDE DEF T
<1> QED
  BY <1>5 DEF IsEnd, EndIn

LEMMA EndOnce ==
  ASSUME NEW t \in TraceText, NEW i \in 1 .. Len(t), NEW j, IsEnd(t, i, j)
  PROVE  EndIn(t, i) = j
<1>1. ASSUME NEW a, NEW b, IsEnd(t, i, a), IsEnd(t, i, b), a < b PROVE FALSE
  <2>1. Len(t) \in Nat /\ a \in i .. Len(t) /\ b \in i .. Len(t)
    BY <1>1 DEF TraceText, IsEnd
  <2>2. a + 1 \in i + 1 .. b /\ a < Len(t)
    BY <1>1, <2>1
  <2> QED
    BY <1>1, <2>2 DEF IsEnd
<1>2. IsEnd(t, i, EndIn(t, i))
  BY EndFound
<1>3. j \in Int /\ EndIn(t, i) \in Int
  <2>1. Len(t) \in Nat /\ j \in i .. Len(t) /\ EndIn(t, i) \in i .. Len(t)
    BY <1>2 DEF IsEnd, TraceText
  <2> QED
    BY <2>1
<1>4. ~ (j < EndIn(t, i)) /\ ~ (EndIn(t, i) < j)
  BY <1>1, <1>2
<1> QED
  BY <1>3, <1>4

LEMMA SeqGrows ==
  ASSUME NEW A, NEW B, A \subseteq B, NEW s \in Seq(A)
  PROVE  s \in Seq(B)
<1>1. Len(s) \in Nat /\ s = [i \in 1 .. Len(s) |-> s[i]]
  OBVIOUS
<1>2. \A i \in 1 .. Len(s) : s[i] \in B
  OBVIOUS
<1>3. [i \in 1 .. Len(s) |-> s[i]] \in Seq(B)
  BY <1>1, <1>2
<1> QED
  BY <1>1, <1>3

LEMMA BytesAreNumbers ==
  ASSUME NEW l \in Trace!TextLine
  PROVE  l.bytes \in Seq(Nat) /\ l.time \in Nat
<1>1. l.bytes \in Seq(0 .. 255) /\ l.time \in Nat
  BY DEF Trace!TextLine
<1>2. 0 .. 255 \subseteq Nat
  OBVIOUS
<1>3. l.bytes \in Seq(Nat)
  BY <1>1, <1>2, SeqGrows
<1> QED
  BY <1>1, <1>3

LEMMA BytesType ==
  ASSUME NEW t \in TraceText, NEW i \in 1 .. Len(t), NEW j \in i .. Len(t)
  PROVE  BytesIn(t, i, j) \in Seq(Nat)
<1> DEFINE q == [k \in 1 .. j - i |-> t[i + k].bytes]
<1>1. j - i \in Nat /\ Len(t) \in Nat
  BY DEF TraceText
<1>2. ASSUME NEW k \in 1 .. j - i PROVE t[i + k].bytes \in Seq(Nat)
  <2>1. i + k \in 1 .. Len(t)
    BY <1>1
  <2>2. t[i + k] \in Trace!TextLine
    BY <2>1 DEF TraceText
  <2> QED
    BY <2>2, BytesAreNumbers
<1>3. q \in Seq(Seq(Nat))
  BY <1>1, <1>2
<1> HIDE DEF q
<1>4. FlattenSeq(q) \in Seq(Nat)
  BY <1>3, FlattenType
<1> QED
  BY <1>4 DEF q, BytesIn

LEMMA PacketType ==
  ASSUME NEW t \in TraceText, NEW i \in 1 .. Len(t)
  PROVE  /\ PacketIn(t, i) \in Packet
         /\ PacketIn(t, i).bytes \in Seq(Nat) /\ PacketIn(t, i).time \in Nat
         /\ Len(PacketIn(t, i).bytes) \in Nat
         /\ PacketIn(t, i).bytes = <<>> <=> Len(PacketIn(t, i).bytes) = 0
<1>1. EndIn(t, i) \in i .. Len(t)
  BY EndFound DEF IsEnd
<1>2. BytesIn(t, i, EndIn(t, i)) \in Seq(Nat)
  BY <1>1, BytesType
<1>3. t[i].time \div 1000 \in Nat
  <2>1. t[i] \in Trace!TextLine
    BY DEF TraceText
  <2>2. t[i].time \in Nat
    BY <2>1, BytesAreNumbers
  <2> QED
    BY <2>2
<1> HIDE DEF BytesIn
<1>4. PacketIn(t, i) \in Packet
  BY <1>2, <1>3, Zenon DEF PacketIn, Packet
<1>5. PacketIn(t, i).bytes \in Seq(Nat) /\ PacketIn(t, i).time \in Nat
  BY <1>2, <1>3 DEF PacketIn
<1> QED
  BY <1>4, <1>5

LEMMA PacketAtMeans ==
  ASSUME NEW i
  PROVE  Trace!PacketAt(i) = PacketIn(text, i)
BY DEF Trace!PacketAt, Trace!EndOf, Trace!FlattenSeq, FlattenSeq, PacketIn, EndIn, BytesIn

LEMMA ToldMeans ==
  ASSUME text \in TraceText
  PROVE  \E told : ToldBy(told, text) /\ Trace!Told = told[Len(text)]
<1> DEFINE b == Len(text)
           Step(s, n) == IF IsTold(text, n) THEN Append(s, PacketIn(text, n)) ELSE s
           out == CHOOSE out : out = [n \in 0 .. b |-> IF n = 0 THEN <<>>
                                                        ELSE Step(out[n - 1], n)]
           G == [n \in 1 .. b |-> [s \in Packets |-> Step(s, n)]]
<1>0. b \in Nat /\ \A n \in 1 .. b : PacketIn(text, n) \in Packet
  BY PacketType DEF TraceText
<1>1. Trace!Told = out[b]
  <2>1. \A n : Trace!PacketAt(n) = PacketIn(text, n)
    BY PacketAtMeans
  <2> HIDE DEF PacketIn
  <2> QED
    BY <2>1 DEF Trace!Told, IsTold, IsPacket
<1>2. G \in [1 .. b -> [Packets -> Packets]]
  <2> SUFFICES ASSUME NEW s \in Packets, NEW n \in 1 .. b PROVE Step(s, n) \in Packets
    OBVIOUS
  <2> QED
    BY <1>0 DEF Packets
<1>3. PICK f : Iterated(f, <<>>, G, Packets, b)
  <2>1. b \in Nat /\ <<>> \in Packets
    BY <1>0 DEF Packets
  <2> HIDE DEF G, b
  <2> QED
    BY <1>2, <2>1, Recursion
<1>4. f \in [0 .. b -> Packets] /\ f[0] = <<>>
  BY <1>3 DEF Iterated
<1>5. ASSUME NEW n \in 1 .. b PROVE f[n] = Step(f[n - 1], n)
  <2>1. f[n - 1] \in Packets /\ f[n] = G[n][f[n - 1]]
    BY <1>3 DEF Iterated
  <2> HIDE DEF Step
  <2> QED
    BY <2>1
<1>6. f = [n \in 0 .. b |-> IF n = 0 THEN <<>> ELSE Step(f[n - 1], n)]
  <2> HIDE DEF Step
  <2>1. ASSUME NEW n \in 0 .. b PROVE f[n] = IF n = 0 THEN <<>> ELSE Step(f[n - 1], n)
    BY <1>4, <1>5
  <2> QED
    BY <1>4, <2>1
<1>7. out = [n \in 0 .. b |-> IF n = 0 THEN <<>> ELSE Step(out[n - 1], n)]
  BY <1>6, Zenon
<1> DEFINE P == {n \in Nat : n <= b => out[n] = f[n]}
<1> HIDE DEF out, b, Step
<1>8. out[0] = <<>> /\ \A n \in 1 .. b : out[n] = Step(out[n - 1], n)
  BY <1>0, <1>7
<1>9. 0 \in P
  BY <1>4, <1>8
<1>10. ASSUME NEW n \in Nat, n \in P PROVE n + 1 \in P
  <2> SUFFICES ASSUME n + 1 <= b PROVE out[n + 1] = f[n + 1]
    OBVIOUS
  <2>1. n + 1 \in 1 .. b /\ n + 1 - 1 = n /\ n <= b
    BY <1>0
  <2>2. out[n + 1] = Step(out[n], n + 1) /\ f[n + 1] = Step(f[n], n + 1)
    BY <1>5, <1>8, <2>1
  <2> QED
    BY <1>10, <2>1, <2>2
<1> HIDE DEF P
<1>11. b \in P
  BY <1>0, <1>9, <1>10, Induction
<1>12. ToldBy(f, text)
  BY <1>4, <1>5 DEF ToldBy, b, Step
<1> QED
  BY <1>0, <1>1, <1>11, <1>12 DEF P, b

LEMMA ToldOnce ==
  ASSUME NEW t \in TraceText, NEW f, ToldBy(f, t), NEW g, ToldBy(g, t)
  PROVE  f[Len(t)] = g[Len(t)]
<1> DEFINE b == Len(t)
           P == {n \in Nat : n <= b => f[n] = g[n]}
<1>0. b \in Nat
  BY DEF TraceText
<1>1. 0 \in P
  BY DEF ToldBy
<1>2. ASSUME NEW n \in Nat, n \in P PROVE n + 1 \in P
  <2> SUFFICES ASSUME n + 1 <= b PROVE f[n + 1] = g[n + 1]
    OBVIOUS
  <2>1. n + 1 \in 1 .. b /\ n + 1 - 1 = n /\ n <= b
    BY <1>0
  <2>2. f[n] = g[n]
    BY <1>2, <2>1
  <2>3. /\ f[n + 1] = IF IsTold(t, n + 1) THEN Append(f[n], PacketIn(t, n + 1)) ELSE f[n]
        /\ g[n + 1] = IF IsTold(t, n + 1) THEN Append(g[n], PacketIn(t, n + 1)) ELSE g[n]
    BY <2>1 DEF ToldBy
  <2> QED
    BY <2>2, <2>3
<1> HIDE DEF P
<1>3. b \in P
  BY <1>0, <1>1, <1>2, Induction
<1> QED
  BY <1>0, <1>3 DEF P

LEMMA ToldTypes ==
  ASSUME NEW t \in TraceText, NEW told, ToldBy(told, t), NEW n \in 0 .. Len(t)
  PROVE  /\ told[n] \in Packets /\ Len(told[n]) \in Nat
         /\ \A i \in 1 .. Len(told[n]) : told[n][i] \in Packet
BY DEF ToldBy, Packets

(* What is told up to a line is the beginning of all that is told.         *)
LEMMA ToldGrows ==
  ASSUME NEW t \in TraceText, NEW told, ToldBy(told, t)
  PROVE  \A n \in 0 .. Len(t) : \A m \in 0 .. n :
           /\ Len(told[m]) <= Len(told[n])
           /\ \A i \in 1 .. Len(told[m]) : told[n][i] = told[m][i]
<1> DEFINE b == Len(t)
           Q(n) == \A m \in 0 .. n :
                     /\ Len(told[m]) <= Len(told[n])
                     /\ \A i \in 1 .. Len(told[m]) : told[n][i] = told[m][i]
           P == {n \in Nat : n <= b => Q(n)}
<1>0. b \in Nat /\ \A n \in 1 .. b : PacketIn(t, n) \in Packet
  BY PacketType DEF TraceText
<1>1. \A n \in 0 .. b : told[n] \in Packets /\ Len(told[n]) \in Nat
  BY ToldTypes
<1>2. 0 \in P
  BY <1>1
<1>3. ASSUME NEW n \in Nat, n \in P PROVE n + 1 \in P
  <2> SUFFICES ASSUME n + 1 <= b, NEW m \in 0 .. n + 1
               PROVE  /\ Len(told[m]) <= Len(told[n + 1])
                      /\ \A i \in 1 .. Len(told[m]) : told[n + 1][i] = told[m][i]
    OBVIOUS
  <2>1. n \in 0 .. b /\ n + 1 \in 1 .. b /\ n + 1 \in 0 .. b /\ n + 1 - 1 = n
    BY <1>0
  <2>2. \/ told[n + 1] = Append(told[n], PacketIn(t, n + 1))
        \/ told[n + 1] = told[n]
    <3>1. told[n + 1] = IF IsTold(t, n + 1) THEN Append(told[n], PacketIn(t, n + 1)) ELSE told[n]
      BY <2>1 DEF ToldBy
    <3> QED
      BY <3>1
  <2>3. /\ Len(told[n]) <= Len(told[n + 1])
        /\ \A i \in 1 .. Len(told[n]) : told[n + 1][i] = told[n][i]
    <3>1. told[n] \in Seq(Packet) /\ PacketIn(t, n + 1) \in Packet
      BY <1>0, <1>1, <2>1 DEF Packets
    <3>2. CASE told[n + 1] = Append(told[n], PacketIn(t, n + 1))
      BY <3>1, <3>2
    <3>3. CASE told[n + 1] = told[n]
      BY <3>1, <3>3
    <3> QED
      BY <2>2, <3>2, <3>3
  <2>4. CASE m = n + 1
    <3>1. Len(told[n + 1]) \in Nat
      BY <1>1, <2>1
    <3> QED
      BY <2>4, <3>1
  <2>5. CASE m # n + 1
    <3>1. m \in 0 .. n /\ m \in 0 .. b
      BY <1>0, <2>5
    <3>2. /\ Len(told[m]) <= Len(told[n])
          /\ \A i \in 1 .. Len(told[m]) : told[n][i] = told[m][i]
      BY <1>3, <2>1, <3>1
    <3> QED
      BY <1>1, <2>1, <2>3, <3>1, <3>2
  <2> QED
    BY <2>4, <2>5
<1> HIDE DEF Q
<1>4. \A n \in Nat : n \in P
  <2> HIDE DEF P
  <2> QED
    BY <1>2, <1>3, Induction
<1> QED
  BY <1>4 DEF Q

LEMMA EndsExist ==
  ASSUME NEW t \in TraceText
  PROVE  \E off : EndsOf(off, t)
<1> DEFINE b == Len(t)
           Step(s, n) == IF IsPacket(t, n) THEN s + 16 + Len(PacketIn(t, n).bytes) ELSE s
           G == [n \in 1 .. b |-> [s \in Nat |-> Step(s, n)]]
<1>1. b \in Nat /\ \A n \in 1 .. b : Len(PacketIn(t, n).bytes) \in Nat
  BY PacketType DEF TraceText
<1>2. G \in [1 .. b -> [Nat -> Nat]]
  <2> SUFFICES ASSUME NEW n \in 1 .. b, NEW s \in Nat PROVE Step(s, n) \in Nat
    OBVIOUS
  <2>1. Len(PacketIn(t, n).bytes) \in Nat
    BY <1>1
  <2>2. \A x \in Nat : s + 16 + x \in Nat
    OBVIOUS
  <2> HIDE DEF b
  <2> QED
    BY <2>1, <2>2, Zenon
<1>3. PICK f : Iterated(f, 0, G, Nat, b)
  <2> HIDE DEF G, b
  <2> QED
    BY <1>1, <1>2, Recursion
<1>4. f \in [0 .. b -> Nat] /\ f[0] = 0
  BY <1>3 DEF Iterated
<1>5. ASSUME NEW i \in 1 .. b PROVE f[i] = Step(f[i - 1], i)
  <2>1. f[i - 1] \in Nat /\ f[i] = G[i][f[i - 1]]
    BY <1>3 DEF Iterated
  <2> HIDE DEF Step
  <2> QED
    BY <2>1
<1> QED
  BY <1>4, <1>5 DEF EndsOf

(* Between two lines without a heading of a packet nothing is told.        *)
LEMMA Quiet ==
  ASSUME NEW t \in TraceText, NEW told, ToldBy(told, t), NEW off, EndsOf(off, t),
         NEW a \in 0 .. Len(t), NEW b \in a .. Len(t),
         \A k \in a + 1 .. b : ~ IsPacket(t, k)
  PROVE  told[b] = told[a] /\ off[b] = off[a]
<1> DEFINE P == {n \in Nat : a + n <= b => told[a + n] = told[a] /\ off[a + n] = off[a]}
<1>0. Len(t) \in Nat /\ a \in Nat /\ b \in Nat /\ a <= b /\ b <= Len(t)
  BY DEF TraceText
<1>1. 0 \in P
  BY <1>0
<1>2. ASSUME NEW n \in Nat, n \in P PROVE n + 1 \in P
  <2> SUFFICES ASSUME a + (n + 1) <= b
               PROVE  told[a + (n + 1)] = told[a] /\ off[a + (n + 1)] = off[a]
    OBVIOUS
  <2> DEFINE m == a + (n + 1)
  <2>1. m \in 1 .. Len(t) /\ m \in a + 1 .. b /\ m - 1 = a + n /\ a + n <= b
    BY <1>0
  <2>2. ~ IsPacket(t, m)
    BY <2>1
  <2>3. told[m] = told[m - 1] /\ off[m] = off[m - 1]
    BY <2>1, <2>2 DEF ToldBy, EndsOf, IsTold
  <2> QED
    BY <1>2, <2>1, <2>3
<1> HIDE DEF P
<1>3. b - a \in P
  BY <1>0, <1>1, <1>2, Induction
<1>4. a + (b - a) = b
  BY <1>0
<1> QED
  BY <1>0, <1>3, <1>4 DEF P

(* The next packet, if there is one. *)
LEMMA NextPacketOf ==
  ASSUME NEW t \in TraceText, NEW a \in 0 .. Len(t), NEW b \in a .. Len(t)
  PROVE  \/ \A k \in a + 1 .. b : ~ IsPacket(t, k)
         \/ \E m \in a + 1 .. b : IsPacket(t, m) /\ \A k \in a + 1 .. m - 1 : ~ IsPacket(t, k)
<1> DEFINE T == {k \in a + 1 .. b : IsPacket(t, k)}
<1>0. Len(t) \in Nat /\ a \in Nat /\ b \in Nat
  BY DEF TraceText
<1> SUFFICES ASSUME T # {}
             PROVE  \E m \in a + 1 .. b : IsPacket(t, m)
                                          /\ \A k \in a + 1 .. m - 1 : ~ IsPacket(t, k)
  OBVIOUS
<1>1. T \in SUBSET Nat
  BY <1>0
<1>2. PICK m \in T : \A y \in T : m <= y
  BY <1>1, LeastElement
<1>3. m \in a + 1 .. b /\ IsPacket(t, m)
  BY <1>2
<1>4. ASSUME NEW k \in a + 1 .. m - 1, IsPacket(t, k) PROVE FALSE
  <2>1. k \in a + 1 .. b /\ k < m /\ k \in Int /\ m \in Int
    BY <1>0, <1>3
  <2>2. k \in T
    BY <1>4, <2>1
  <2> HIDE DEF T
  <2>3. m <= k
    BY <1>2, <2>2
  <2> QED
    BY <2>1, <2>3
<1> QED
  BY <1>3, <1>4

-----------------------------------------------------------------------------
(* The trace: records in a file f *)

UIntIn(f, o) ==
  (16777216 * f[o + 1]) + (65536 * f[o + 2]) + (256 * f[o + 3]) + f[o + 4]

PacketHeld(f, o, p) ==
  /\ o + 16 + Len(p.bytes) <= Len(f)
  /\ UIntIn(f, o) = Len(p.bytes)
  /\ UIntIn(f, o + 12) = p.time
  /\ \A j \in 1 .. Len(p.bytes) : f[o + 16 + j] = p.bytes[j]

(* The file ends within the record. *)
PacketBroken(f, o, p) ==
  /\ Len(f) < o + 16 + Len(p.bytes)
  /\ o + 16 <= Len(f) => UIntIn(f, o) = Len(p.bytes)

RecordOf(p) == Trace!UInt(Len(p.bytes)) \o Trace!Zeros \o Trace!UInt(p.time) \o p.bytes

(* The file g is the file f and the first k of the bytes r.                *)
Extends(g, f, r, k) ==
  /\ g \in Seq(Nat) /\ Len(g) = Len(f) + k
  /\ \A i \in 1 .. Len(f) : g[i] = f[i]
  /\ \A i \in 1 .. k : g[Len(f) + i] = r[i]

LEMMA UIntBytes ==
  ASSUME NEW n \in Nat
  PROVE  /\ Trace!UInt(n) \in Seq(Nat) /\ Len(Trace!UInt(n)) = 4
         /\ UIntIn(Trace!UInt(n), 0) = n
<1> DEFINE a == n \div 16777216
           b == (n \div 65536) % 256
           c == (n \div 256) % 256
           d == n % 256
<1>1. a \in Nat /\ b \in Nat /\ c \in Nat /\ d \in Nat
  OBVIOUS
<1>2. (16777216 * a) + (65536 * b) + (256 * c) + d = n
  OBVIOUS
<1>3. Trace!UInt(n) = <<a, b, c, d>>
  BY DEF Trace!UInt
<1> HIDE DEF a, b, c, d
<1>4. /\ <<a, b, c, d>> \in Seq(Nat) /\ Len(<<a, b, c, d>>) = 4
      /\ <<a, b, c, d>>[1] = a /\ <<a, b, c, d>>[2] = b
      /\ <<a, b, c, d>>[3] = c /\ <<a, b, c, d>>[4] = d
  BY <1>1
<1> DEFINE u == <<a, b, c, d>>
<1>5. u[0 + 1] = a /\ u[0 + 2] = b /\ u[0 + 3] = c /\ u[0 + 4] = d
  BY <1>4
<1> HIDE DEF u
<1>6. UIntIn(u, 0) = n
  BY <1>2, <1>5 DEF UIntIn
<1> QED
  BY <1>3, <1>4, <1>6 DEF u

LEMMA ZerosType == Trace!Zeros \in Seq(Nat) /\ Len(Trace!Zeros) = 8
BY DEF Trace!Zeros

(* What is put together is read where it is.                               *)
LEMMA Together ==
  ASSUME NEW x \in Seq(Nat), NEW y \in Seq(Nat)
  PROVE  /\ x \o y \in Seq(Nat) /\ Len(x \o y) = Len(x) + Len(y)
         /\ \A i \in 1 .. Len(x) : (x \o y)[i] = x[i]
         /\ \A i \in 1 .. Len(y) : (x \o y)[Len(x) + i] = y[i]
OBVIOUS

LEMMA UIntMoved ==
  ASSUME NEW f, NEW g, NEW o \in Nat, NEW m \in Nat,
         \A i \in 1 .. 4 : g[m + i] = f[o + i]
  PROVE  UIntIn(g, m) = UIntIn(f, o)
<1>1. 1 \in 1 .. 4 /\ 2 \in 1 .. 4 /\ 3 \in 1 .. 4 /\ 4 \in 1 .. 4
  OBVIOUS
<1>2. g[m + 1] = f[o + 1] /\ g[m + 2] = f[o + 2] /\ g[m + 3] = f[o + 3] /\ g[m + 4] = f[o + 4]
  BY <1>1
<1> QED
  BY <1>2 DEF UIntIn

LEMMA RecordOfType ==
  ASSUME NEW p \in Packet
  PROVE  /\ RecordOf(p) \in Seq(Nat) /\ Len(RecordOf(p)) = 16 + Len(p.bytes)
         /\ UIntIn(RecordOf(p), 0) = Len(p.bytes) /\ UIntIn(RecordOf(p), 12) = p.time
         /\ \A j \in 1 .. Len(p.bytes) : RecordOf(p)[16 + j] = p.bytes[j]
<1>1. p.bytes \in Seq(Nat) /\ Len(p.bytes) \in Nat /\ p.time \in Nat
  BY DEF Packet
<1> DEFINE x == Trace!UInt(Len(p.bytes))
           z == Trace!Zeros
           y == Trace!UInt(p.time)
           xz == x \o z
           xzy == xz \o y
           r == xzy \o p.bytes
<1>2. x \in Seq(Nat) /\ Len(x) = 4 /\ UIntIn(x, 0) = Len(p.bytes)
  BY <1>1, UIntBytes
<1>3. y \in Seq(Nat) /\ Len(y) = 4 /\ UIntIn(y, 0) = p.time
  BY <1>1, UIntBytes
<1>4. z \in Seq(Nat) /\ Len(z) = 8
  BY ZerosType
<1>0. RecordOf(p) = r
  BY DEF RecordOf
<1> HIDE DEF x, y, z
<1>5. xz \in Seq(Nat) /\ Len(xz) = Len(x) + Len(z) /\ \A i \in 1 .. Len(x) : xz[i] = x[i]
  BY <1>2, <1>4, Together
<1>6. xz \in Seq(Nat) /\ Len(xz) = 12 /\ \A i \in 1 .. 4 : xz[i] = x[i]
  BY <1>2, <1>4, <1>5
<1> HIDE DEF xz
<1>7. /\ xzy \in Seq(Nat) /\ Len(xzy) = Len(xz) + Len(y)
      /\ \A i \in 1 .. Len(xz) : xzy[i] = xz[i]
      /\ \A i \in 1 .. Len(y) : xzy[Len(xz) + i] = y[i]
  BY <1>3, <1>6, Together
<1>8. /\ xzy \in Seq(Nat) /\ Len(xzy) = 16
      /\ \A i \in 1 .. 4 : xzy[i] = x[i] /\ xzy[12 + i] = y[i]
  <2>1. Len(xzy) = 12 + 4
    BY <1>3, <1>6, <1>7
  <2>2. \A i \in 1 .. 12 : xzy[i] = xz[i]
    BY <1>6, <1>7
  <2>3. \A i \in 1 .. 4 : xzy[12 + i] = y[i]
    BY <1>3, <1>6, <1>7
  <2>4. Len(xzy) = 16
    BY <2>1
  <2>5. \A i \in 1 .. 4 : i \in 1 .. 12
    OBVIOUS
  <2>6. \A i \in 1 .. 4 : xzy[i] = x[i]
    BY <1>6, <2>2, <2>5
  <2> QED
    BY <1>7, <2>3, <2>4, <2>6
<1> HIDE DEF xzy
<1>9. /\ r \in Seq(Nat) /\ Len(r) = Len(xzy) + Len(p.bytes)
      /\ \A i \in 1 .. Len(xzy) : r[i] = xzy[i]
      /\ \A i \in 1 .. Len(p.bytes) : r[Len(xzy) + i] = p.bytes[i]
  BY <1>1, <1>8, Together
<1> HIDE DEF r
<1>10. \A i \in 1 .. 4 : r[0 + i] = x[0 + i] /\ r[12 + i] = y[0 + i]
  <2> SUFFICES ASSUME NEW i \in 1 .. 4 PROVE r[0 + i] = x[0 + i] /\ r[12 + i] = y[0 + i]
    OBVIOUS
  <2>1. i \in 1 .. Len(xzy) /\ 12 + i \in 1 .. Len(xzy) /\ 0 + i = i
    BY <1>8
  <2> QED
    BY <1>8, <1>9, <2>1
<1>11. UIntIn(r, 0) = UIntIn(x, 0) /\ UIntIn(r, 12) = UIntIn(y, 0)
  BY <1>10, UIntMoved
<1> QED
  BY <1>0, <1>2, <1>3, <1>8, <1>9, <1>11

LEMMA ExtendsBy ==
  ASSUME NEW f \in Seq(Nat), NEW r \in Seq(Nat), NEW k \in 0 .. Len(r)
  PROVE  Extends(f \o SubSeq(r, 1, k), f, r, k)
<1> DEFINE q == SubSeq(r, 1, k)
<1>1. k \in Nat /\ Len(r) \in Nat
  OBVIOUS
<1>2. q \in Seq(Nat) /\ Len(q) = k /\ \A i \in 1 .. k : q[i] = r[i]
  BY <1>1
<1> HIDE DEF q
<1>3. /\ f \o q \in Seq(Nat) /\ Len(f \o q) = Len(f) + Len(q)
      /\ \A i \in 1 .. Len(f) : (f \o q)[i] = f[i]
      /\ \A i \in 1 .. Len(q) : (f \o q)[Len(f) + i] = q[i]
  BY <1>2, Together
<1> QED
  BY <1>2, <1>3 DEF Extends, q

LEMMA ExtendsWith ==
  ASSUME NEW f \in Seq(Nat), NEW r \in Seq(Nat)
  PROVE  Extends(f \o r, f, r, Len(r))
BY Together DEF Extends

LEMMA HeldStill ==
  ASSUME NEW f \in Seq(Nat), NEW g, NEW r, NEW k \in Nat, Extends(g, f, r, k),
         NEW o \in Nat, NEW p \in Packet, PacketHeld(f, o, p)
  PROVE  PacketHeld(g, o, p)
<1>l. PICK l : l = Len(p.bytes)
  OBVIOUS
<1>n. PICK n : n = Len(f)
  OBVIOUS
<1>1. /\ n \in Nat /\ l \in Nat /\ Len(g) = n + k
      /\ \A i \in 1 .. n : g[i] = f[i]
  BY <1>l, <1>n DEF Packet, Extends
<1>2. /\ o + 16 + l <= n /\ UIntIn(f, o) = l
      /\ UIntIn(f, o + 12) = p.time
      /\ \A j \in 1 .. l : f[o + 16 + j] = p.bytes[j]
  BY <1>l, <1>n DEF PacketHeld
<1>3. \A i \in 1 .. 4 : g[o + i] = f[o + i] /\ g[o + 12 + i] = f[o + 12 + i]
  <2> SUFFICES ASSUME NEW i \in 1 .. 4 PROVE g[o + i] = f[o + i] /\ g[o + 12 + i] = f[o + 12 + i]
    OBVIOUS
  <2>1. o + i \in 1 .. n /\ o + 12 + i \in 1 .. n
    BY <1>1, <1>2
  <2> QED
    BY <1>1, <2>1
<1>4. UIntIn(g, o) = UIntIn(f, o) /\ UIntIn(g, o + 12) = UIntIn(f, o + 12)
  <2>1. \A i \in 1 .. 4 : g[o + i] = f[o + i]
    BY <1>3
  <2>2. UIntIn(g, o) = UIntIn(f, o)
    BY <2>1, UIntMoved
  <2>3. PICK m : m = o + 12
    OBVIOUS
  <2>4. m \in Nat /\ \A i \in 1 .. 4 : g[m + i] = f[m + i]
    BY <1>3, <2>3
  <2>5. UIntIn(g, m) = UIntIn(f, m)
    BY <2>4, UIntMoved
  <2> QED
    BY <2>2, <2>3, <2>5
<1>5. \A j \in 1 .. l : g[o + 16 + j] = p.bytes[j]
  <2> SUFFICES ASSUME NEW j \in 1 .. l PROVE g[o + 16 + j] = p.bytes[j]
    OBVIOUS
  <2>1. o + 16 + j \in 1 .. n
    BY <1>1, <1>2
  <2> QED
    BY <1>1, <1>2, <2>1
<1>6. o + 16 + l <= Len(g)
  BY <1>1, <1>2
<1> QED
  BY <1>2, <1>4, <1>5, <1>6, <1>l DEF PacketHeld

LEMMA NowHeld ==
  ASSUME NEW f \in Seq(Nat), NEW p \in Packet, NEW g,
         Extends(g, f, RecordOf(p), Len(RecordOf(p)))
  PROVE  PacketHeld(g, Len(f), p) /\ Len(g) = Len(f) + 16 + Len(p.bytes)
<1>0. PICK o : o = Len(f)
  OBVIOUS
<1>r. PICK r : r = RecordOf(p)
  OBVIOUS
<1>l. PICK l : l = Len(p.bytes)
  OBVIOUS
<1>1. /\ Len(r) = 16 + l /\ UIntIn(r, 0) = l /\ UIntIn(r, 12) = p.time
      /\ \A j \in 1 .. l : r[16 + j] = p.bytes[j]
  BY <1>r, <1>l, RecordOfType
<1>2. o \in Nat /\ l \in Nat
  BY <1>0, <1>l DEF Packet
<1>3. Len(g) = o + Len(r) /\ \A i \in 1 .. Len(r) : g[o + i] = r[i]
  BY <1>0, <1>r DEF Extends
<1>4. \A i \in 1 .. 4 : g[o + i] = r[0 + i] /\ g[o + 12 + i] = r[12 + i]
  <2> SUFFICES ASSUME NEW i \in 1 .. 4 PROVE g[o + i] = r[0 + i] /\ g[o + 12 + i] = r[12 + i]
    OBVIOUS
  <2>1. i \in 1 .. Len(r) /\ 12 + i \in 1 .. Len(r) /\ o + (12 + i) = o + 12 + i /\ 0 + i = i
    BY <1>1, <1>2
  <2> QED
    BY <1>3, <2>1
<1>5. UIntIn(g, o) = UIntIn(r, 0) /\ UIntIn(g, o + 12) = UIntIn(r, 12)
  BY <1>2, <1>4, UIntMoved
<1>6. \A j \in 1 .. l : g[o + 16 + j] = p.bytes[j]
  <2> SUFFICES ASSUME NEW j \in 1 .. l PROVE g[o + 16 + j] = p.bytes[j]
    OBVIOUS
  <2>1. 16 + j \in 1 .. Len(r) /\ o + (16 + j) = o + 16 + j
    BY <1>1, <1>2
  <2> QED
    BY <1>1, <1>3, <2>1
<1>7. Len(g) = o + 16 + l
  BY <1>1, <1>2, <1>3
<1>8. o + 16 + l <= Len(g)
  BY <1>2, <1>7
<1> QED
  BY <1>0, <1>1, <1>5, <1>6, <1>7, <1>8, <1>l DEF PacketHeld

LEMMA NowBroken ==
  ASSUME NEW f \in Seq(Nat), NEW p \in Packet, NEW g, NEW k \in Nat, k < Len(RecordOf(p)),
         Extends(g, f, RecordOf(p), k)
  PROVE  PacketBroken(g, Len(f), p)
<1>0. PICK o : o = Len(f)
  OBVIOUS
<1>r. PICK r : r = RecordOf(p)
  OBVIOUS
<1>l. PICK l : l = Len(p.bytes)
  OBVIOUS
<1>1. Len(r) = 16 + l /\ UIntIn(r, 0) = l
  BY <1>r, <1>l, RecordOfType
<1>2. o \in Nat /\ l \in Nat
  BY <1>0, <1>l DEF Packet
<1>3. Len(g) = o + k /\ (\A i \in 1 .. k : g[o + i] = r[i]) /\ k < Len(r)
  BY <1>0, <1>r DEF Extends
<1>4. ASSUME o + 16 <= Len(g) PROVE UIntIn(g, o) = l
  <2>1. \A i \in 1 .. 4 : i \in 1 .. k /\ 0 + i = i
    BY <1>2, <1>3, <1>4
  <2>2. \A i \in 1 .. 4 : g[o + i] = r[0 + i]
    BY <1>3, <2>1
  <2>3. UIntIn(g, o) = UIntIn(r, 0)
    BY <1>2, <2>2, UIntMoved
  <2> QED
    BY <1>1, <2>3
<1>5. Len(g) < o + 16 + l
  BY <1>1, <1>2, <1>3
<1> QED
  BY <1>0, <1>4, <1>5, <1>l DEF PacketBroken

-----------------------------------------------------------------------------
(* The trace: what is in the file and in the lists *)

TraceTypes ==
  /\ text \in TraceText /\ repeat \in Nat
  /\ at \in 0 .. Len(text) /\ file \in Seq(Nat) /\ cut \in BOOLEAN

(* The lines at hand are those from the heading after line n on.           *)
GroupOf(t, group, a, n) ==
  \/ group = <<>> /\ a = 0 /\ n = 0
  \/ /\ n + 1 \in 1 .. a
     /\ t[n + 1].kind # "bytes" /\ \A k \in n + 2 .. a : t[k].kind = "bytes"
     /\ group = [k \in 1 .. a - n |-> t[n + k]]

RecordsOf(t, off, n, f) ==
  \A j \in 1 .. n : IsPacket(t, j) => PacketHeld(f, off[j - 1], PacketIn(t, j))

(* The file holds the packets of n lines, and perhaps a part of the next.  *)
TraceHeld(off, n) ==
  /\ n \in 0 .. Len(text)
  /\ RecordsOf(text, off, n, file)
  /\ phase = "convert" => Len(file) = off[n] /\ ~ cut /\ GroupOf(text, lines, at, n)
  /\ phase # "convert" =>
       \/ Len(file) = off[n] /\ (cut \/ n = Len(text))
       \/ /\ cut /\ n < Len(text) /\ IsPacket(text, n + 1)
          /\ PacketBroken(file, off[n], PacketIn(text, n + 1))

Over(p) == Len(p.bytes) > MaxPacketSize

(* The first packets of s that are not too long.                           *)
FirstOver(s, m) ==
  /\ m \in 0 .. Len(s) /\ \A i \in 1 .. m : ~ Over(s[i])
  /\ m < Len(s) => Over(s[m + 1])

(* The reader is behind the m-th line, of the n that are in the file.      *)
InPlace(told, off, n, m) ==
  /\ m \in 0 .. n /\ pos = off[m]
  /\ round \in 0 .. repeat /\ (round = repeat => m = 0)
  /\ Len(list) = round * Len(told[n]) + Len(told[m])
  /\ \A i \in 1 .. Len(list) : list[i] = told[n][1 + ((i - 1) % Len(told[n]))]
  /\ size = Trace!TotalSize(list)

(* It has lost its place, behind a packet that is too long.                *)
LostPlace(s, first) ==
  /\ first < Len(s)
  /\ round = 0 => first <= Len(list) /\ \A i \in 1 .. first : list[i] = s[i]

ReaderHeld(told, off, n, first) ==
  LET s == told[Len(text)]
  IN /\ list \in Packets /\ pos \in Nat /\ round \in Nat
     /\ \/ \E m : InPlace(told, off, n, m) /\ Len(told[m]) <= first
        \/ LostPlace(s, first)
     /\ phase = "exit" => cut \/ first < Len(s)
     /\ done => round = repeat

NothingRead == round = 0 /\ pos = 0 /\ list = <<>> /\ done = FALSE /\ size = 0

PacketsHeld(told, off, n, first) ==
  /\ ToldBy(told, text) /\ EndsOf(off, text) /\ FirstOver(told[Len(text)], first)
  /\ TraceHeld(off, n)
  /\ phase = "convert" => NothingRead
  /\ phase # "convert" => ReaderHeld(told, off, n, first)

TraceInv == TraceTypes /\ \E told, off, n, first : PacketsHeld(told, off, n, first)

LEMMA FirstOverExists ==
  ASSUME MaxPacketSize \in Nat, NEW s \in Packets
  PROVE  \E m : FirstOver(s, m)
<1> DEFINE T == {m \in 0 .. Len(s) : m = Len(s) \/ Over(s[m + 1])}
<1>1. Len(s) \in Nat
  BY DEF Packets
<1>2. T \in SUBSET Nat /\ Len(s) \in T
  BY <1>1
<1>3. PICK m \in T : \A y \in T : m <= y
  BY <1>2, LeastElement
<1>4. ASSUME NEW i \in 1 .. m, Over(s[i]) PROVE FALSE
  <2>1. i - 1 \in 0 .. Len(s) /\ i - 1 + 1 = i /\ i \in Int /\ m \in Int /\ i <= m
    BY <1>1
  <2>2. i - 1 \in T
    BY <1>4, <2>1
  <2> HIDE DEF T
  <2>3. m <= i - 1
    BY <1>3, <2>2
  <2> QED
    BY <2>1, <2>3
<1>5. m \in 0 .. Len(s) /\ (m < Len(s) => Over(s[m + 1]))
  BY <1>1
<1> QED
  BY <1>4, <1>5 DEF FirstOver

LEMMA TraceInitInv ==
  ASSUME Trace!TraceInputs, Trace!Init
  PROVE  TraceInv
<1>1. /\ text \in TraceTexts /\ repeat \in Repeats /\ phase = "convert" /\ at = 0 /\ lines = <<>>
      /\ file = <<>> /\ cut = FALSE /\ NothingRead
  BY DEF Trace!Init, NothingRead
<1>2. text \in TraceText /\ repeat \in Nat /\ MaxPacketSize \in Nat
  BY <1>1 DEF Trace!TraceInputs, TraceText
<1>3. TraceTypes
  <2>1. 0 \in 0 .. Len(text) /\ <<>> \in Seq(Nat)
    BY <1>2 DEF TraceText
  <2> QED
    BY <1>1, <1>2, <2>1, Zenon DEF TraceTypes
<1>4. PICK told : ToldBy(told, text)
  BY <1>2, ToldMeans
<1>5. PICK off : EndsOf(off, text)
  BY <1>2, EndsExist
<1>6. Len(text) \in 0 .. Len(text) /\ 0 \in 0 .. Len(text)
  BY <1>2 DEF TraceText
<1>7. PICK first : FirstOver(told[Len(text)], first)
  <2>1. told[Len(text)] \in Packets
    BY <1>2, <1>4, <1>6, ToldTypes
  <2> QED
    BY <1>2, <2>1, FirstOverExists
<1>8. TraceHeld(off, 0)
  <2>1. off[0] = 0 /\ Len(<<>>) = 0
    BY <1>5 DEF EndsOf
  <2>2. RecordsOf(text, off, 0, file)
    BY DEF RecordsOf
  <2> QED
    BY <1>1, <1>6, <2>1, <2>2 DEF TraceHeld, GroupOf
<1>9. PacketsHeld(told, off, 0, first)
  BY <1>1, <1>4, <1>5, <1>7, <1>8 DEF PacketsHeld
<1> QED
  BY <1>3, <1>9 DEF TraceInv

LEMMA TraceFacts ==
  ASSUME TraceTypes, NEW told, NEW off, NEW n, NEW first, PacketsHeld(told, off, n, first)
  PROVE  /\ text \in TraceText /\ Len(text) \in Nat /\ at \in 0 .. Len(text) /\ n \in 0 .. Len(text)
         /\ file \in Seq(Nat) /\ Len(file) \in Nat /\ repeat \in Nat
         /\ ToldBy(told, text) /\ EndsOf(off, text) /\ TraceHeld(off, n)
         /\ \A i \in 0 .. Len(text) : off[i] \in Nat
         /\ \A i \in 1 .. Len(text) : PacketIn(text, i) \in Packet
<1>1. text \in TraceText /\ at \in 0 .. Len(text) /\ file \in Seq(Nat) /\ repeat \in Nat
  BY DEF TraceTypes
<1>2. Len(text) \in Nat /\ Len(file) \in Nat
  BY <1>1 DEF TraceText
<1>3. ToldBy(told, text) /\ EndsOf(off, text) /\ TraceHeld(off, n) /\ n \in 0 .. Len(text)
  BY DEF PacketsHeld, TraceHeld
<1>4. \A i \in 0 .. Len(text) : off[i] \in Nat
  BY <1>3 DEF EndsOf
<1>5. \A i \in 1 .. Len(text) : PacketIn(text, i) \in Packet
  BY <1>1, PacketType
<1> QED
  BY <1>1, <1>2, <1>3, <1>4, <1>5

LEMMA GroupIs ==
  ASSUME NEW t, NEW group, NEW a, NEW n, n + 1 \in 1 .. a, t[n + 1].kind # "bytes",
         \A k \in n + 2 .. a : t[k].kind = "bytes",
         group = [k \in 1 .. a - n |-> t[n + k]]
  PROVE  GroupOf(t, group, a, n)
BY DEF GroupOf

LEMMA AddBytesStep ==
  ASSUME TraceInv, Trace!AddBytes
  PROVE  TraceInv'
<1>1. TraceTypes
  BY DEF TraceInv
<1>2. PICK told, off, n, first : PacketsHeld(told, off, n, first)
  BY DEF TraceInv
<1>3. /\ text \in TraceText /\ Len(text) \in Nat /\ at \in 0 .. Len(text) /\ n \in 0 .. Len(text)
      /\ TraceHeld(off, n)
  BY <1>1, <1>2, TraceFacts
<1>4. /\ phase = "convert" /\ at < Len(text) /\ text[at + 1].kind = "bytes" /\ lines # <<>>
      /\ lines' = Append(lines, text[at + 1]) /\ at' = at + 1
      /\ text' = text /\ repeat' = repeat /\ phase' = phase /\ file' = file /\ cut' = cut
      /\ round' = round /\ pos' = pos /\ list' = list /\ done' = done /\ size' = size
  BY DEF Trace!AddBytes, Trace!Converting, Trace!Line, Trace!reader
<1>5. /\ n + 1 \in 1 .. at
      /\ text[n + 1].kind # "bytes" /\ \A k \in n + 2 .. at : text[k].kind = "bytes"
      /\ lines = [k \in 1 .. at - n |-> text[n + k]]
  BY <1>3, <1>4 DEF TraceHeld, GroupOf
<1>a. PICK a : a = at + 1
  OBVIOUS
<1>6. lines' = [k \in 1 .. a - n |-> text[n + k]]
  <2> DEFINE T == Trace!TextLine
             l == [k \in 1 .. at - n |-> text[n + k]]
  <2>1. at - n \in Nat /\ at + 1 - n = (at - n) + 1 /\ n + ((at - n) + 1) = at + 1
    BY <1>3, <1>5
  <2>2. text[at + 1] \in T /\ \A k \in 1 .. at - n : text[n + k] \in T
    BY <1>3, <1>4, <1>5 DEF TraceText
  <2>3. l \in Seq(T) /\ Len(l) = at - n /\ \A k \in 1 .. at - n : l[k] = text[n + k]
    BY <2>1, <2>2
  <2> HIDE DEF l, T
  <2>4. Append(l, text[at + 1]) = [k \in 1 .. (at - n) + 1 |->
                                     IF k = (at - n) + 1 THEN text[at + 1] ELSE l[k]]
    BY <2>1, <2>2, <2>3
  <2>5. \A k \in 1 .. (at - n) + 1 : (IF k = (at - n) + 1 THEN text[at + 1] ELSE l[k]) = text[n + k]
    BY <2>1, <2>3
  <2>6. lines' = Append(l, text[at + 1])
    BY <1>4, <1>5 DEF l
  <2>7. a - n = (at - n) + 1
    BY <1>3, <1>a
  <2> QED
    BY <2>4, <2>5, <2>6, <2>7
<1>7. GroupOf(text, lines', at + 1, n)
  <2>1. n + 1 \in 1 .. at + 1
    BY <1>3, <1>5
  <2>2. \A k \in n + 2 .. at + 1 : text[k].kind = "bytes"
    BY <1>3, <1>4, <1>5
  <2>3. text[n + 1].kind # "bytes"
    BY <1>5
  <2>5. n + 1 \in 1 .. a /\ \A k \in n + 2 .. a : text[k].kind = "bytes"
    BY <1>a, <2>1, <2>2
  <2>6. GroupOf(text, lines', a, n)
    BY <1>6, <2>3, <2>5, GroupIs
  <2> QED
    BY <1>a, <2>6
<1>8. TraceHeld(off, n)'
  BY <1>3, <1>4, <1>7 DEF TraceHeld
<1>9. TraceTypes'
  <2>1. at + 1 \in 0 .. Len(text)
    BY <1>3, <1>4
  <2> QED
    BY <1>1, <1>4, <2>1 DEF TraceTypes
<1>10. NothingRead'
  BY <1>2, <1>4 DEF PacketsHeld, NothingRead
<1>11. PacketsHeld(told, off, n, first)'
  BY <1>2, <1>4, <1>8, <1>10 DEF PacketsHeld
<1> QED
  BY <1>9, <1>11 DEF TraceInv

(* What is written of a group is the record of its packet.                 *)
LEMMA GroupWritten ==
  ASSUME NEW t \in TraceText, NEW a \in 0 .. Len(t), NEW n \in 0 .. Len(t), NEW g,
         GroupOf(t, g, a, n), g # <<>>, a = Len(t) \/ t[a + 1].kind # "bytes"
  PROVE  /\ n + 1 \in 1 .. a /\ \A k \in n + 2 .. a : ~ IsPacket(t, k)
         /\ Trace!Written(g) = IF IsPacket(t, n + 1) THEN RecordOf(PacketIn(t, n + 1)) ELSE <<>>
<1>0. Len(t) \in Nat /\ a \in Nat /\ n \in Nat /\ a <= Len(t)
  BY DEF TraceText
<1>1. /\ n + 1 \in 1 .. a
      /\ t[n + 1].kind # "bytes" /\ \A k \in n + 2 .. a : t[k].kind = "bytes"
      /\ g = [k \in 1 .. a - n |-> t[n + k]]
  BY DEF GroupOf
<1>2. \A k \in n + 2 .. a : ~ IsPacket(t, k)
  BY <1>1 DEF IsPacket
<1>3. PICK i : i = n + 1
  OBVIOUS
<1>4. i \in 1 .. Len(t) /\ a \in i .. Len(t) /\ i + 1 = n + 2 /\ i \in Nat /\ a - n \in Nat
        /\ a - n - 1 = a - i /\ i \in 1 .. a
  BY <1>0, <1>1, <1>3
<1>5. EndIn(t, i) = a
  <2>1. \A k \in i + 1 .. a : t[k].kind = "bytes"
    BY <1>1, <1>4
  <2>2. a < Len(t) => t[a + 1].kind # "bytes"
    BY <1>0
  <2>3. IsEnd(t, i, a)
    BY <1>4, <2>1, <2>2 DEF IsEnd
  <2> QED
    BY <1>4, <2>3, EndOnce
<1>6. Len(g) = a - n
  BY <1>1, <1>4
<1>7. g[1] = t[i] /\ \A k \in 1 .. a - i : g[k + 1] = t[i + k]
  <2>1. 1 \in 1 .. a - n /\ \A k \in 1 .. a - i : k + 1 \in 1 .. a - n /\ n + (k + 1) = i + k
    BY <1>0, <1>3, <1>4
  <2>2. \A k \in 1 .. a - n : g[k] = t[n + k]
    BY <1>1
  <2> QED
    BY <1>3, <2>1, <2>2
<1>8. Trace!Body(g) = BytesIn(t, i, a)
  <2>1. Len(g) - 1 = a - i
    BY <1>4, <1>6
  <2>2. [k \in 1 .. Len(g) - 1 |-> g[k + 1].bytes] = [k \in 1 .. a - i |-> t[i + k].bytes]
    BY <1>7, <2>1
  <2>3. Trace!Body(g) = FlattenSeq([k \in 1 .. Len(g) - 1 |-> g[k + 1].bytes])
    BY DEF Trace!Body, Trace!FlattenSeq, FlattenSeq
  <2>4. BytesIn(t, i, a) = FlattenSeq([k \in 1 .. a - i |-> t[i + k].bytes])
    BY DEF BytesIn
  <2> QED
    BY <2>2, <2>3, <2>4
<1>9. PacketIn(t, i).bytes = BytesIn(t, i, a) /\ PacketIn(t, i).time = t[i].time \div 1000
  BY <1>5 DEF PacketIn
<1>10. Trace!Written(g) = IF IsPacket(t, i) THEN RecordOf(PacketIn(t, i)) ELSE <<>>
  <2>1. Trace!Millis(g[1].time) = PacketIn(t, i).time
    BY <1>7, <1>9 DEF Trace!Millis
  <2>2. Trace!Body(g) = PacketIn(t, i).bytes
    BY <1>8, <1>9
  <2>3. g[1].kind = t[i].kind
    BY <1>7
  <2> QED
    BY <2>1, <2>2, <2>3, Zenon DEF Trace!Written, RecordOf, IsPacket
<1> QED
  BY <1>1, <1>2, <1>3, <1>10

(* After it the file holds the packets of all lines up to this one.        *)
LEMMA AfterGroup ==
  ASSUME NEW t \in TraceText, NEW a \in 0 .. Len(t), NEW n \in 0 .. Len(t), NEW g,
         NEW told, ToldBy(told, t),
         GroupOf(t, g, a, n), a = Len(t) \/ t[a + 1].kind # "bytes",
         NEW off, EndsOf(off, t), NEW f \in Seq(Nat), Len(f) = off[n], RecordsOf(t, off, n, f),
         NEW h, g = <<>> => h = f, g # <<>> => h = f \o Trace!Written(g)
  PROVE  h \in Seq(Nat) /\ Len(h) = off[a] /\ RecordsOf(t, off, a, h)
<1>0. Len(t) \in Nat /\ a \in Nat /\ n \in Nat /\ a <= Len(t)
  BY DEF TraceText
<1>1. CASE g = <<>>
  <2>1. a = n
    <3>1. ASSUME n + 1 \in 1 .. a, g = [k \in 1 .. a - n |-> t[n + k]] PROVE FALSE
      <4>1. Len(g) = a - n /\ a - n > 0
        BY <1>0, <3>1
      <4> QED
        BY <1>1, <4>1
    <3> QED
      BY <3>1 DEF GroupOf
  <2> QED
    BY <1>1, <2>1
<1>2. CASE g # <<>>
  <2>1. /\ n + 1 \in 1 .. a /\ \A k \in n + 2 .. a : ~ IsPacket(t, k)
        /\ Trace!Written(g) = IF IsPacket(t, n + 1) THEN RecordOf(PacketIn(t, n + 1)) ELSE <<>>
    BY <1>2, GroupWritten
  <2>2. PICK i : i = n + 1
    OBVIOUS
  <2>3. PICK p : p = PacketIn(t, i)
    OBVIOUS
  <2>4. i \in 1 .. Len(t) /\ i \in 0 .. Len(t) /\ a \in i .. Len(t) /\ i - 1 = n /\ i \in Nat
    BY <1>0, <2>1, <2>2
  <2>5. p \in Packet /\ Len(p.bytes) \in Nat
    BY <2>3, <2>4, PacketType
  <2>6. off[a] = off[i]
    <3>1. \A k \in i + 1 .. a : ~ IsPacket(t, k)
      BY <1>0, <2>1, <2>2
    <3> QED
      BY <2>4, <3>1, Quiet
  <2>7. off[i] = IF IsPacket(t, i) THEN off[n] + 16 + Len(p.bytes) ELSE off[n]
    BY <2>3, <2>4 DEF EndsOf
  <2>8. \A j \in 1 .. a : IsPacket(t, j) => j \in 1 .. n \/ j = i
    BY <1>0, <2>1, <2>2
  <2>9. \A j \in 1 .. n : off[j - 1] \in Nat /\ PacketIn(t, j) \in Packet
    <3> SUFFICES ASSUME NEW j \in 1 .. n PROVE off[j - 1] \in Nat /\ PacketIn(t, j) \in Packet
      OBVIOUS
    <3>1. j \in 1 .. Len(t) /\ j - 1 \in 0 .. Len(t)
      BY <1>0, <2>4
    <3> QED
      BY <3>1, PacketType DEF EndsOf
  <2>10. CASE IsPacket(t, i)
    <3>1. h = f \o RecordOf(p)
      BY <1>2, <2>1, <2>2, <2>3, <2>10
    <3>2. RecordOf(p) \in Seq(Nat) /\ Len(RecordOf(p)) \in Nat
      BY <2>5, RecordOfType
    <3>3. Extends(h, f, RecordOf(p), Len(RecordOf(p)))
      BY <3>1, <3>2, ExtendsWith
    <3>4. PacketHeld(h, off[n], p) /\ Len(h) = off[n] + 16 + Len(p.bytes)
      BY <2>5, <3>3, NowHeld
    <3>5. ASSUME NEW j \in 1 .. a, IsPacket(t, j) PROVE PacketHeld(h, off[j - 1], PacketIn(t, j))
      <4>1. CASE j = i
        BY <2>3, <2>4, <3>4, <4>1
      <4>2. CASE j \in 1 .. n
        <5>1. PacketHeld(f, off[j - 1], PacketIn(t, j))
          BY <3>5, <4>2 DEF RecordsOf
        <5> QED
          BY <2>9, <3>2, <3>3, <4>2, <5>1, HeldStill
      <4> QED
        BY <2>8, <3>5, <4>1, <4>2
    <3>6. Len(h) = off[a]
      BY <2>6, <2>7, <2>10, <3>4
    <3> QED
      BY <3>3, <3>5, <3>6 DEF RecordsOf, Extends
  <2>11. CASE ~ IsPacket(t, i)
    <3>1. h = f
      BY <1>2, <2>1, <2>2, <2>11
    <3>2. RecordsOf(t, off, a, h)
      BY <2>8, <2>11, <3>1 DEF RecordsOf
    <3>3. off[a] = off[n]
      BY <2>6, <2>7, <2>11
    <3> QED
      BY <3>1, <3>2, <3>3
  <2> QED
    BY <2>10, <2>11
<1> QED
  BY <1>1, <1>2

-----------------------------------------------------------------------------
(* The trace: the total of the lists *)

TotalBy(f, s) ==
  /\ f \in [0 .. Len(s) -> Nat]
  /\ f[0] = 0
  /\ \A n \in 1 .. Len(s) : f[n] = f[n - 1] + Len(s[n].bytes)

LEMMA TotalMeans ==
  ASSUME NEW s \in Packets
  PROVE  \E f : TotalBy(f, s) /\ Trace!TotalSize(s) = f[Len(s)]
<1> DEFINE b == Len(s)
           Step(x, n) == x + Len(s[n].bytes)
           out == CHOOSE out : out = [n \in 0 .. b |-> IF n = 0 THEN 0 ELSE Step(out[n - 1], n)]
           G == [n \in 1 .. b |-> [x \in Nat |-> Step(x, n)]]
<1>0. b \in Nat /\ \A n \in 1 .. b : Len(s[n].bytes) \in Nat
  BY DEF Packets, Packet
<1>1. Trace!TotalSize(s) = out[b]
  BY DEF Trace!TotalSize
<1>2. G \in [1 .. b -> [Nat -> Nat]]
  <2> SUFFICES ASSUME NEW x \in Nat, NEW n \in 1 .. b PROVE Step(x, n) \in Nat
    OBVIOUS
  <2> QED
    BY <1>0
<1>3. PICK f : Iterated(f, 0, G, Nat, b)
  <2> HIDE DEF G, b
  <2> QED
    BY <1>0, <1>2, Recursion
<1>4. f \in [0 .. b -> Nat] /\ f[0] = 0
  BY <1>3 DEF Iterated
<1>5. ASSUME NEW n \in 1 .. b PROVE f[n] = Step(f[n - 1], n)
  <2>1. f[n - 1] \in Nat /\ f[n] = G[n][f[n - 1]]
    BY <1>3 DEF Iterated
  <2> HIDE DEF Step
  <2> QED
    BY <2>1
<1>6. f = [n \in 0 .. b |-> IF n = 0 THEN 0 ELSE Step(f[n - 1], n)]
  <2> HIDE DEF Step
  <2>1. ASSUME NEW n \in 0 .. b PROVE f[n] = IF n = 0 THEN 0 ELSE Step(f[n - 1], n)
    BY <1>4, <1>5
  <2> QED
    BY <1>4, <2>1
<1>7. out = [n \in 0 .. b |-> IF n = 0 THEN 0 ELSE Step(out[n - 1], n)]
  BY <1>6, Zenon
<1> DEFINE P == {n \in Nat : n <= b => out[n] = f[n]}
<1> HIDE DEF out, b, Step
<1>8. out[0] = 0 /\ \A n \in 1 .. b : out[n] = Step(out[n - 1], n)
  BY <1>0, <1>7
<1>9. 0 \in P
  BY <1>4, <1>8
<1>10. ASSUME NEW n \in Nat, n \in P PROVE n + 1 \in P
  <2> SUFFICES ASSUME n + 1 <= b PROVE out[n + 1] = f[n + 1]
    OBVIOUS
  <2>1. n + 1 \in 1 .. b /\ n + 1 - 1 = n /\ n <= b
    BY <1>0
  <2>2. out[n + 1] = Step(out[n], n + 1) /\ f[n + 1] = Step(f[n], n + 1)
    BY <1>5, <1>8, <2>1
  <2> QED
    BY <1>10, <2>1, <2>2
<1> HIDE DEF P
<1>11. b \in P
  BY <1>0, <1>9, <1>10, Induction
<1>12. TotalBy(f, s)
  BY <1>4, <1>5 DEF TotalBy, b, Step
<1> QED
  BY <1>0, <1>1, <1>11, <1>12 DEF P, b

LEMMA TotalOfNone == Trace!TotalSize(<<>>) = 0
<1>1. <<>> \in Packets /\ Len(<<>>) = 0
  BY DEF Packets
<1> QED
  BY <1>1, TotalMeans DEF TotalBy

LEMMA TotalOfOneMore ==
  ASSUME NEW s \in Packets, NEW p \in Packet
  PROVE  /\ Append(s, p) \in Packets /\ Len(Append(s, p)) = Len(s) + 1
         /\ Append(s, p)[Len(s) + 1] = p
         /\ \A i \in 1 .. Len(s) : Append(s, p)[i] = s[i]
         /\ Trace!TotalSize(Append(s, p)) = Trace!TotalSize(s) + Len(p.bytes)
<1> DEFINE u == Append(s, p)
           b == Len(s)
<1>1. u \in Packets /\ Len(u) = b + 1 /\ u[b + 1] = p /\ \A i \in 1 .. b : u[i] = s[i]
  BY DEF Packets
<1>2. b \in Nat
  BY DEF Packets
<1>3. PICK f : TotalBy(f, s) /\ Trace!TotalSize(s) = f[b]
  BY TotalMeans
<1> HIDE DEF u
<1>4. PICK g : TotalBy(g, u) /\ Trace!TotalSize(u) = g[b + 1]
  BY <1>1, TotalMeans
<1> DEFINE P == {n \in Nat : n <= b => f[n] = g[n]}
<1>5. 0 \in P
  BY <1>3, <1>4 DEF TotalBy
<1>6. ASSUME NEW n \in Nat, n \in P PROVE n + 1 \in P
  <2> SUFFICES ASSUME n + 1 <= b PROVE f[n + 1] = g[n + 1]
    OBVIOUS
  <2>1. n + 1 \in 1 .. b /\ n + 1 \in 1 .. b + 1 /\ n + 1 - 1 = n /\ n <= b
    BY <1>2
  <2>2. f[n + 1] = f[n] + Len(s[n + 1].bytes) /\ g[n + 1] = g[n] + Len(u[n + 1].bytes)
    BY <1>1, <1>3, <1>4, <2>1 DEF TotalBy
  <2>3. f[n] = g[n] /\ s[n + 1] = u[n + 1]
    BY <1>1, <1>6, <2>1
  <2> QED
    BY <2>2, <2>3
<1>7. f[b] = g[b]
  <2> HIDE DEF P
  <2>1. b \in P
    BY <1>2, <1>5, <1>6, Induction
  <2> QED
    BY <1>2, <2>1 DEF P
<1>8. g[b + 1] = g[b] + Len(p.bytes)
  <2>1. b + 1 \in 1 .. Len(u) /\ b + 1 - 1 = b
    BY <1>1, <1>2
  <2>2. g[b + 1] = g[b] + Len(u[b + 1].bytes)
    BY <1>4, <2>1 DEF TotalBy
  <2> QED
    BY <1>1, <2>2
<1> QED
  BY <1>1, <1>3, <1>4, <1>7, <1>8 DEF u

-----------------------------------------------------------------------------
(* The trace: how the file is written *)

LEMMA ReaderStarts ==
  ASSUME NEW told, NEW off, NEW n, NEW first, text \in TraceText, repeat \in Nat,
         ToldBy(told, text), EndsOf(off, text), FirstOver(told[Len(text)], first),
         n \in 0 .. Len(text), NothingRead, phase # "exit"
  PROVE  ReaderHeld(told, off, n, first)
<1>1. Len(text) \in Nat /\ round = 0 /\ pos = 0 /\ list = <<>> /\ done = FALSE /\ size = 0
  BY DEF NothingRead, TraceText
<1>2. told[0] = <<>> /\ off[0] = 0 /\ Len(told[n]) \in Nat
  BY ToldTypes DEF ToldBy, EndsOf
<1>3. first \in Nat
  <2>1. Len(told[Len(text)]) \in Nat
    BY <1>1, ToldTypes
  <2> QED
    BY <2>1 DEF FirstOver
<1>4. list \in Packets /\ Len(list) = 0 /\ Len(told[0]) = 0
  BY <1>1, <1>2 DEF Packets
<1>5. InPlace(told, off, n, 0)
  <2>1. 0 \in 0 .. n /\ 0 \in 0 .. repeat
    BY <1>1
  <2>2. Len(list) = round * Len(told[n]) + Len(told[0])
    BY <1>1, <1>2, <1>4
  <2>3. \A i \in 1 .. Len(list) : FALSE
    BY <1>4
  <2>4. size = Trace!TotalSize(list)
    BY <1>1, TotalOfNone
  <2> QED
    BY <1>1, <1>2, <2>1, <2>2, <2>3, <2>4 DEF InPlace
<1> QED
  BY <1>1, <1>3, <1>4, <1>5 DEF ReaderHeld


LEMMA NewPacketStep ==
  ASSUME TraceInv, Trace!NewPacket
  PROVE  TraceInv'
<1>1. TraceTypes
  BY DEF TraceInv
<1>2. PICK told, off, n, first : PacketsHeld(told, off, n, first)
  BY DEF TraceInv
<1>3. /\ text \in TraceText /\ Len(text) \in Nat /\ at \in 0 .. Len(text) /\ n \in 0 .. Len(text)
      /\ file \in Seq(Nat) /\ ToldBy(told, text) /\ EndsOf(off, text) /\ TraceHeld(off, n)
  BY <1>1, <1>2, TraceFacts
<1>4. /\ phase = "convert" /\ at < Len(text) /\ text[at + 1].kind # "bytes"
      /\ file' = IF lines = <<>> THEN file ELSE file \o Trace!Written(lines)
      /\ lines' = <<text[at + 1]>> /\ at' = at + 1
      /\ text' = text /\ repeat' = repeat /\ phase' = phase /\ cut' = cut
      /\ round' = round /\ pos' = pos /\ list' = list /\ done' = done /\ size' = size
  BY DEF Trace!NewPacket, Trace!Converting, Trace!Line, Trace!reader
<1>m. PICK m : m = at
  OBVIOUS
<1>a. PICK a : a = m + 1
  OBVIOUS
<1>5. Len(file) = off[n] /\ ~ cut /\ GroupOf(text, lines, m, n) /\ RecordsOf(text, off, n, file)
  BY <1>3, <1>4, <1>m DEF TraceHeld
<1>6. file' \in Seq(Nat) /\ Len(file') = off[m] /\ RecordsOf(text, off, m, file')
  <2>1. m \in 0 .. Len(text) /\ (m = Len(text) \/ text[m + 1].kind # "bytes")
    BY <1>3, <1>4, <1>m
  <2>2. (lines = <<>> => file' = file) /\ (lines # <<>> => file' = file \o Trace!Written(lines))
    BY <1>4
  <2> QED
    BY <1>3, <1>5, <2>1, <2>2, AfterGroup
<1>7. GroupOf(text, lines', a, m)
  <2>1. m + 1 \in 1 .. a /\ a - m = 1 /\ \A k \in m + 2 .. a : FALSE
    BY <1>3, <1>a, <1>m
  <2>2. lines' = [k \in 1 .. a - m |-> text[m + k]]
    <3>1. <<text[m + 1]>> = [k \in 1 .. 1 |-> text[m + k]]
      OBVIOUS
    <3> QED
      BY <1>4, <1>m, <2>1, <3>1
  <2>3. text[m + 1].kind # "bytes"
    BY <1>4, <1>m
  <2> QED
    BY <2>1, <2>2, <2>3, GroupIs
<1>8. TraceHeld(off, m)'
  BY <1>3, <1>4, <1>5, <1>6, <1>7, <1>a, <1>m DEF TraceHeld
<1>9. TraceTypes'
  <2>1. at + 1 \in 0 .. Len(text)
    BY <1>3, <1>4
  <2> QED
    BY <1>1, <1>4, <1>6, <2>1 DEF TraceTypes
<1>10. NothingRead'
  BY <1>2, <1>4 DEF PacketsHeld, NothingRead
<1>11. PacketsHeld(told, off, m, first)'
  BY <1>2, <1>4, <1>8, <1>10 DEF PacketsHeld
<1> QED
  BY <1>9, <1>11 DEF TraceInv

(* The converter ends. *)
LEMMA TraceEnds ==
  ASSUME TraceInv, NEW told, NEW off, NEW n, NEW first, PacketsHeld(told, off, n, first),
         phase = "convert", Trace!StartReading, cut' \in BOOLEAN, file' \in Seq(Nat),
         NEW m \in 0 .. Len(text), RecordsOf(text, off, m, file'),
         \/ Len(file') = off[m] /\ (cut' \/ m = Len(text))
         \/ /\ cut' /\ m < Len(text) /\ IsPacket(text, m + 1)
            /\ PacketBroken(file', off[m], PacketIn(text, m + 1))
  PROVE  TraceInv'
<1>1. /\ phase' = "read" /\ text' = text /\ repeat' = repeat /\ at' = at /\ lines' = lines
      /\ round' = round /\ pos' = pos /\ list' = list /\ done' = done /\ size' = size
  BY DEF Trace!StartReading, Trace!reader
<1>2. TraceTypes /\ NothingRead
  BY DEF TraceInv, PacketsHeld
<1>3. TraceTypes'
  BY <1>1, <1>2 DEF TraceTypes
<1>4. ToldBy(told, text) /\ EndsOf(off, text) /\ FirstOver(told[Len(text)], first)
  BY DEF PacketsHeld
<1>5. TraceHeld(off, m)'
  BY <1>1 DEF TraceHeld
<1>6. ReaderHeld(told, off, m, first)'
  <2>1. ReaderHeld(told, off, m, first)
    BY <1>2, <1>4, ReaderStarts DEF TraceTypes
  <2>2. InPlace(told, off, m, 0)' <=> InPlace(told, off, m, 0)
    BY <1>1 DEF InPlace
  <2> QED
    BY <1>1, <2>1, <2>2 DEF ReaderHeld, LostPlace, InPlace
<1>7. PacketsHeld(told, off, m, first)'
  BY <1>1, <1>4, <1>5, <1>6 DEF PacketsHeld
<1> QED
  BY <1>3, <1>7 DEF TraceInv

LEMMA TraceConversionEnds ==
  ASSUME TraceInv, Trace!ConverterFails \/ Trace!DiskFull \/ Trace!ConverterDone
  PROVE  TraceInv'
<1>1. TraceTypes
  BY DEF TraceInv
<1>2. PICK told, off, n, first : PacketsHeld(told, off, n, first)
  BY DEF TraceInv
<1>3. /\ text \in TraceText /\ Len(text) \in Nat /\ at \in 0 .. Len(text) /\ n \in 0 .. Len(text)
      /\ file \in Seq(Nat) /\ ToldBy(told, text) /\ EndsOf(off, text) /\ TraceHeld(off, n)
      /\ \A i \in 0 .. Len(text) : off[i] \in Nat
      /\ \A i \in 1 .. Len(text) : PacketIn(text, i) \in Packet
  BY <1>1, <1>2, TraceFacts
<1>4. phase = "convert" /\ Trace!StartReading
  BY DEF Trace!ConverterFails, Trace!DiskFull, Trace!ConverterDone, Trace!Converting
<1>5. /\ Len(file) = off[n] /\ ~ cut /\ GroupOf(text, lines, at, n)
      /\ RecordsOf(text, off, n, file) /\ cut \in BOOLEAN
  BY <1>1, <1>3, <1>4 DEF TraceHeld, TraceTypes
<1>6. CASE Trace!ConverterFails
  <2>1. cut' = TRUE /\ file' = file
    BY <1>6 DEF Trace!ConverterFails
  <2>2. file' \in Seq(Nat) /\ RecordsOf(text, off, n, file') /\ Len(file') = off[n]
    BY <1>3, <1>5, <2>1
  <2> QED
    BY <1>2, <1>3, <1>4, <2>1, <2>2, TraceEnds
<1>7. CASE Trace!ConverterDone
  <2>1. cut' = cut /\ at = Len(text)
        /\ file' = IF lines = <<>> THEN file ELSE file \o Trace!Written(lines)
    BY <1>7 DEF Trace!ConverterDone
  <2>2. file' \in Seq(Nat) /\ Len(file') = off[at] /\ RecordsOf(text, off, at, file')
    <3>1. (lines = <<>> => file' = file) /\ (lines # <<>> => file' = file \o Trace!Written(lines))
      BY <2>1
    <3>2. PICK m : m = at
      OBVIOUS
    <3>3. /\ m \in 0 .. Len(text) /\ (m = Len(text) \/ text[m + 1].kind # "bytes")
          /\ GroupOf(text, lines, m, n)
      BY <1>3, <1>5, <2>1, <3>2
    <3>4. file' \in Seq(Nat) /\ Len(file') = off[m] /\ RecordsOf(text, off, m, file')
      BY <1>3, <1>5, <3>1, <3>3, AfterGroup
    <3> QED
      BY <3>2, <3>4
  <2> QED
    BY <1>2, <1>3, <1>4, <1>5, <2>1, <2>2, TraceEnds
<1>8. CASE Trace!DiskFull
  <2>1. /\ lines # <<>> /\ cut' = TRUE
        /\ at < Len(text) => text[at + 1].kind # "bytes"
        /\ \E k \in 0 .. TraceCuts : /\ k < Len(Trace!Written(lines))
                                     /\ file' = file \o SubSeq(Trace!Written(lines), 1, k)
    BY <1>8 DEF Trace!DiskFull, Trace!Line
  <2>2. PICK k \in 0 .. TraceCuts : /\ k < Len(Trace!Written(lines))
                                    /\ file' = file \o SubSeq(Trace!Written(lines), 1, k)
    BY <2>1
  <2>3. at = Len(text) \/ text[at + 1].kind # "bytes"
    BY <1>3, <2>1
  <2>4. /\ n + 1 \in 1 .. at
        /\ Trace!Written(lines) = IF IsPacket(text, n + 1) THEN RecordOf(PacketIn(text, n + 1))
                                  ELSE <<>>
    BY <1>3, <1>5, <2>1, <2>3, GroupWritten
  <2>5. n + 1 \in 1 .. Len(text) /\ n < Len(text) /\ k \in Nat
    BY <1>3, <2>4
  <2>6. PICK p : p = PacketIn(text, n + 1)
    OBVIOUS
  <2>7. p \in Packet
    BY <1>3, <2>5, <2>6
  <2>8. IsPacket(text, n + 1)
    <3> SUFFICES ASSUME Trace!Written(lines) = <<>> PROVE FALSE
      BY <2>4
    <3>1. Len(<<>>) = 0
      OBVIOUS
    <3> QED
      BY <2>2, <2>5, <3>1
  <2>9. PICK r : r = RecordOf(p)
    OBVIOUS
  <2>10. r \in Seq(Nat) /\ Len(r) \in Nat /\ k < Len(r) /\ file' = file \o SubSeq(r, 1, k)
    <3>1. Trace!Written(lines) = r
      BY <2>4, <2>6, <2>8, <2>9
    <3>2. r \in Seq(Nat)
      BY <2>7, <2>9, RecordOfType
    <3> QED
      BY <2>2, <3>1, <3>2
  <2>11. Extends(file', file, r, k)
    <3>1. k \in 0 .. Len(r)
      BY <2>5, <2>10
    <3> QED
      BY <1>3, <2>10, <3>1, ExtendsBy
  <2>12. PacketBroken(file', off[n], p)
    BY <1>3, <1>5, <2>5, <2>7, <2>9, <2>10, <2>11, NowBroken
  <2>13. RecordsOf(text, off, n, file')
    <3> SUFFICES ASSUME NEW j \in 1 .. n, IsPacket(text, j)
                 PROVE  PacketHeld(file', off[j - 1], PacketIn(text, j))
      BY DEF RecordsOf
    <3>1. j \in 1 .. Len(text) /\ j - 1 \in 0 .. Len(text)
      BY <1>3
    <3>2. PacketHeld(file, off[j - 1], PacketIn(text, j))
      BY <1>5 DEF RecordsOf
    <3>3. off[j - 1] \in Nat /\ PacketIn(text, j) \in Packet
      BY <1>3, <3>1
    <3> QED
      BY <1>3, <2>5, <2>11, <3>2, <3>3, HeldStill
  <2>14. file' \in Seq(Nat)
    BY <2>11 DEF Extends
  <2> QED
    BY <1>2, <1>3, <1>4, <2>1, <2>5, <2>6, <2>8, <2>12, <2>13, <2>14, TraceEnds
<1> QED
  BY <1>6, <1>7, <1>8

-----------------------------------------------------------------------------
(* The trace: how the file is read *)

LEMMA Remainder ==
  ASSUME NEW k \in Nat, NEW r \in Nat, NEW c \in Nat, c < k
  PROVE  (r * k + c) % k = c
<1> DEFINE x == r * k + c
           q == x \div k
           u == x % k
<1>1. x \in Nat /\ r * k \in Nat
  OBVIOUS
<1>2. q \in Int /\ u \in 0 .. k - 1 /\ x = k * q + u
  BY <1>1
<1>3. x = k * r + c
  OBVIOUS
<1> HIDE DEF x, q, u
<1>4. k * (q - r) = c - u
  <2>1. k * (q - r) = k * q - k * r
    BY <1>2
  <2> QED
    BY <1>2, <1>3, <2>1
<1>5. q = r
  <2> DEFINE d == q - r
  <2>1. d \in Int /\ k * d = c - u
    BY <1>2, <1>4
  <2>2. c - u < k /\ c - u > - k
    BY <1>2
  <2> HIDE DEF d
  <2>3. d >= 1 => k * d >= k
    BY <2>1
  <2>4. d <= - 1 => k * d <= - k
    BY <2>1
  <2>5. d = 0
    BY <1>2, <2>1, <2>2, <2>3, <2>4
  <2> QED
    BY <1>2, <2>5 DEF d
<1>6. u = c
  BY <1>2, <1>3, <1>5
<1> QED
  BY <1>6 DEF u, x

(* What follows in the file behind the m-th line.                          *)
LEMMA WhatFollows ==
  ASSUME TraceTypes, NEW told, NEW off, NEW n, NEW first, PacketsHeld(told, off, n, first),
         NEW m \in 0 .. n, pos = off[m]
  PROVE  \/ told[n] = told[m] /\ off[n] = pos
         \/ \E i \in m + 1 .. n :
              /\ IsPacket(text, i) /\ told[i - 1] = told[m]
              /\ PacketHeld(file, pos, PacketIn(text, i))
              /\ off[i] = pos + 16 + Len(PacketIn(text, i).bytes)
<1>1. /\ text \in TraceText /\ Len(text) \in Nat /\ n \in 0 .. Len(text)
      /\ ToldBy(told, text) /\ EndsOf(off, text) /\ TraceHeld(off, n)
  BY TraceFacts
<1>2. m \in 0 .. Len(text) /\ n \in m .. Len(text) /\ m \in Nat /\ n \in Nat
  BY <1>1
<1>3. CASE \A k \in m + 1 .. n : ~ IsPacket(text, k)
  BY <1>1, <1>2, <1>3, Quiet
<1>4. ASSUME NEW i \in m + 1 .. n, IsPacket(text, i), \A k \in m + 1 .. i - 1 : ~ IsPacket(text, k)
      PROVE  /\ told[i - 1] = told[m] /\ PacketHeld(file, pos, PacketIn(text, i))
             /\ off[i] = pos + 16 + Len(PacketIn(text, i).bytes)
  <2>1. i \in 1 .. n /\ i \in 1 .. Len(text) /\ i - 1 \in m .. Len(text)
    BY <1>1, <1>2
  <2>2. PICK j : j = i - 1
    OBVIOUS
  <2>3. told[j] = told[m] /\ off[j] = off[m]
    BY <1>1, <1>2, <1>4, <2>1, <2>2, Quiet
  <2>4. PacketHeld(file, off[j], PacketIn(text, i))
    BY <1>1, <1>4, <2>1, <2>2 DEF TraceHeld, RecordsOf
  <2>5. off[i] = off[j] + 16 + Len(PacketIn(text, i).bytes)
    BY <1>1, <1>4, <2>1, <2>2 DEF EndsOf
  <2> QED
    BY <2>2, <2>3, <2>4, <2>5
<1> QED
  BY <1>1, <1>2, <1>3, <1>4, NextPacketOf

(* The next packet that is told is the next of all that is told.           *)
LEMMA NextTold ==
  ASSUME NEW t \in TraceText, NEW told, ToldBy(told, t), NEW i \in 1 .. Len(t), IsTold(t, i),
         NEW n \in i .. Len(t), NEW c, c = Len(told[i - 1])
  PROVE  /\ c \in Nat /\ Len(told[i]) = c + 1 /\ c + 1 <= Len(told[n])
         /\ told[n][c + 1] = PacketIn(t, i)
<1>1. Len(t) \in Nat /\ i - 1 \in 0 .. Len(t) /\ i \in 0 .. n /\ n \in 0 .. Len(t)
  BY DEF TraceText
<1>2. told[i - 1] \in Packets /\ c \in Nat
  BY <1>1, ToldTypes
<1>3. PICK p : p = PacketIn(t, i)
  OBVIOUS
<1>4. p \in Packet
  BY <1>3, PacketType
<1>5. told[i] = Append(told[i - 1], p)
  BY <1>3 DEF ToldBy
<1>6. Len(told[i]) = c + 1 /\ told[i][c + 1] = p
  BY <1>2, <1>4, <1>5 DEF Packets
<1>7. Len(told[i]) <= Len(told[n]) /\ \A j \in 1 .. Len(told[i]) : told[n][j] = told[i][j]
  BY <1>1, ToldGrows
<1>8. c + 1 \in 1 .. c + 1
  BY <1>2
<1>9. told[n][c + 1] = p
  BY <1>6, <1>7, <1>8
<1> QED
  BY <1>2, <1>3, <1>6, <1>7, <1>9

LEMMA NextOver ==
  ASSUME NEW t \in TraceText, NEW told, ToldBy(told, t), NEW i \in 1 .. Len(t), IsTold(t, i),
         NEW first, FirstOver(told[Len(t)], first), NEW c, c = Len(told[i - 1]), c <= first
  PROVE  IF Over(PacketIn(t, i)) THEN first = c /\ first < Len(told[Len(t)])
         ELSE Len(told[i]) <= first
<1>1. PICK l : l = Len(t)
  OBVIOUS
<1>2. l \in Nat /\ l \in i .. Len(t) /\ l \in 0 .. Len(t)
  BY <1>1 DEF TraceText
<1>3. /\ c \in Nat /\ Len(told[i]) = c + 1 /\ c + 1 <= Len(told[l])
      /\ told[l][c + 1] = PacketIn(t, i)
  <2>1. \A n \in i .. Len(t) : /\ c \in Nat /\ Len(told[i]) = c + 1 /\ c + 1 <= Len(told[n])
                               /\ told[n][c + 1] = PacketIn(t, i)
    BY NextTold
  <2> QED
    BY <1>2, <2>1
<1>4. Len(told[l]) \in Nat
  BY <1>2, ToldTypes
<1>5. /\ first \in 0 .. Len(told[l]) /\ \A j \in 1 .. first : ~ Over(told[l][j])
      /\ first < Len(told[l]) => Over(told[l][first + 1])
  BY <1>1 DEF FirstOver
<1>6. CASE Over(PacketIn(t, i))
  <2>1. ~ (c + 1 \in 1 .. first)
    BY <1>3, <1>5, <1>6
  <2>2. first = c
    BY <1>3, <1>4, <1>5, <2>1
  <2> QED
    BY <1>1, <1>3, <1>4, <1>6, <2>2
<1>7. CASE ~ Over(PacketIn(t, i))
  <2>1. first # c
    BY <1>3, <1>4, <1>5, <1>7
  <2> QED
    BY <1>3, <1>4, <1>5, <1>7, <2>1
<1> QED
  BY <1>6, <1>7

(* Where the reader is in its place it sees the next packet of the text,   *)
(* which is in the file if the file was not cut there.                     *)
LEMMA AtHeader ==
  ASSUME TraceTypes, NEW told, NEW off, NEW n, NEW first, PacketsHeld(told, off, n, first),
         NEW m, InPlace(told, off, n, m), Trace!Reading
  PROVE  \E i \in m + 1 .. Len(text) :
           /\ IsPacket(text, i) /\ told[i - 1] = told[m]
           /\ Trace!PacketSize = Len(PacketIn(text, i).bytes)
           /\ \/ /\ i <= n /\ PacketHeld(file, pos, PacketIn(text, i))
                 /\ off[i] = pos + 16 + Len(PacketIn(text, i).bytes)
              \/ /\ cut /\ Len(PacketIn(text, i).bytes) > 0
                 /\ Len(file) < pos + 16 + Len(PacketIn(text, i).bytes)
<1>1. /\ text \in TraceText /\ Len(text) \in Nat /\ n \in 0 .. Len(text)
      /\ ToldBy(told, text) /\ EndsOf(off, text) /\ TraceHeld(off, n) /\ Len(file) \in Nat
      /\ \A i \in 0 .. Len(text) : off[i] \in Nat
      /\ \A i \in 1 .. Len(text) : PacketIn(text, i) \in Packet
  BY TraceFacts
<1>2. phase = "read" /\ Len(file) - pos >= 16
  BY DEF Trace!Reading, Trace!Left, Trace!HEADER_SIZE
<1>3. m \in 0 .. n /\ pos = off[m]
  BY DEF InPlace
<1>4. m \in Nat /\ n \in Nat /\ pos \in Nat /\ pos + 16 <= Len(file)
  <2>1. m \in 0 .. Len(text)
    BY <1>1, <1>3
  <2>2. pos \in Nat
    BY <1>1, <1>3, <2>1
  <2> QED
    BY <1>1, <1>2, <1>3, <2>2
<1>5. Trace!PacketSize = UIntIn(file, pos)
  BY DEF Trace!PacketSize, Trace!readUIntValue, UIntIn
<1>6. CASE told[n] = told[m] /\ off[n] = pos
  <2>1. cut /\ n < Len(text) /\ IsPacket(text, n + 1)
          /\ PacketBroken(file, off[n], PacketIn(text, n + 1))
    BY <1>1, <1>2, <1>4, <1>6 DEF TraceHeld
  <2>2. PICK i : i = n + 1
    OBVIOUS
  <2>3. i \in m + 1 .. Len(text) /\ i - 1 = n /\ i \in 1 .. Len(text)
    BY <1>1, <1>3, <1>4, <2>1, <2>2
  <2>4. PICK l : l = Len(PacketIn(text, i).bytes)
    OBVIOUS
  <2>5. l \in Nat
    BY <1>1, <2>3, <2>4 DEF Packet
  <2>6. Len(file) < pos + 16 + l /\ UIntIn(file, pos) = l
    BY <1>4, <1>6, <2>1, <2>2, <2>4 DEF PacketBroken
  <2>7. l > 0
    BY <1>1, <1>4, <2>5, <2>6
  <2>8. told[i - 1] = told[m] /\ IsPacket(text, i)
    BY <1>6, <2>1, <2>2, <2>3
  <2> QED
    BY <1>5, <2>1, <2>3, <2>4, <2>6, <2>7, <2>8
<1>7. ASSUME NEW i \in m + 1 .. n, IsPacket(text, i), told[i - 1] = told[m],
             PacketHeld(file, pos, PacketIn(text, i)),
             off[i] = pos + 16 + Len(PacketIn(text, i).bytes)
      PROVE  i \in m + 1 .. Len(text) /\ i <= n
             /\ Trace!PacketSize = Len(PacketIn(text, i).bytes)
  BY <1>1, <1>4, <1>5, <1>7 DEF PacketHeld
<1> QED
  BY <1>3, <1>6, <1>7, WhatFollows

(* Behind a packet that is too long it has read all that are before it.    *)
LEMMA PlaceLost ==
  ASSUME TraceTypes, NEW told, NEW off, NEW n, NEW first, PacketsHeld(told, off, n, first),
         NEW m, InPlace(told, off, n, m), first = Len(told[m]), first < Len(told[Len(text)])
  PROVE  LostPlace(told[Len(text)], first)
<1> SUFFICES ASSUME round = 0
             PROVE  first <= Len(list) /\ \A i \in 1 .. first : list[i] = told[Len(text)][i]
  BY DEF LostPlace
<1>1. /\ text \in TraceText /\ Len(text) \in Nat /\ n \in 0 .. Len(text) /\ ToldBy(told, text)
  BY TraceFacts
<1>2. m \in 0 .. n /\ m \in 0 .. Len(text) /\ n \in 0 .. Len(text) /\ Len(text) \in 0 .. Len(text)
  BY <1>1 DEF InPlace
<1>3. PICK k : k = Len(told[n])
  OBVIOUS
<1>4. k \in Nat /\ first \in Nat /\ first <= k
  <2>1. Len(told[n]) \in Nat /\ Len(told[m]) \in Nat
    BY <1>1, <1>2, ToldTypes
  <2>2. Len(told[m]) <= Len(told[n])
    BY <1>1, <1>2, ToldGrows
  <2> QED
    BY <1>3, <2>1, <2>2
<1>5. /\ Len(list) = first
      /\ \A i \in 1 .. Len(list) : list[i] = told[n][1 + ((i - 1) % k)]
  <2>1. Len(list) = round * k + first /\ round = 0
    BY <1>3 DEF InPlace
  <2>2. 0 * k + first = first
    <3>1. \A x, y \in Nat : 0 * x + y = y
      OBVIOUS
    <3> QED
      BY <1>4, <3>1, Zenon
  <2>3. \A i \in 1 .. Len(list) : list[i] = told[n][1 + ((i - 1) % k)]
    BY <1>3 DEF InPlace
  <2> QED
    BY <2>1, <2>2, <2>3
<1>6. ASSUME NEW i \in 1 .. first PROVE list[i] = told[Len(text)][i]
  <2>1. PICK c : c = i - 1
    OBVIOUS
  <2>2. c \in Nat /\ c < k /\ 1 + c = i /\ 0 * k + c = c
    BY <1>4, <2>1
  <2>3. c % k = c
    <3>1. (0 * k + c) % k = c
      BY <1>4, <2>2, Remainder
    <3> QED
      BY <2>2, <3>1
  <2>4. list[i] = told[n][i]
    <3>1. list[i] = told[n][1 + (c % k)]
      BY <1>5, <2>1
    <3> QED
      BY <2>2, <2>3, <3>1
  <2>5. i \in 1 .. k
    BY <1>4
  <2>6. told[Len(text)][i] = told[n][i]
    BY <1>1, <1>2, <1>3, <2>5, ToldGrows
  <2> QED
    BY <2>4, <2>6
<1> QED
  BY <1>4, <1>5, <1>6

(* The reader leaves the file as it is.                                    *)
LEMMA ReaderMoves ==
  ASSUME TraceInv, NEW told, NEW off, NEW n, NEW first, PacketsHeld(told, off, n, first),
         phase # "convert", phase' # "convert", text' = text, repeat' = repeat, at' = at,
         file' = file, cut' = cut, ReaderHeld(told, off, n, first)'
  PROVE  TraceInv'
<1>1. TraceTypes
  BY DEF TraceInv
<1>2. TraceTypes'
  BY <1>1 DEF TraceTypes
<1>3. /\ ToldBy(told, text) /\ EndsOf(off, text) /\ FirstOver(told[Len(text)], first)
      /\ TraceHeld(off, n)
  BY DEF PacketsHeld
<1>4. TraceHeld(off, n)'
  BY <1>3 DEF TraceHeld
<1>5. PacketsHeld(told, off, n, first)'
  BY <1>3, <1>4 DEF PacketsHeld
<1> QED
  BY <1>2, <1>5 DEF TraceInv

LEMMA SkipHeaderStep ==
  ASSUME MaxPacketSize \in Nat, TraceInv, Trace!SkipHeader
  PROVE  TraceInv'
<1>1. TraceTypes
  BY DEF TraceInv
<1>2. PICK told, off, n, first : PacketsHeld(told, off, n, first)
  BY DEF TraceInv
<1>3. /\ text \in TraceText /\ Len(text) \in Nat /\ n \in 0 .. Len(text)
      /\ ToldBy(told, text) /\ EndsOf(off, text)
      /\ \A i \in 1 .. Len(text) : PacketIn(text, i) \in Packet
  BY <1>1, <1>2, TraceFacts
<1>4. /\ Trace!Reading /\ ~ Trace!ValidSize /\ pos' = pos + 16
      /\ text' = text /\ repeat' = repeat /\ at' = at /\ file' = file /\ cut' = cut
      /\ phase' = phase /\ round' = round /\ list' = list /\ done' = done /\ size' = size
  BY DEF Trace!SkipHeader, Trace!converter, Trace!HEADER_SIZE
<1>5. phase = "read" /\ round < repeat
  BY <1>4 DEF Trace!Reading
<1>s. PICK s : s = told[Len(text)]
  OBVIOUS
<1>6. ReaderHeld(told, off, n, first) /\ FirstOver(s, first)
  BY <1>2, <1>5, <1>s DEF PacketsHeld
<1>7. ASSUME LostPlace(s, first) PROVE LostPlace(s, first)'
  BY <1>4, <1>7 DEF LostPlace
<1>8. ASSUME NEW m, InPlace(told, off, n, m), Len(told[m]) <= first
      PROVE  \/ \E i : InPlace(told, off, n, i)' /\ Len(told[i]) <= first
             \/ LostPlace(s, first)'
  <2>1. PICK i \in m + 1 .. Len(text) :
           /\ IsPacket(text, i) /\ told[i - 1] = told[m]
           /\ Trace!PacketSize = Len(PacketIn(text, i).bytes)
           /\ \/ /\ i <= n /\ PacketHeld(file, pos, PacketIn(text, i))
                 /\ off[i] = pos + 16 + Len(PacketIn(text, i).bytes)
              \/ /\ cut /\ Len(PacketIn(text, i).bytes) > 0
                 /\ Len(file) < pos + 16 + Len(PacketIn(text, i).bytes)
    BY <1>1, <1>2, <1>4, <1>8, AtHeader
  <2>2. PICK l : l = Len(PacketIn(text, i).bytes)
    OBVIOUS
  <2>3. m \in 0 .. n /\ m \in Nat /\ pos = off[m] /\ pos \in Nat
    <3>1. m \in 0 .. n /\ pos = off[m]
      BY <1>8 DEF InPlace
    <3>2. m \in 0 .. Len(text)
      BY <1>3, <3>1
    <3> QED
      BY <1>3, <3>1, <3>2 DEF EndsOf
  <2>4. i \in 1 .. Len(text)
    BY <1>3, <2>3
  <2>5. l \in Nat /\ (PacketIn(text, i).bytes = <<>> <=> l = 0)
    BY <1>3, <2>2, <2>4, PacketType
  <2>6. ~ (l \in 1 .. MaxPacketSize)
    BY <1>4, <2>1, <2>2 DEF Trace!ValidSize
  <2>7. CASE l = 0
    <3>1. i <= n /\ off[i] = pos + 16
      BY <2>1, <2>2, <2>3, <2>7
    <3>2. told[i] = told[m]
      <4>1. ~ IsTold(text, i)
        BY <2>5, <2>7 DEF IsTold
      <4> QED
        BY <1>3, <2>1, <2>4, <4>1 DEF ToldBy
    <3>3. i \in 0 .. n
      BY <1>3, <2>4, <3>1
    <3>4. InPlace(told, off, n, i)'
      BY <1>4, <1>5, <1>8, <3>1, <3>2, <3>3 DEF InPlace
    <3> QED
      BY <1>8, <3>2, <3>4
  <2>8. CASE l > MaxPacketSize
    <3>1. IsTold(text, i) /\ Over(PacketIn(text, i))
      BY <2>1, <2>2, <2>5, <2>8 DEF IsTold, Over
    <3>2. first = Len(told[m]) /\ first < Len(s)
      BY <1>3, <1>6, <1>8, <1>s, <2>1, <2>4, <3>1, NextOver
    <3> QED
      BY <1>1, <1>2, <1>7, <1>8, <1>s, <3>2, PlaceLost
  <2> QED
    BY <2>5, <2>6, <2>7, <2>8
<1>9. ReaderHeld(told, off, n, first)'
  <2>1. pos' \in Nat /\ phase' # "exit"
    BY <1>4, <1>5, <1>6 DEF ReaderHeld
  <2> QED
    BY <1>4, <1>5, <1>6, <1>7, <1>8, <1>s, <2>1 DEF ReaderHeld
<1> QED
  BY <1>2, <1>4, <1>5, <1>9, ReaderMoves

LEMMA ReadFacts ==
  ASSUME MaxPacketSize \in Nat, file \in Seq(Nat), pos \in Nat, Trace!ReadPacket
  PROVE  /\ Trace!PacketSize \in 1 .. MaxPacketSize
         /\ pos + 16 + Trace!PacketSize <= Len(file)
         /\ [time |-> UIntIn(file, pos + 12),
             bytes |-> SubSeq(file, pos + 17, pos + 16 + Trace!PacketSize)] \in Packet
<1>1. PICK l : l = Trace!PacketSize
  OBVIOUS
<1>2. l \in 1 .. MaxPacketSize /\ l \in Nat
  BY <1>1 DEF Trace!ReadPacket, Trace!ValidSize
<1>3. Len(file) \in Nat
  OBVIOUS
<1>4. ~ (Len(file) - pos < 16 + l)
  BY <1>1 DEF Trace!ReadPacket, Trace!Incomplete, Trace!Left, Trace!HEADER_SIZE
<1>5. pos + 16 + l <= Len(file)
  BY <1>2, <1>3, <1>4
<1>6. UIntIn(file, pos + 12) \in Nat
  <2>1. PICK o : o = pos + 12
    OBVIOUS
  <2>2. o + 1 \in 1 .. Len(file) /\ o + 2 \in 1 .. Len(file) /\ o + 3 \in 1 .. Len(file)
          /\ o + 4 \in 1 .. Len(file)
    BY <1>2, <1>3, <1>5, <2>1
  <2>3. file[o + 1] \in Nat /\ file[o + 2] \in Nat /\ file[o + 3] \in Nat /\ file[o + 4] \in Nat
    BY <2>2
  <2>4. PICK a \in Nat, b \in Nat, c \in Nat, d \in Nat :
           a = file[o + 1] /\ b = file[o + 2] /\ c = file[o + 3] /\ d = file[o + 4]
    BY <2>3
  <2>5. UIntIn(file, o) \in Nat
    <3>1. UIntIn(file, o) = (16777216 * a) + (65536 * b) + (256 * c) + d
      BY <2>4, SMT DEF UIntIn
    <3> QED
      BY <3>1, SMT
  <2> QED
    BY <2>1, <2>5
<1>7. SubSeq(file, pos + 17, pos + 16 + l) \in Seq(Nat)
  <2>1. pos + 17 \in Int /\ pos + 16 + l \in Int
    BY <1>2
  <2>2. \A i \in pos + 17 .. pos + 16 + l : file[i] \in Nat
    BY <1>2, <1>3, <1>5
  <2> QED
    BY <2>1, <2>2, SubSeqProperties
<1> QED
  BY <1>1, <1>2, <1>5, <1>6, <1>7 DEF Packet

(* What is read where a packet is, is the packet.                          *)
LEMMA ReadIsPacket ==
  ASSUME file \in Seq(Nat), pos \in Nat, NEW p \in Packet, PacketHeld(file, pos, p)
  PROVE  [time |-> UIntIn(file, pos + 12),
          bytes |-> SubSeq(file, pos + 17, pos + 16 + Len(p.bytes))] = p
<1>1. p.bytes \in Seq(Nat) /\ p = [time |-> p.time, bytes |-> p.bytes]
  BY DEF Packet
<1>2. PICK b : b = p.bytes
  OBVIOUS
<1>3. b \in Seq(Nat) /\ pos + 16 + Len(b) <= Len(file) /\ \A j \in 1 .. Len(b) : file[pos + 16 + j] = b[j]
  BY <1>1, <1>2 DEF PacketHeld
<1>4. pos + 16 \in Nat /\ pos + 16 + 1 = pos + 17
  OBVIOUS
<1>5. SubSeq(file, pos + 16 + 1, pos + 16 + Len(b)) = b
  BY <1>3, <1>4, PartOf
<1>6. UIntIn(file, pos + 12) = p.time
  BY DEF PacketHeld
<1> QED
  BY <1>1, <1>2, <1>4, <1>5, <1>6

LEMMA ReadPacketStep ==
  ASSUME MaxPacketSize \in Nat, TraceInv, Trace!ReadPacket
  PROVE  TraceInv'
<1>1. TraceTypes
  BY DEF TraceInv
<1>2. PICK told, off, n, first : PacketsHeld(told, off, n, first)
  BY DEF TraceInv
<1>3. /\ text \in TraceText /\ Len(text) \in Nat /\ n \in 0 .. Len(text)
      /\ ToldBy(told, text) /\ EndsOf(off, text) /\ file \in Seq(Nat)
      /\ \A i \in 1 .. Len(text) : PacketIn(text, i) \in Packet
  BY <1>1, <1>2, TraceFacts
<1>l. PICK l : l = Trace!PacketSize
  OBVIOUS
<1>r. PICK r : r = [time |-> UIntIn(file, pos + 12),
                    bytes |-> SubSeq(file, pos + 17, pos + 16 + l)]
  OBVIOUS
<1>4. /\ Trace!Reading /\ pos' = pos + 16 + l /\ list' = Append(list, r) /\ size' = size + l
      /\ text' = text /\ repeat' = repeat /\ at' = at /\ file' = file /\ cut' = cut
      /\ phase' = phase /\ round' = round /\ done' = done
  BY <1>l, <1>r, SMT DEF Trace!ReadPacket, Trace!converter, Trace!HEADER_SIZE, Trace!readUIntValue, UIntIn
<1>5. phase = "read" /\ round < repeat
  BY <1>4 DEF Trace!Reading
<1>s. PICK s : s = told[Len(text)]
  OBVIOUS
<1>6. ReaderHeld(told, off, n, first) /\ FirstOver(s, first)
  BY <1>2, <1>5, <1>s DEF PacketsHeld
<1>7. list \in Packets /\ pos \in Nat /\ round \in Nat /\ Len(list) \in Nat
  BY <1>6 DEF ReaderHeld, Packets
<1>8. l \in 1 .. MaxPacketSize /\ l \in Nat /\ pos + 16 + l <= Len(file) /\ r \in Packet
  BY <1>3, <1>7, <1>l, <1>r, ReadFacts
<1>9. /\ list' \in Packets /\ Len(list') = Len(list) + 1 /\ list'[Len(list) + 1] = r
      /\ \A i \in 1 .. Len(list) : list'[i] = list[i]
      /\ Trace!TotalSize(list') = Trace!TotalSize(list) + Len(r.bytes)
  BY <1>4, <1>7, <1>8, TotalOfOneMore
<1>10. ASSUME LostPlace(s, first) PROVE LostPlace(s, first)'
  <2>1. first \in Nat
    <3>1. Len(s) \in Nat
      BY <1>3, <1>s, ToldTypes
    <3> QED
      BY <1>6, <3>1 DEF FirstOver
  <2>2. first < Len(s)
    BY <1>10 DEF LostPlace
  <2>3. ASSUME round = 0 PROVE first <= Len(list') /\ \A i \in 1 .. first : list'[i] = s[i]
    <3>1. first <= Len(list) /\ \A i \in 1 .. first : list[i] = s[i]
      BY <1>10, <2>3 DEF LostPlace
    <3>2. \A i \in 1 .. first : i \in 1 .. Len(list)
      BY <1>7, <2>1, <3>1
    <3> QED
      BY <1>7, <1>9, <2>1, <3>1, <3>2
  <2> QED
    BY <1>4, <2>2, <2>3 DEF LostPlace
<1>11. ASSUME NEW m, InPlace(told, off, n, m), Len(told[m]) <= first
       PROVE  \E i : InPlace(told, off, n, i)' /\ Len(told[i]) <= first
  <2>1. PICK i \in m + 1 .. Len(text) :
           /\ IsPacket(text, i) /\ told[i - 1] = told[m]
           /\ Trace!PacketSize = Len(PacketIn(text, i).bytes)
           /\ \/ /\ i <= n /\ PacketHeld(file, pos, PacketIn(text, i))
                 /\ off[i] = pos + 16 + Len(PacketIn(text, i).bytes)
              \/ /\ cut /\ Len(PacketIn(text, i).bytes) > 0
                 /\ Len(file) < pos + 16 + Len(PacketIn(text, i).bytes)
    BY <1>1, <1>2, <1>4, <1>11, AtHeader
  <2>2. PICK p : p = PacketIn(text, i)
    OBVIOUS
  <2>3. m \in 0 .. n /\ m \in Nat
    BY <1>3, <1>11 DEF InPlace
  <2>4. i \in 1 .. Len(text)
    BY <1>3, <2>3
  <2>5. p \in Packet /\ l = Len(p.bytes) /\ p.bytes # <<>>
    <3>1. PacketIn(text, i) \in Packet
          /\ (PacketIn(text, i).bytes = <<>> <=> Len(PacketIn(text, i).bytes) = 0)
      BY <1>3, <2>4, PacketType
    <3>2. l = Len(PacketIn(text, i).bytes) /\ l # 0
      BY <1>8, <1>l, <2>1
    <3> QED
      BY <2>2, <3>1, <3>2, Zenon
  <2>6. i <= n /\ PacketHeld(file, pos, p) /\ off[i] = pos + 16 + l
    <3>1. Len(file) \in Nat
      BY <1>3
    <3>2. l = Len(PacketIn(text, i).bytes)
      BY <2>1, <1>l
    <3>3. ~ (Len(file) < pos + 16 + l)
      BY <1>7, <1>8, <3>1
    <3>4. /\ i <= n /\ PacketHeld(file, pos, PacketIn(text, i))
          /\ off[i] = pos + 16 + Len(PacketIn(text, i).bytes)
      BY <2>1, <3>2, <3>3, Zenon
    <3> QED
      BY <2>2, <3>2, <3>4, Zenon
  <2>7. r = p
    BY <1>3, <1>7, <1>r, <2>5, <2>6, ReadIsPacket
  <2>8. IsTold(text, i)
    BY <2>1, <2>2, <2>5 DEF IsTold
  <2>9. n \in i .. Len(text) /\ i \in 0 .. n
    BY <1>3, <2>4, <2>6
  <2>k. PICK k : k = Len(told[n])
    OBVIOUS
  <2>c. PICK c : c = Len(told[m])
    OBVIOUS
  <2>10. c \in Nat /\ Len(told[i]) = c + 1 /\ c + 1 <= k /\ told[n][c + 1] = p /\ k \in Nat
    <3>1. \A q : q = Len(told[i - 1]) => /\ q \in Nat /\ Len(told[i]) = q + 1
                                        /\ q + 1 <= Len(told[n])
                                        /\ told[n][q + 1] = PacketIn(text, i)
      BY <1>3, <2>4, <2>8, <2>9, NextTold
    <3>2. k \in Nat
      BY <1>3, <2>k, ToldTypes
    <3> QED
      BY <2>1, <2>2, <2>c, <2>k, <3>1, <3>2
  <2>11. Len(told[i]) <= first
    <3>1. ~ Over(PacketIn(text, i))
      BY <1>8, <1>l, <2>1 DEF Over
    <3> QED
      BY <1>3, <1>6, <1>11, <1>s, <2>1, <2>4, <2>8, <3>1, NextOver
  <2>12. Len(list) = round * k + c /\ \A j \in 1 .. Len(list) : list[j] = told[n][1 + ((j - 1) % k)]
    BY <1>11, <2>c, <2>k DEF InPlace
  <2>13. PICK w : w = round * k
    OBVIOUS
  <2>14. w \in Nat /\ Len(list') = w + (c + 1) /\ Len(list) = w + c /\ (w + c) % k = c
    <3>1. w \in Nat
      BY <1>7, <2>10, <2>13
    <3>2. (w + c) % k = c
      BY <1>7, <2>10, <2>13, Remainder
    <3>3. Len(list) = w + c
      BY <2>12, <2>13
    <3> QED
      BY <1>9, <2>10, <3>1, <3>2, <3>3
  <2>15. \A j \in 1 .. Len(list') : list'[j] = told[n][1 + ((j - 1) % k)]
    <3> SUFFICES ASSUME NEW j \in 1 .. Len(list') PROVE list'[j] = told[n][1 + ((j - 1) % k)]
      OBVIOUS
    <3>1. CASE j \in 1 .. Len(list)
      BY <1>9, <2>12, <3>1
    <3>2. CASE ~ (j \in 1 .. Len(list))
      <4>1. j = Len(list) + 1 /\ j - 1 = w + c
        BY <1>7, <1>9, <2>10, <2>14, <3>2
      <4>2. list'[j] = p
        BY <1>9, <2>7, <4>1
      <4>3. (j - 1) % k = c /\ 1 + c = c + 1
        BY <2>10, <2>14, <4>1
      <4> QED
        BY <2>10, <4>2, <4>3
    <3> QED
      BY <3>1, <3>2
  <2>16. size' = Trace!TotalSize(list')
    <3>1. size = Trace!TotalSize(list)
      BY <1>11 DEF InPlace
    <3> QED
      BY <1>4, <1>9, <2>5, <2>7, <3>1
  <2>17. InPlace(told, off, n, i)'
    <3>1. pos' = off[i] /\ round' \in 0 .. repeat' /\ round' # repeat'
      BY <1>1, <1>4, <1>5, <1>7, <2>6 DEF TraceTypes
    <3>2. Len(list') = round' * Len(told[n]) + Len(told[i])
      BY <1>4, <2>10, <2>13, <2>14, <2>k
    <3> QED
      BY <1>4, <2>9, <2>15, <2>16, <2>k, <3>1, <3>2 DEF InPlace
  <2> QED
    BY <2>11, <2>17
<1>12. ReaderHeld(told, off, n, first)'
  <2>1. pos' \in Nat /\ phase' # "exit"
    BY <1>4, <1>5, <1>7, <1>8
  <2>2. (done => round = repeat) /\ (done' => round' = repeat')
    BY <1>4, <1>6 DEF ReaderHeld
  <2>3. (\E i : InPlace(told, off, n, i)' /\ Len(told[i]) <= first) \/ LostPlace(s, first)'
    BY <1>6, <1>10, <1>11, <1>s DEF ReaderHeld
  <2> QED
    BY <1>4, <1>7, <1>9, <1>s, <2>1, <2>2, <2>3 DEF ReaderHeld
<1> QED
  BY <1>2, <1>4, <1>5, <1>12, ReaderMoves

LEMMA ReadFailsStep ==
  ASSUME TraceInv, Trace!ReadFails
  PROVE  TraceInv'
<1>1. TraceTypes
  BY DEF TraceInv
<1>2. PICK told, off, n, first : PacketsHeld(told, off, n, first)
  BY DEF TraceInv
<1>3. /\ Trace!Reading /\ Trace!Incomplete /\ phase' = "exit"
      /\ text' = text /\ repeat' = repeat /\ at' = at /\ file' = file /\ cut' = cut
      /\ round' = round /\ pos' = pos /\ list' = list /\ done' = done /\ size' = size
  BY DEF Trace!ReadFails, Trace!converter, Trace!reader
<1>4. phase = "read"
  BY <1>3 DEF Trace!Reading
<1>5. ReaderHeld(told, off, n, first)
  BY <1>2, <1>4 DEF PacketsHeld
<1>6. cut \/ first < Len(told[Len(text)])
  <2>1. ASSUME NEW m, InPlace(told, off, n, m) PROVE cut
    <3>1. PICK i \in m + 1 .. Len(text) :
             /\ Trace!PacketSize = Len(PacketIn(text, i).bytes)
             /\ PacketHeld(file, pos, PacketIn(text, i)) \/ cut
      BY <1>1, <1>2, <1>3, <2>1, AtHeader
    <3>2. PICK l : l = Len(PacketIn(text, i).bytes)
      OBVIOUS
    <3>3. m \in 0 .. n
      BY <2>1 DEF InPlace
    <3>4. i \in 1 .. Len(text)
      <4>1. n \in 0 .. Len(text) /\ Len(text) \in Nat
        BY <1>1, <1>2, TraceFacts
      <4> QED
        BY <3>3, <4>1
    <3>5. l \in Nat /\ Len(file) \in Nat /\ pos \in Nat
      <4>1. l \in Nat
        BY <1>1, <1>2, <3>2, <3>4, PacketType, TraceFacts
      <4>2. Len(file) \in Nat
        BY <1>1, <1>2, TraceFacts
      <4> QED
        BY <1>5, <4>1, <4>2 DEF ReaderHeld
    <3>6. Len(file) - pos < 16 + l
      BY <1>3, <3>1, <3>2 DEF Trace!Incomplete, Trace!Left, Trace!HEADER_SIZE
    <3>7. PacketHeld(file, pos, PacketIn(text, i)) => pos + 16 + l <= Len(file)
      BY <3>2 DEF PacketHeld
    <3> QED
      BY <3>1, <3>5, <3>6, <3>7
  <2> QED
    BY <1>5, <2>1 DEF ReaderHeld, LostPlace
<1>7. ReaderHeld(told, off, n, first)'
  <2>1. \A m : InPlace(told, off, n, m)' <=> InPlace(told, off, n, m)
    BY <1>3 DEF InPlace
  <2>2. LostPlace(told[Len(text)], first)' <=> LostPlace(told[Len(text)], first)
    BY <1>3 DEF LostPlace
  <2> QED
    BY <1>3, <1>5, <1>6, <2>1, <2>2 DEF ReaderHeld
<1> QED
  BY <1>2, <1>3, <1>4, <1>7, ReaderMoves

(* A round ends where all packets of the file have been read.              *)
LEMMA NextRoundStep ==
  ASSUME TraceInv, Trace!NextRound
  PROVE  TraceInv'
<1>1. TraceTypes
  BY DEF TraceInv
<1>2. PICK told, off, n, first : PacketsHeld(told, off, n, first)
  BY DEF TraceInv
<1>3. /\ phase = "read" /\ round < repeat /\ Len(file) - pos < 16
      /\ round' = round + 1 /\ pos' = 0
      /\ text' = text /\ repeat' = repeat /\ at' = at /\ file' = file /\ cut' = cut
      /\ phase' = phase /\ list' = list /\ done' = done /\ size' = size
  BY DEF Trace!NextRound, Trace!converter, Trace!Left, Trace!HEADER_SIZE, Trace!StartOfFile
<1>4. ReaderHeld(told, off, n, first)
  BY <1>2, <1>3 DEF PacketsHeld
<1>5. /\ text \in TraceText /\ Len(text) \in Nat /\ n \in 0 .. Len(text) /\ Len(file) \in Nat
      /\ repeat \in Nat /\ ToldBy(told, text) /\ EndsOf(off, text)
      /\ \A i \in 1 .. Len(text) : PacketIn(text, i) \in Packet
  BY <1>1, <1>2, TraceFacts
<1>6. list \in Packets /\ pos \in Nat /\ round \in Nat /\ (done => round = repeat)
  BY <1>4 DEF ReaderHeld
<1>7. told[0] = <<>> /\ Len(told[0]) = 0 /\ off[0] = 0
  BY <1>5 DEF ToldBy, EndsOf
<1>8. PICK k : k = Len(told[n])
  OBVIOUS
<1>9. k \in Nat
  BY <1>5, <1>8, ToldTypes
<1>10. ASSUME NEW m, InPlace(told, off, n, m) PROVE InPlace(told, off, n, 0)'
  <2>1. m \in 0 .. n /\ pos = off[m]
    BY <1>10 DEF InPlace
  <2>2. told[n] = told[m]
    <3>1. ASSUME NEW i \in m + 1 .. n, PacketHeld(file, pos, PacketIn(text, i)) PROVE FALSE
      <4>1. i \in 1 .. Len(text)
        BY <1>5, <2>1
      <4>2. PICK l : l = Len(PacketIn(text, i).bytes)
        OBVIOUS
      <4>3. l \in Nat
        BY <1>5, <4>1, <4>2, PacketType
      <4>4. pos + 16 + l <= Len(file)
        BY <3>1, <4>2 DEF PacketHeld
      <4> QED
        BY <1>3, <1>5, <1>6, <4>3, <4>4
    <3> QED
      BY <1>1, <1>2, <2>1, <3>1, WhatFollows
  <2>3. Len(list) = round * k + k
    BY <1>8, <1>10, <2>2 DEF InPlace
  <2>4. round * k + k = (round + 1) * k + 0
    BY <1>6, <1>9
  <2>5. Len(list') = round' * Len(told[n]) + Len(told[0])
    BY <1>3, <1>7, <1>8, <2>3, <2>4
  <2>6. 0 \in 0 .. n /\ round' \in 0 .. repeat'
    BY <1>3, <1>5, <1>6
  <2>7. /\ \A i \in 1 .. Len(list) : list[i] = told[n][1 + ((i - 1) % Len(told[n]))]
        /\ size = Trace!TotalSize(list)
    BY <1>10 DEF InPlace
  <2> QED
    BY <1>3, <1>7, <2>5, <2>6, <2>7 DEF InPlace
<1>11. Len(told[0]) <= first
  <2>1. Len(told[Len(text)]) \in Nat
    BY <1>5, ToldTypes
  <2> QED
    BY <1>2, <1>7, <2>1 DEF PacketsHeld, FirstOver
<1>12. ASSUME NEW s, LostPlace(s, first) PROVE LostPlace(s, first)'
  <2>1. round' # 0 /\ first < Len(s)
    BY <1>3, <1>6, <1>12 DEF LostPlace
  <2> QED
    BY <2>1 DEF LostPlace
<1>13. ReaderHeld(told, off, n, first)'
  <2>1. round' \in Nat /\ pos' \in Nat /\ phase' # "exit" /\ (done' => round' = repeat')
    BY <1>3, <1>5, <1>6
  <2>2. \/ \E m : InPlace(told, off, n, m)' /\ Len(told[m]) <= first
        \/ LostPlace(told[Len(text)], first)'
    <3>1. \/ \E m : InPlace(told, off, n, m) /\ Len(told[m]) <= first
          \/ LostPlace(told[Len(text)], first)
      BY <1>4 DEF ReaderHeld
    <3>2. PICK s : s = told[Len(text)]
      OBVIOUS
    <3>3. LostPlace(s, first) => LostPlace(s, first)'
      BY <1>12
    <3>4. s = told[Len(text)]'
      BY <1>3, <3>2
    <3>5. LostPlace(told[Len(text)], first) => LostPlace(told[Len(text)], first)'
      BY <3>2, <3>3, <3>4 DEF LostPlace
    <3>6. (\E m : InPlace(told, off, n, m)) => InPlace(told, off, n, 0)'
      BY <1>10
    <3> QED
      BY <1>11, <3>1, <3>5, <3>6, Zenon
  <2> QED
    BY <1>3, <1>6, <2>1, <2>2 DEF ReaderHeld
<1> QED
  BY <1>2, <1>3, <1>13, ReaderMoves

LEMMA ReadDoneStep ==
  ASSUME TraceInv, Trace!ReadDone
  PROVE  TraceInv'
<1>1. PICK told, off, n, first : PacketsHeld(told, off, n, first)
  BY DEF TraceInv
<1>2. /\ phase = "read" /\ round = repeat /\ done' = TRUE /\ phase' = "done"
      /\ text' = text /\ repeat' = repeat /\ at' = at /\ file' = file /\ cut' = cut
      /\ round' = round /\ pos' = pos /\ list' = list /\ size' = size
  BY DEF Trace!ReadDone, Trace!converter
<1>3. ReaderHeld(told, off, n, first)
  BY <1>1, <1>2 DEF PacketsHeld
<1>4. ReaderHeld(told, off, n, first)'
  <2>1. \A m : InPlace(told, off, n, m)' <=> InPlace(told, off, n, m)
    BY <1>2 DEF InPlace
  <2>2. LostPlace(told[Len(text)], first)' <=> LostPlace(told[Len(text)], first)
    BY <1>2 DEF LostPlace
  <2> QED
    BY <1>2, <1>3, <2>1, <2>2 DEF ReaderHeld
<1> QED
  BY <1>1, <1>2, <1>4, ReaderMoves

LEMMA TraceStepInv ==
  ASSUME Trace!TraceInputs, TraceInv, Trace!Next
  PROVE  TraceInv'
<1>1. MaxPacketSize \in Nat
  BY DEF Trace!TraceInputs
<1>2. CASE Trace!AddBytes
  BY <1>2, AddBytesStep
<1>3. CASE Trace!NewPacket
  BY <1>3, NewPacketStep
<1>4. CASE Trace!ConverterFails \/ Trace!DiskFull \/ Trace!ConverterDone
  BY <1>4, TraceConversionEnds
<1>5. CASE Trace!SkipHeader
  BY <1>1, <1>5, SkipHeaderStep
<1>6. CASE Trace!ReadPacket
  BY <1>1, <1>6, ReadPacketStep
<1>7. CASE Trace!ReadFails
  BY <1>7, ReadFailsStep
<1>8. CASE Trace!NextRound
  BY <1>8, NextRoundStep
<1>9. CASE Trace!ReadDone
  BY <1>9, ReadDoneStep
<1> QED
  BY <1>2, <1>3, <1>4, <1>5, <1>6, <1>7, <1>8, <1>9 DEF Trace!Next

LEMMA TraceStutter ==
  ASSUME TraceInv, UNCHANGED <<text, fileVars, traceOnly>>
  PROVE  TraceInv'
<1>1. PICK told, off, n, first : PacketsHeld(told, off, n, first)
  BY DEF TraceInv
<1>2. /\ text' = text /\ lines' = lines /\ phase' = phase /\ at' = at /\ file' = file /\ cut' = cut
      /\ pos' = pos /\ repeat' = repeat /\ round' = round /\ list' = list /\ done' = done
      /\ size' = size
  BY DEF fileVars, traceOnly
<1>3. TraceTypes'
  BY <1>2 DEF TraceInv, TraceTypes
<1>4. ToldBy(told, text) /\ EndsOf(off, text) /\ FirstOver(told[Len(text)], first)
  BY <1>1 DEF PacketsHeld
<1>5. TraceHeld(off, n)'
  BY <1>1, <1>2 DEF PacketsHeld, TraceHeld
<1>6. (phase = "convert" => NothingRead)'
  BY <1>1, <1>2 DEF PacketsHeld, NothingRead
<1>7. ASSUME phase # "convert" PROVE ReaderHeld(told, off, n, first)'
  <2>1. ReaderHeld(told, off, n, first)
    BY <1>1, <1>7 DEF PacketsHeld
  <2>2. \A m : InPlace(told, off, n, m)' <=> InPlace(told, off, n, m)
    BY <1>2 DEF InPlace
  <2>3. LostPlace(told[Len(text)], first)' <=> LostPlace(told[Len(text)], first)
    BY <1>2 DEF LostPlace
  <2> QED
    BY <1>2, <2>1, <2>2, <2>3 DEF ReaderHeld
<1>8. PacketsHeld(told, off, n, first)'
  BY <1>2, <1>4, <1>5, <1>6, <1>7 DEF PacketsHeld
<1> QED
  BY <1>3, <1>8 DEF TraceInv

LEMMA PrefixIs ==
  ASSUME NEW s \in Packets, NEW b \in Packets, Len(b) <= Len(s),
         \A j \in 1 .. Len(b) : s[j] = b[j]
  PROVE  SubSeq(s, 1, Len(b)) = b /\ Trace!IsPrefix(b, s)
<1>1. s \in Seq(Packet) /\ b \in Seq(Packet) /\ Len(b) \in Nat /\ Len(s) \in Nat
  BY DEF Packets
<1>2. 0 \in Nat /\ 0 + Len(b) <= Len(s) /\ \A j \in 1 .. Len(b) : s[0 + j] = b[j]
  BY <1>1
<1>3. SubSeq(s, 0 + 1, 0 + Len(b)) = b
  BY <1>1, <1>2, PartOf
<1>4. 0 + 1 = 1 /\ 0 + Len(b) = Len(b)
  BY <1>1
<1>5. SubSeq(s, 1, Len(b)) = b
  BY <1>3, <1>4
<1>6. SubSeq(b, 1, Len(b)) = b
  <2>1. 0 + Len(b) <= Len(b) /\ \A j \in 1 .. Len(b) : b[0 + j] = b[j]
    BY <1>1
  <2>2. SubSeq(b, 0 + 1, 0 + Len(b)) = b
    BY <1>1, <1>2, <2>1, PartOf
  <2> QED
    BY <1>4, <2>2
<1> QED
  BY <1>5, <1>6 DEF Trace!IsPrefix

LEMMA SameList ==
  ASSUME NEW s \in Packets, NEW b \in Packets, Len(b) = Len(s),
         \A j \in 1 .. Len(b) : s[j] = b[j]
  PROVE  b = s
<1>1. b = [i \in 1 .. Len(b) |-> b[i]] /\ s = [i \in 1 .. Len(s) |-> s[i]]
  BY DEF Packets
<1> QED
  BY <1>1

(* A reader in its place has read whole rounds and the beginning of one.   *)
LEMMA InPlaceReads ==
  ASSUME TraceTypes, NEW told, NEW off, NEW n, NEW first, PacketsHeld(told, off, n, first),
         list \in Packets, round \in Nat, NEW m, InPlace(told, off, n, m)
  PROVE  /\ told[n] \in Packets /\ Trace!Rounds(told[n]) \in Packets
         /\ Trace!IsPrefix(list, Trace!Rounds(told[n]))
         /\ round = repeat => list = Trace!Rounds(told[n])
<1>1. /\ text \in TraceText /\ Len(text) \in Nat /\ n \in 0 .. Len(text) /\ repeat \in Nat
      /\ ToldBy(told, text)
  BY TraceFacts
<1>2. m \in 0 .. n /\ m \in 0 .. Len(text)
  BY <1>1 DEF InPlace
<1>s. PICK s : s = told[n]
  OBVIOUS
<1>k. PICK k : k = Len(s)
  OBVIOUS
<1>c. PICK c : c = Len(told[m])
  OBVIOUS
<1>r. PICK r : r = repeat
  OBVIOUS
<1>t. PICK t : t = Trace!Rounds(s)
  OBVIOUS
<1>w. PICK w : w = r * k
  OBVIOUS
<1>3. s \in Packets /\ k \in Nat /\ c \in Nat /\ c <= k /\ r \in Nat /\ w \in Nat
  <2>1. s \in Packets /\ k \in Nat /\ c \in Nat
    BY <1>1, <1>2, <1>s, <1>k, <1>c, ToldTypes
  <2>2. c <= k
    BY <1>1, <1>2, <1>s, <1>k, <1>c, ToldGrows
  <2>3. r * k \in Nat
    BY <1>1, <1>r, <2>1
  <2> QED
    BY <1>1, <1>r, <1>w, <2>1, <2>2, <2>3
<1>4. t = [i \in 1 .. w |-> s[1 + ((i - 1) % k)]]
  BY <1>k, <1>r, <1>t, <1>w DEF Trace!Rounds
<1>5. \A i \in 1 .. w : s[1 + ((i - 1) % k)] \in Packet
  <2> SUFFICES ASSUME NEW i \in 1 .. w PROVE s[1 + ((i - 1) % k)] \in Packet
    OBVIOUS
  <2>1. k > 0
    <3> SUFFICES ASSUME k = 0 PROVE FALSE
      BY <1>3
    <3>1. r * 0 = 0
      BY <1>3
    <3> QED
      BY <1>3, <1>w, <3>1
  <2>2. (i - 1) % k \in 0 .. k - 1
    BY <1>3, <2>1
  <2>3. 1 + ((i - 1) % k) \in 1 .. k
    BY <1>3, <2>2
  <2> QED
    BY <1>3, <1>k, <2>3 DEF Packets
<1>6. t \in Packets /\ Len(t) = w /\ \A i \in 1 .. w : t[i] = s[1 + ((i - 1) % k)]
  BY <1>3, <1>4, <1>5 DEF Packets
<1>7. Len(list) = round * k + c /\ Len(list) \in Nat /\ round \in 0 .. r
      /\ (round = r => m = 0)
      /\ \A i \in 1 .. Len(list) : list[i] = s[1 + ((i - 1) % k)]
  <2>1. Len(list) = round * k + c
    BY <1>s, <1>k, <1>c DEF InPlace
  <2>2. Len(list) \in Nat
    BY DEF Packets
  <2>3. round \in 0 .. r /\ (round = r => m = 0)
    BY <1>r DEF InPlace
  <2>4. \A i \in 1 .. Len(list) : list[i] = s[1 + ((i - 1) % k)]
    BY <1>s, <1>k DEF InPlace
  <2> QED
    BY <2>1, <2>2, <2>3, <2>4
<1>8. round = r => c = 0
  <2>1. told[0] = <<>> /\ Len(<<>>) = 0
    BY <1>1 DEF ToldBy
  <2> QED
    BY <1>7, <1>c, <2>1
<1>9. round = r => Len(list) = w
  BY <1>3, <1>7, <1>8, <1>w
<1>10. Len(list) <= w
  <2>1. CASE round = r
    BY <1>3, <1>9, <2>1
  <2>2. CASE round # r
    <3>1. PICK d \in Nat : r = round + 1 + d
      <4>1. r - round - 1 \in Nat /\ r = round + 1 + (r - round - 1)
        BY <1>3, <1>7, <2>2
      <4> QED
        BY <4>1
    <3>2. r * k = round * k + k + d * k
      BY <1>3, <3>1
    <3>3. d * k \in Nat /\ round * k \in Nat
      BY <1>3
    <3> QED
      BY <1>3, <1>7, <1>w, <3>2, <3>3
  <2> QED
    BY <2>1, <2>2
<1>11. \A j \in 1 .. Len(list) : t[j] = list[j]
  BY <1>3, <1>6, <1>7, <1>10
<1>12. Trace!IsPrefix(list, t)
  BY <1>6, <1>10, <1>11, PrefixIs
<1>13. round = r => list = t
  BY <1>6, <1>9, <1>11, SameList
<1> QED
  BY <1>3, <1>6, <1>12, <1>13, <1>s, <1>r, <1>t

LEMMA InvPacketsArrive ==
  ASSUME Trace!TraceInputs, TraceInv
  PROVE  Trace!PacketsArrive
<1>1. TraceTypes
  BY DEF TraceInv
<1>2. PICK told, off, n, first : PacketsHeld(told, off, n, first)
  BY DEF TraceInv
<1>3. /\ text \in TraceText /\ Len(text) \in Nat /\ n \in 0 .. Len(text) /\ repeat \in Nat
      /\ ToldBy(told, text) /\ EndsOf(off, text) /\ TraceHeld(off, n)
  BY <1>1, <1>2, TraceFacts
<1>w. PICK w : w = told[Len(text)]
  OBVIOUS
<1>4. Trace!Told = w
  <2>1. PICK g : ToldBy(g, text) /\ Trace!Told = g[Len(text)]
    BY <1>3, ToldMeans
  <2> QED
    BY <1>3, <1>w, <2>1, ToldOnce
<1>5. w \in Packets /\ Len(w) \in Nat
  BY <1>3, <1>w, ToldTypes
<1>6. /\ first \in 0 .. Len(w) /\ \A i \in 1 .. first : ~ Over(w[i])
      /\ first < Len(w) => Over(w[first + 1])
  BY <1>2, <1>w DEF PacketsHeld, FirstOver
<1>7. Trace!SomeOversized <=> first < Len(w)
  <2>1. Trace!SomeOversized <=> \E i \in 1 .. Len(w) : Over(w[i])
    <3>1. DOMAIN w = 1 .. Len(w)
      BY <1>5 DEF Packets
    <3>2. Trace!SomeOversized <=> \E p \in {w[i] : i \in 1 .. Len(w)} : Over(p)
      BY <1>4, <3>1 DEF Trace!SomeOversized, Trace!Range, Trace!Oversized, Over
    <3> QED
      BY <3>2
  <2>2. ASSUME first < Len(w) PROVE first + 1 \in 1 .. Len(w) /\ Over(w[first + 1])
    BY <1>5, <1>6, <2>2
  <2>3. ASSUME ~ (first < Len(w)) PROVE first = Len(w)
    BY <1>5, <1>6, <2>3
  <2> QED
    BY <1>6, <2>1, <2>2, <2>3
<1>8. CASE phase = "convert"
  <2>1. round = 0 /\ list = <<>> /\ ~ done /\ size = 0
    BY <1>2, <1>8 DEF PacketsHeld, NothingRead
  <2>2. list \in Packets /\ Len(list) = 0 /\ \A s \in Packets : Trace!IsPrefix(list, s)
    <3>1. list \in Packets /\ Len(list) = 0
      BY <2>1 DEF Packets
    <3>2. \A s \in Packets : Len(list) <= Len(s)
      BY <3>1 DEF Packets
    <3>3. \A s \in Packets : Trace!IsPrefix(list, s)
      BY <3>1, <3>2, PrefixIs
    <3> QED
      BY <3>1, <3>3
  <2>3. Trace!PacketsInOrder
    <3>1. Trace!Rounds(SubSeq(w, 1, 0)) \in Packets
      <4>1. SubSeq(w, 1, 0) = <<>> /\ Len(<<>>) = 0
        BY <1>5 DEF Packets
      <4>2. repeat * 0 = 0
        BY <1>3
      <4>3. Trace!Rounds(<<>>) = [i \in 1 .. 0 |-> <<>>[1 + ((i - 1) % 0)]]
        BY <4>1, <4>2 DEF Trace!Rounds
      <4>4. [i \in 1 .. 0 |-> <<>>[1 + ((i - 1) % 0)]] \in Packets
        BY DEF Packets
      <4> QED
        BY <4>1, <4>3, <4>4
    <3>2. Trace!IsPrefix(list, Trace!Rounds(SubSeq(w, 1, 0)))
      BY <2>2, <3>1
    <3>3. size = Trace!TotalSize(list)
      BY <2>1, TotalOfNone
    <3>4. 0 \in 0 .. Len(w)
      BY <1>5
    <3> QED
      BY <1>4, <2>1, <3>2, <3>3, <3>4 DEF Trace!PacketsInOrder
  <2>4. Trace!ExitsOnlyIfDamaged
    BY <1>8 DEF Trace!ExitsOnlyIfDamaged
  <2>5. PICK b : b = SubSeq(w, 1, first)
    OBVIOUS
  <2>6. b \in Packets /\ Len(b) = first /\ \A i \in 1 .. first : b[i] = w[i]
    BY <1>5, <1>6, <2>5 DEF Packets
  <2>7. Trace!BeforeOversized
    <3>1. \A p \in Trace!Range(b) : ~ Trace!Oversized(p)
      BY <1>6, <2>6 DEF Trace!Range, Trace!Oversized, Over, Packets
    <3>2. first < Len(w) => Trace!Oversized(w[first + 1])
      BY <1>6 DEF Trace!Oversized, Over
    <3> QED
      BY <1>4, <1>6, <2>2, <2>5, <2>6, <3>1, <3>2 DEF Trace!BeforeOversized
  <2> QED
    BY <2>3, <2>4, <2>7 DEF Trace!PacketsArrive
<1>9. CASE phase # "convert"
  <2>1. ReaderHeld(told, off, n, first)
    BY <1>2, <1>9 DEF PacketsHeld
  <2>2. /\ list \in Packets /\ round \in Nat /\ (done => round = repeat)
        /\ phase = "exit" => cut \/ first < Len(w)
        /\ \/ \E m : InPlace(told, off, n, m) /\ Len(told[m]) <= first
           \/ LostPlace(w, first)
    BY <2>1, <1>w DEF ReaderHeld
  <2>3. Trace!PacketsInOrder
    <3> SUFFICES ASSUME ~ Trace!SomeOversized PROVE Trace!PacketsInOrder
      BY DEF Trace!PacketsInOrder
    <3>1. PICK m : InPlace(told, off, n, m)
      BY <1>7, <2>2 DEF LostPlace
    <3>2. /\ told[n] \in Packets
          /\ Trace!IsPrefix(list, Trace!Rounds(told[n]))
          /\ round = repeat => list = Trace!Rounds(told[n])
      BY <1>1, <1>2, <2>2, <3>1, InPlaceReads
    <3>3. PICK k : k = Len(told[n])
      OBVIOUS
    <3>4. SubSeq(w, 1, k) = told[n] /\ k \in 0 .. Len(w)
      <4>1. Len(text) \in 0 .. Len(text) /\ n \in 0 .. Len(text)
        BY <1>3
      <4>2. Len(told[n]) <= Len(w) /\ \A j \in 1 .. Len(told[n]) : w[j] = told[n][j]
        BY <1>3, <1>w, <4>1, ToldGrows
      <4>3. SubSeq(w, 1, Len(told[n])) = told[n]
        BY <1>5, <3>2, <4>2, PrefixIs
      <4>4. Len(told[n]) \in Nat
        BY <3>2 DEF Packets
      <4> QED
        BY <1>5, <3>3, <4>2, <4>3, <4>4
    <3>5. size = Trace!TotalSize(list)
      BY <3>1 DEF InPlace
    <3>6. ~ cut => k = Len(w)
      BY <1>3, <1>9, <1>w, <3>3 DEF TraceHeld
    <3> QED
      BY <1>4, <2>2, <3>2, <3>4, <3>5, <3>6 DEF Trace!PacketsInOrder
  <2>4. Trace!ExitsOnlyIfDamaged
    BY <1>7, <2>2 DEF Trace!ExitsOnlyIfDamaged
  <2>5. PICK b : b = SubSeq(w, 1, first)
    OBVIOUS
  <2>6. b \in Packets /\ Len(b) = first /\ \A i \in 1 .. first : b[i] = w[i]
    BY <1>5, <1>6, <2>5 DEF Packets
  <2>7. ASSUME round = 0 PROVE Trace!IsPrefix(list, b) \/ Trace!IsPrefix(b, list)
    <3>1. ASSUME NEW m, InPlace(told, off, n, m), Len(told[m]) <= first
          PROVE  Trace!IsPrefix(list, b)
      <4>1. n \in 0 .. Len(text) /\ m \in 0 .. n /\ m \in 0 .. Len(text)
            /\ Len(text) \in 0 .. Len(text)
        BY <1>3, <3>1 DEF InPlace
      <4>2. PICK k : k = Len(told[n])
        OBVIOUS
      <4>3. PICK c : c = Len(told[m])
        OBVIOUS
      <4>4. k \in Nat /\ c \in Nat /\ c <= k /\ c <= first
        BY <1>3, <3>1, <4>1, <4>2, <4>3, ToldTypes, ToldGrows
      <4>5. Len(list) = c
        <5>1. Len(list) = 0 * k + c
          BY <2>7, <3>1, <4>2, <4>3 DEF InPlace
        <5>2. 0 * k + c = c
          BY <4>4
        <5> QED
          BY <5>1, <5>2
      <4>6. ASSUME NEW j \in 1 .. Len(list) PROVE b[j] = list[j]
        <5>1. PICK i : i = j - 1
          OBVIOUS
        <5>2. i \in Nat /\ i < k /\ 1 + i = j /\ 0 * k + i = i /\ j \in 1 .. k /\ j \in 1 .. first
          BY <1>6, <4>4, <4>5, <5>1
        <5>3. i % k = i
          <6>1. (0 * k + i) % k = i
            BY <4>4, <5>2, Remainder
          <6> QED
            BY <5>2, <6>1
        <5>4. list[j] = told[n][1 + (i % k)]
          BY <3>1, <4>2, <5>1 DEF InPlace
        <5>5. w[j] = told[n][j]
          BY <1>3, <1>w, <4>1, <4>2, <5>2, ToldGrows
        <5> QED
          BY <2>6, <5>2, <5>3, <5>4, <5>5
      <4> QED
        BY <2>2, <2>6, <4>4, <4>5, <4>6, PrefixIs
    <3>2. ASSUME LostPlace(w, first) PROVE Trace!IsPrefix(b, list)
      <4>1. first <= Len(list) /\ \A j \in 1 .. first : list[j] = w[j]
        BY <2>7, <3>2 DEF LostPlace
      <4> QED
        BY <2>2, <2>6, <4>1, PrefixIs
    <3> QED
      BY <2>2, <3>1, <3>2
  <2>8. Trace!BeforeOversized
    <3>1. \A p \in Trace!Range(b) : ~ Trace!Oversized(p)
      BY <1>6, <2>6 DEF Trace!Range, Trace!Oversized, Over, Packets
    <3>2. first < Len(w) => Trace!Oversized(w[first + 1])
      BY <1>6 DEF Trace!Oversized, Over
    <3> QED
      BY <1>4, <1>6, <2>5, <2>7, <3>1, <3>2 DEF Trace!BeforeOversized
  <2> QED
    BY <2>3, <2>4, <2>8 DEF Trace!PacketsArrive
<1> QED
  BY <1>8, <1>9

-----------------------------------------------------------------------------
(* The three kinds of input together *)

CommandHeld == given = "options" => CommandInv /\ hybrid \in BOOLEAN

(* Whatever is on the command line, it is acted on only if it keeps lines  *)
(* 28-40 of USAGE, a hybrid scan only with both machines, and with the     *)
(* machine and the thresholds that are asked for (Main.c:121-167,          *)
(* 185-366).  README.md:42 is stricter, and main does not keep it.         *)
THEOREM OptionsConsistent == Spec => []UsedConsistently
<1>1. Init => CommandHeld
  <2> SUFFICES ASSUME Init, given = "options" PROVE CommandInv /\ hybrid \in BOOLEAN
    BY DEF CommandHeld
  <2>1. Command!Init
    BY DEF Init
  <2> QED
    BY <2>1, CommandInitInv DEF Command!Init
<1>2. CommandHeld /\ [Next]_vars => CommandHeld'
  <2> SUFFICES ASSUME CommandHeld, [Next]_vars, given' = "options"
               PROVE  (CommandInv /\ hybrid \in BOOLEAN)'
    BY DEF CommandHeld
  <2>1. given = "options"
    BY DEF Next, vars
  <2>2. CommandInv /\ hybrid \in BOOLEAN
    BY <2>1 DEF CommandHeld
  <2>3. CASE Command!Next
    <3>1. hybrid' = hybrid
      BY <2>3 DEF Command!Next, Command!ReadArgument, Command!ReadBadArgument, Command!showUsage,
                  Command!EndOfArguments, Command!MakeMachines, Command!Use
    <3> QED
      BY <2>2, <2>3, <3>1, CommandStepInv
  <2>4. CASE UNCHANGED vars
    BY <2>2, <2>4 DEF vars, optionsOnly, CommandInv, Acting, MachinesMade, Command!has,
                      Command!checkOptionsValidity, Command!DumpValid, Command!FullTableValid
  <2> QED
    BY <2>1, <2>3, <2>4 DEF Next
<1>3. CommandHeld => UsedConsistently
  BY CommandAssumption, CommandConsistent DEF CommandHeld, UsedConsistently
<1> QED
  BY <1>1, <1>2, <1>3, PTL DEF Spec

PatternHeld == given = "patterns" => PatternInv

(* Whatever reaches the disk, and whatever the bytes, the tree is that of  *)
(* the patterns of the text, whole, in order and none left out before      *)
(* another; reading ends the program only if the file was cut              *)
(* (SnortConverter.java:20-98, ACBuilder.c:529-561).                       *)
THEOREM PatternsAlwaysArrive == Spec => []PatternsArrive
<1>1. Init => PatternHeld
  <2> SUFFICES ASSUME Init, given = "patterns" PROVE PatternInv
    BY DEF PatternHeld
  <2>1. Patterns!Init
    BY DEF Init
  <2> QED
    BY <2>1, PatternsAssumption, PatternInitInv
<1>2. PatternHeld /\ [Next]_vars => PatternHeld'
  <2> SUFFICES ASSUME PatternHeld, [Next]_vars, given' = "patterns" PROVE PatternInv'
    BY DEF PatternHeld
  <2>1. given = "patterns"
    BY DEF Next, vars
  <2>2. PatternInv
    BY <2>1 DEF PatternHeld
  <2>3. CASE Patterns!Next
    BY <2>2, <2>3, PatternsAssumption, PatternStepInv
  <2>4. CASE UNCHANGED vars
    BY <2>2, <2>4, PatternStutter DEF vars, fileVars, patternsOnly
  <2> QED
    BY <2>1, <2>3, <2>4 DEF Next
<1>3. PatternHeld => PatternsArrive
  BY PatternsAssumption, InvPatternsArrive DEF PatternHeld, PatternsArrive
<1> QED
  BY <1>1, <1>2, <1>3, PTL DEF Spec

TracePacketsHeld == given = "trace" => TraceInv

(* Whatever reaches the disk, whatever is printed and however often it is  *)
(* read, the lists hold the packets of the text, in order and once for     *)
(* every round, unless one is too long, and then those before it; the      *)
(* reader ends the program only if the file was cut or one is too long     *)
(* (DumpConverter.java:26-75, PacketReader.c:123-219).                     *)
THEOREM PacketsAlwaysArrive == Spec => []PacketsArrive
<1>1. Init => TracePacketsHeld
  <2> SUFFICES ASSUME Init, given = "trace" PROVE TraceInv
    BY DEF TracePacketsHeld
  <2>1. Trace!Init
    BY DEF Init
  <2> QED
    BY <2>1, TraceAssumption, TraceInitInv
<1>2. TracePacketsHeld /\ [Next]_vars => TracePacketsHeld'
  <2> SUFFICES ASSUME TracePacketsHeld, [Next]_vars, given' = "trace" PROVE TraceInv'
    BY DEF TracePacketsHeld
  <2>1. given = "trace"
    BY DEF Next, vars
  <2>2. TraceInv
    BY <2>1 DEF TracePacketsHeld
  <2>3. CASE Trace!Next
    BY <2>2, <2>3, TraceAssumption, TraceStepInv
  <2>4. CASE UNCHANGED vars
    BY <2>2, <2>4, TraceStutter DEF vars, fileVars, traceOnly
  <2> QED
    BY <2>1, <2>3, <2>4 DEF Next
<1>3. TracePacketsHeld => PacketsArrive
  BY TraceAssumption, InvPacketsArrive DEF TracePacketsHeld, PacketsArrive
<1> QED
  BY <1>1, <1>2, <1>3, PTL DEF Spec
===============================================================================
