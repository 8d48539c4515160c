------------------------------ MODULE AhoCorasick ------------------------------
(***************************************************************************)
(* Construction of the Aho-Corasick tree from a patterns file: the trie of *)
(* the patterns (enter), the failure pointers, breadth first               *)
(* (constructFailures), and, for the compressed machine only, the pass     *)
(* that keeps failures away from accepting leaves                          *)
(* (avoidFailToAcceptingStates), depth first.                              *)
(*                                                                         *)
(* A node is named by its label, the sequence of characters that leads to  *)
(* it from the root; the ids of the code only number the nodes.            *)
(***************************************************************************)
EXTENDS SequencesExt

CONSTANTS
  Files,              (* the patterns files: sequences of patterns         *)
  AvoidFailToLeaves,  (* the parameter of acBuildTree                      *)
  MaxPatterns         (* MAX_PATTERNS: the rest of the file is not read    *)

(* Characters are bytes. *)
Character == 0 .. 255
Strings == Seq(Character)

ASSUME TreeAssumption ==
  /\ \A f \in Files : f \in Seq(Strings \ {<<>>})
  /\ AvoidFailToLeaves \in BOOLEAN
  /\ MaxPatterns \in Nat \ {0}

VARIABLES
  file,         (* what is left of the patterns file                       *)
  count,        (* patterns read                                           *)
  gotos,        (* children of each node, in the order of the hash map     *)
  message,      (* the patterns a node reports; match is message # <<>>    *)
  failure,      (* set for the nodes of its domain, NULL for the others    *)
  hasFailInto,
  queue,        (* the NodeQueue of a breadth-first pass, or the stack of  *)
                (* the recursive one                                       *)
  phase

tree == <<gotos, message, failure, hasFailInto>>
treeVars == <<file, count, tree, queue, phase>>

Root == <<>>
Nodes == DOMAIN gotos
Match(n) == message[n] # <<>>
IsLeaf(n) == gotos[n] = <<>>
Children(n) == ToSet(gotos[n])
HasGoto(n, c) == Append(n, c) \in Nodes

TreeInit ==
  /\ file \in Files
  /\ count = 0
  /\ gotos = [n \in {Root} |-> <<>>]
  /\ message = [n \in {Root} |-> <<>>]
  /\ failure = <<>>
  /\ hasFailInto = [n \in {Root} |-> 0]
  /\ queue = <<>>
  /\ phase = "enter"

(* The nodes that entering the pattern p adds to the trie. *)
NewNodes(p) == (Prefixes(p) \ {Root}) \ Nodes

(* The goto that entering p adds to n, if it adds one. *)
NewGoto(n, p) ==
  IF n # p /\ IsPrefix(n, p) /\ SubSeq(p, 1, Len(n) + 1) \in NewNodes(p)
  THEN <<SubSeq(p, 1, Len(n) + 1)>>
  ELSE <<>>

Enter ==
  /\ phase = "enter" /\ file # <<>> /\ count < MaxPatterns
  /\ LET p   == Head(file)
         old == Nodes
         all == Nodes \cup NewNodes(p)
     IN /\ gotos' = [n \in all |-> (IF n \in old THEN gotos[n] ELSE <<>>) \o NewGoto(n, p)]
        /\ message' = [n \in all |-> IF n = p THEN <<p>>
                                     ELSE IF n \in old THEN message[n] ELSE <<>>]
        /\ hasFailInto' = [n \in all |-> 0]
  /\ file' = Tail(file)
  /\ count' = count + 1
  /\ UNCHANGED <<failure, queue, phase>>

(* The file is closed; the root and its children fail to the root. *)
StartFailures ==
  /\ phase = "enter" /\ (file = <<>> \/ count = MaxPatterns)
  /\ failure' = [n \in {Root} \cup Children(Root) |-> Root]
  /\ queue' = gotos[Root]
  /\ phase' = "failures"
  /\ UNCHANGED <<file, count, gotos, message, hasFailInto>>

(* Mutant: the failures of the failure are not tried. *)
FollowFromRoot(start, c) == IF HasGoto(start, c) THEN Append(start, c)
                            ELSE IF HasGoto(Root, c) THEN Append(Root, c) ELSE Root

(* Where a character leads from a node whose failures are followed until   *)
(* one of them has a goto for it; all of them are set by then.             *)
Follow(start, c) ==
  LET f[s \in DOMAIN failure] == IF HasGoto(s, c) THEN Append(s, c)
                                 ELSE IF s = Root THEN Root ELSE f[failure[s]]
  IN f[start]

ChildFailure(r, s) == Follow(failure[r], Last(s))

(* How many children of r fail into n. *)
CountFailures(r, fail, n) == Cardinality({s \in Children(r) : fail[s] = n})

(* A node is dequeued: its children get their failures and are queued. *)
FailStep ==
  /\ phase = "failures" /\ queue # <<>>
  /\ LET r == Head(queue)
     IN /\ failure' = [n \in DOMAIN failure \cup Children(r) |->
                         IF n \in Children(r) THEN ChildFailure(r, n) ELSE failure[n]]
        /\ hasFailInto' = [n \in Nodes |-> hasFailInto[n] + CountFailures(r, failure', n)]
        /\ queue' = Tail(queue) \o gotos[r]
  /\ UNCHANGED <<file, count, gotos, message, phase>>

FailuresDone ==
  /\ phase = "failures" /\ queue = <<>>
  /\ IF AvoidFailToLeaves
     THEN phase' = "avoid" /\ queue' = <<Root>>
     ELSE phase' = "built" /\ UNCHANGED queue
  /\ UNCHANGED <<file, count, tree>>

(* Mutant: the messages of the leaves stepped over are not taken. *)
SkipSilently(start) ==
  LET w[f \in Nodes] == IF Match(f) /\ IsLeaf(f)
                        THEN [w[failure[f]] EXCEPT !.skipped = @ \cup {f}]
                        ELSE [fail |-> f, messages |-> message[f], skipped |-> {}]
  IN w[start]

(* The loop of avoidFailToAcceptingStatesRecursive: from the failure f of  *)
(* a node, the failure it ends with, the messages it collects and the      *)
(* accepting leaves it steps over.                                         *)
SkipLeaves(start) ==
  LET w[f \in Nodes] ==
        IF ~Match(f) THEN [fail |-> f, messages |-> <<>>, skipped |-> {}]
        ELSE IF ~IsLeaf(f) THEN [fail |-> f, messages |-> message[f], skipped |-> {}]
        ELSE [fail |-> w[failure[f]].fail,
              messages |-> message[f] \o w[failure[f]].messages,
              skipped |-> {f} \cup w[failure[f]].skipped]
  IN w[start]

(* One node of the recursion, visited before its children. *)
AvoidStep ==
  /\ phase = "avoid" /\ queue # <<>>
  /\ LET n == Head(queue)
         s == SkipLeaves(failure[n])
     IN /\ message' = [message EXCEPT ![n] = @ \o s.messages]
        /\ failure' = [failure EXCEPT ![n] = s.fail]
        /\ hasFailInto' = [f \in Nodes |-> IF f \in s.skipped /\ hasFailInto[f] > 0
                                           THEN hasFailInto[f] - 1 ELSE hasFailInto[f]]
        /\ queue' = gotos[n] \o Tail(queue)
  /\ UNCHANGED <<file, count, gotos, phase>>

AvoidDone ==
  /\ phase = "avoid" /\ queue = <<>>
  /\ phase' = "built"
  /\ UNCHANGED <<file, count, tree, queue>>

BuildTree == Enter \/ StartFailures \/ FailStep \/ FailuresDone \/ AvoidStep \/ AvoidDone

TreeSpec == TreeInit /\ [][BuildTree]_treeVars

-----------------------------------------------------------------------------
(* Properties *)

(* The longest of the nodes that are suffixes of a string. *)
LongestSuffixIn(w, S) == CHOOSE n \in S : IsSuffix(n, w) /\
                           \A m \in S : IsSuffix(m, w) => Len(m) <= Len(n)
ProperSuffixNodes(n) == {m \in Nodes : m # n /\ IsSuffix(m, n)}

(* Every table has an entry for every node, every edge adds a character,   *)
(* a message is a list of patterns.                                        *)
TreeTypeOK ==
  /\ DOMAIN message = Nodes /\ DOMAIN hasFailInto = Nodes
  /\ DOMAIN failure \subseteq Nodes /\ Range(failure) \subseteq Nodes
  /\ \A n \in Nodes : \A m \in Children(n) : m \in Nodes /\ Front(m) = n
  /\ \A n \in Nodes : Range(message[n]) \subseteq Nodes
  /\ Range(queue) \subseteq Nodes

(* constructFailures: as soon as a node has a failure, it is the longest   *)
(* proper suffix of its label that is a node, and the nodes that have none *)
(* yet are the descendants of those in the queue.                          *)
FailureIsLongestSuffix ==
  phase = "failures" \/ (phase = "built" /\ ~AvoidFailToLeaves) =>
    /\ \A n \in DOMAIN failure \ {Root} :
         failure[n] = LongestSuffixIn(n, ProperSuffixNodes(n))
    /\ \A n \in Nodes \ DOMAIN failure : \E q \in Range(queue) : IsPrefix(q, n)

(* avoidFailToAcceptingStates: a node that has been visited never fails to *)
(* a leaf, what setRealPointers reports as an error ("found a fail pointer *)
(* that points to an accepting state"): a leaf has no state of its own in  *)
(* the compressed machine.                                                 *)
NoFailureToLeaf ==
  AvoidFailToLeaves /\ phase = "built" =>
    \A n \in Nodes \ {Root} : failure[n] # Root => ~IsLeaf(failure[n])

(* A node other than the root that some node fails into is marked by       *)
(* hasFailInto, although the pass that moves failures decrements the old   *)
(* target and does not increment the new one: generateStates ends a        *)
(* compressed path at the marked nodes.                                    *)
FailTargetsAreMarked ==
  phase = "built" => \A n \in Nodes : failure[n] # Root => hasFailInto[failure[n]] > 0

(* A failure only ever moves over accepting leaves whose messages the node *)
(* has taken over: no proper suffix of the node between it and its failure *)
(* can go on, and each of them that is a pattern is reported.              *)
SkippedSuffixesAreReported ==
  AvoidFailToLeaves /\ phase = "built" =>
    \A n \in Nodes \ {Root} : \A m \in ProperSuffixNodes(n) :
      Len(m) > Len(failure[n]) => IsLeaf(m) /\ m \in Range(message[n])

(* Failures are moved away from leaves, and over leaves only.              *)
LeavesAreSkipped == NoFailureToLeaf /\ SkippedSuffixesAreReported
================================================================================
