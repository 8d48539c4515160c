--------------------------- MODULE AhoCorasickProofs ---------------------------
(***************************************************************************)
(* Proofs about the Aho-Corasick tree and the two machines made of it, for *)
(* every patterns file, every packet and every limit.  The tree: each      *)
(* failure is the longest proper suffix, or the next of them that is no    *)
(* leaf, and whatever is failed into is marked.  The full-table machine:   *)
(* each state of a scan is the longest suffix of what was read, and a      *)
(* packet that moves to another scanner loses no pattern.  The compressed  *)
(* machine: its two passes over the tree agree, every look-up finds what   *)
(* it looks up, and a scan has at every byte all that could still go on.   *)
(***************************************************************************)
EXTENDS TableMachine, CompressedMachine, SumProofs, SequenceTheorems

-----------------------------------------------------------------------------
(* Strings, character by character. *)

LEMMA PrefixMeans ==
  ASSUME NEW u \in Strings, NEW t \in Strings
  PROVE  IsPrefix(u, t) <=> Len(u) <= Len(t) /\ \A i \in 1 .. Len(u) : u[i] = t[i]
  BY DEF IsPrefix, Strings

LEMMA ReverseMeans ==
  ASSUME NEW u \in Strings
  PROVE  /\ Reverse(u) \in Strings /\ Len(Reverse(u)) = Len(u)
         /\ \A i \in 1 .. Len(u) : Reverse(u)[i] = u[Len(u) - i + 1]
<1>1. Len(u) \in Nat /\ \A i \in 1 .. Len(u) : u[Len(u) - i + 1] \in Character
  BY DEF Strings
<1>2. Reverse(u) \in [1 .. Len(u) -> Character]
  BY <1>1 DEF Reverse
<1> QED
  BY <1>1, <1>2 DEF Strings, Reverse

LEMMA SuffixMeans ==
  ASSUME NEW u \in Strings, NEW t \in Strings
  PROVE  IsSuffix(u, t) <=>
           Len(u) <= Len(t) /\ \A i \in 1 .. Len(u) : u[i] = t[Len(t) - Len(u) + i]
<1>1. Len(u) \in Nat /\ Len(t) \in Nat
  BY DEF Strings
<1>2. IsSuffix(u, t) <=>
        Len(u) <= Len(t) /\ \A i \in 1 .. Len(u) : Reverse(u)[i] = Reverse(t)[i]
  BY ReverseMeans, PrefixMeans DEF IsSuffix
<1>3. Len(u) <= Len(t) =>
        \A i \in 1 .. Len(u) : /\ Reverse(u)[i] = u[Len(u) - i + 1]
                               /\ Reverse(t)[i] = t[Len(t) - i + 1]
  BY <1>1, ReverseMeans
<1>4. ASSUME Len(u) <= Len(t), \A i \in 1 .. Len(u) : Reverse(u)[i] = Reverse(t)[i],
             NEW i \in 1 .. Len(u)
      PROVE  u[i] = t[Len(t) - Len(u) + i]
  <2>1. Len(u) - i + 1 \in 1 .. Len(u)
    BY <1>1
  <2>2. u[Len(u) - (Len(u) - i + 1) + 1] = t[Len(t) - (Len(u) - i + 1) + 1]
    BY <1>3, <1>4, <2>1
  <2> QED
    BY <1>1, <2>2
<1>5. ASSUME Len(u) <= Len(t), \A i \in 1 .. Len(u) : u[i] = t[Len(t) - Len(u) + i],
             NEW i \in 1 .. Len(u)
      PROVE  Reverse(u)[i] = Reverse(t)[i]
  <2>1. Len(u) - i + 1 \in 1 .. Len(u)
    BY <1>1
  <2>2. u[Len(u) - i + 1] = t[Len(t) - Len(u) + (Len(u) - i + 1)]
    BY <1>5, <2>1
  <2> QED
    BY <1>1, <1>3, <1>5, <2>2
<1> QED
  BY <1>2, <1>4, <1>5

(* Suffixes of the same string are comparable by length. *)
LEMMA SuffixTransitive ==
  ASSUME NEW r \in Strings, NEW u \in Strings, NEW t \in Strings,
         IsSuffix(r, u), IsSuffix(u, t)
  PROVE  IsSuffix(r, t)
<1>1. Len(r) \in Nat /\ Len(u) \in Nat /\ Len(t) \in Nat
  BY DEF Strings
<1>2. Len(r) <= Len(u) /\ Len(u) <= Len(t)
  BY SuffixMeans
<1>3. ASSUME NEW i \in 1 .. Len(r)
      PROVE  r[i] = t[Len(t) - Len(r) + i]
  <2>1. r[i] = u[Len(u) - Len(r) + i]
    BY SuffixMeans
  <2>2. Len(u) - Len(r) + i \in 1 .. Len(u)
    BY <1>1, <1>2
  <2>3. u[Len(u) - Len(r) + i] = t[Len(t) - Len(u) + (Len(u) - Len(r) + i)]
    BY <2>2, SuffixMeans
  <2> QED
    BY <1>1, <2>1, <2>3
<1> QED
  BY <1>1, <1>2, <1>3, SuffixMeans

LEMMA SuffixOfLonger ==
  ASSUME NEW r \in Strings, NEW u \in Strings, NEW t \in Strings,
         IsSuffix(r, t), IsSuffix(u, t), Len(r) <= Len(u)
  PROVE  IsSuffix(r, u)
<1>1. Len(r) \in Nat /\ Len(u) \in Nat /\ Len(t) \in Nat
  BY DEF Strings
<1>2. Len(u) <= Len(t)
  BY SuffixMeans
<1>3. ASSUME NEW i \in 1 .. Len(r)
      PROVE  r[i] = u[Len(u) - Len(r) + i]
  <2>1. r[i] = t[Len(t) - Len(r) + i]
    BY SuffixMeans
  <2>2. Len(u) - Len(r) + i \in 1 .. Len(u)
    BY <1>1, <1>2
  <2>3. u[Len(u) - Len(r) + i] = t[Len(t) - Len(u) + (Len(u) - Len(r) + i)]
    BY <2>2, SuffixMeans
  <2> QED
    BY <1>1, <2>1, <2>3
<1> QED
  BY <1>1, <1>3, SuffixMeans

LEMMA SameSuffix ==
  ASSUME NEW r \in Strings, NEW u \in Strings, NEW t \in Strings,
         IsSuffix(r, t), IsSuffix(u, t), Len(r) = Len(u)
  PROVE  r = u
<1>1. \A i \in 1 .. Len(r) : r[i] = t[Len(t) - Len(r) + i]
  BY SuffixMeans
<1>2. \A i \in 1 .. Len(u) : u[i] = t[Len(t) - Len(u) + i]
  BY SuffixMeans
<1>3. \A i \in 1 .. Len(r) : r[i] = u[i]
  BY <1>1, <1>2
<1> QED
  BY <1>3 DEF Strings

LEMMA SuffixSelf ==
  ASSUME NEW u \in Strings
  PROVE  IsSuffix(u, u) /\ IsSuffix(<<>>, u) /\ <<>> \in Strings /\ Len(<<>>) = 0
<1>1. <<>> \in Strings /\ Len(<<>>) = 0 /\ Len(u) \in Nat
  BY DEF Strings
<1> QED
  BY <1>1, SuffixMeans

(* One character more. *)
LEMMA AppendString ==
  ASSUME NEW u \in Strings, NEW c \in Character
  PROVE  /\ Append(u, c) \in Strings /\ Append(u, c) # <<>>
         /\ Len(u) \in Nat /\ Len(Append(u, c)) = Len(u) + 1
         /\ \A i \in 1 .. Len(u) : Append(u, c)[i] = u[i]
         /\ Append(u, c)[Len(u) + 1] = c
         /\ Front(Append(u, c)) = u /\ Last(Append(u, c)) = c
<1>1. /\ Append(u, c) \in Strings /\ Append(u, c) # <<>>
      /\ Len(u) \in Nat /\ Len(Append(u, c)) = Len(u) + 1
      /\ \A i \in 1 .. Len(u) : Append(u, c)[i] = u[i]
      /\ Append(u, c)[Len(u) + 1] = c
  BY DEF Strings
<1>2. Front(Append(u, c)) = SubSeq(Append(u, c), 1, Len(u)) /\ Last(Append(u, c)) = c
  BY <1>1 DEF Front, Last
<1>3. \A i \in 1 .. Len(u) : SubSeq(Append(u, c), 1, Len(u))[i] = u[i]
  BY <1>1 DEF Strings
<1>4. SubSeq(Append(u, c), 1, Len(u)) = u
  BY <1>1, <1>3 DEF Strings
<1> QED
  BY <1>1, <1>2, <1>4

LEMMA FrontLast ==
  ASSUME NEW u \in Strings, u # <<>>
  PROVE  /\ Front(u) \in Strings /\ Last(u) \in Character
         /\ Len(u) \in Nat \ {0} /\ Len(Front(u)) = Len(u) - 1
         /\ \A i \in 1 .. Len(u) - 1 : Front(u)[i] = u[i]
         /\ u = Append(Front(u), Last(u))
<1>1. Len(u) \in Nat \ {0} /\ u[Len(u)] \in Character
  BY DEF Strings
<1>2. /\ Front(u) \in Strings /\ Len(Front(u)) = Len(u) - 1
      /\ \A i \in 1 .. Len(u) - 1 : Front(u)[i] = u[i]
  <2> DEFINE n == Len(u) - 1
  <2>1. u \in Seq(Character) /\ n \in Nat /\ n <= Len(u)
    BY <1>1 DEF Strings
  <2>2. Front(u) = SubSeq(u, 1, n)
    BY DEF Front
  <2> HIDE DEF n
  <2>3. /\ SubSeq(u, 1, n) \in Seq(Character) /\ Len(SubSeq(u, 1, n)) = n
        /\ \A i \in 1 .. n : SubSeq(u, 1, n)[i] = u[i]
    BY <2>1
  <2> QED
    BY <2>2, <2>3 DEF Strings, n
<1>3. Last(u) = u[Len(u)]
  BY DEF Last
<1>4. \A i \in 1 .. Len(u) : u[i] = Append(Front(u), Last(u))[i]
  BY <1>1, <1>2, <1>3, AppendString
<1>5. u = Append(Front(u), Last(u))
  BY <1>1, <1>2, <1>3, <1>4, AppendString, SeqEqual DEF Strings
<1> QED
  BY <1>1, <1>2, <1>3, <1>5

LEMMA SuffixAppend ==
  ASSUME NEW u \in Strings, NEW t \in Strings, NEW c \in Character, IsSuffix(u, t)
  PROVE  IsSuffix(Append(u, c), Append(t, c))
<1> DEFINE a == Append(u, c)
           b == Append(t, c)
<1>1. /\ a \in Strings /\ b \in Strings
      /\ Len(u) \in Nat /\ Len(t) \in Nat /\ Len(a) = Len(u) + 1 /\ Len(b) = Len(t) + 1
      /\ \A i \in 1 .. Len(u) : a[i] = u[i]
      /\ \A i \in 1 .. Len(t) : b[i] = t[i]
      /\ a[Len(u) + 1] = c /\ b[Len(t) + 1] = c
  BY AppendString
<1>2. Len(u) <= Len(t) /\ \A i \in 1 .. Len(u) : u[i] = t[Len(t) - Len(u) + i]
  BY SuffixMeans
<1> HIDE DEF a, b
<1>3. ASSUME NEW i \in 1 .. Len(a)
      PROVE  a[i] = b[Len(b) - Len(a) + i]
  <2>0. Len(b) - Len(a) + i = Len(t) - Len(u) + i
    BY <1>1
  <2>1. CASE i = Len(u) + 1
    BY <1>1, <2>0, <2>1
  <2>2. CASE i \in 1 .. Len(u)
    <3>1. Len(t) - Len(u) + i \in 1 .. Len(t)
      BY <1>1, <1>2, <2>2
    <3> QED
      BY <1>1, <1>2, <2>0, <2>2, <3>1
  <2> QED
    BY <1>1, <2>1, <2>2
<1>4. Len(a) <= Len(b)
  BY <1>1, <1>2
<1>5. IsSuffix(a, b)
  BY <1>1, <1>3, <1>4, SuffixMeans
<1> QED
  BY <1>5 DEF a, b

(* A suffix of one character more is empty or one character more itself.   *)
LEMMA SuffixOfAppend ==
  ASSUME NEW u \in Strings, NEW t \in Strings, NEW c \in Character,
         u # <<>>, IsSuffix(u, Append(t, c))
  PROVE  Last(u) = c /\ IsSuffix(Front(u), t) /\ u = Append(Front(u), c)
<1> DEFINE a == Front(u)
           b == Append(t, c)
<1>1. /\ b \in Strings /\ Len(t) \in Nat /\ Len(b) = Len(t) + 1
      /\ b[Len(t) + 1] = c /\ \A i \in 1 .. Len(t) : b[i] = t[i]
  BY AppendString
<1>2. /\ a \in Strings /\ Len(u) \in Nat \ {0} /\ Len(a) = Len(u) - 1
      /\ \A i \in 1 .. Len(u) - 1 : a[i] = u[i]
      /\ u = Append(a, Last(u))
  BY FrontLast
<1>3. Len(u) <= Len(b) /\ \A i \in 1 .. Len(u) : u[i] = b[Len(b) - Len(u) + i]
  BY <1>1, SuffixMeans
<1> HIDE DEF a, b
<1>4. Last(u) = c
  <2>1. u[Len(u)] = b[Len(b) - Len(u) + Len(u)]
    BY <1>2, <1>3
  <2>2. Len(b) - Len(u) + Len(u) = Len(t) + 1
    BY <1>1, <1>2
  <2> QED
    BY <1>1, <2>1, <2>2 DEF Last
<1>5. ASSUME NEW i \in 1 .. Len(a)
      PROVE  a[i] = t[Len(t) - Len(a) + i]
  <2>1. a[i] = u[i] /\ u[i] = b[Len(b) - Len(u) + i]
    BY <1>2, <1>3
  <2>2. Len(b) - Len(u) + i = Len(t) - Len(a) + i /\ Len(t) - Len(a) + i \in 1 .. Len(t)
    BY <1>1, <1>2, <1>3
  <2> QED
    BY <1>1, <2>1, <2>2
<1>6. Len(a) <= Len(t)
  BY <1>1, <1>2, <1>3
<1>7. IsSuffix(a, t)
  BY <1>2, <1>5, <1>6, SuffixMeans
<1> QED
  BY <1>2, <1>4, <1>7 DEF a

-----------------------------------------------------------------------------
(* The longest suffix of a string in a set. *)
LongestIn(n, w, M) ==
  n \in M /\ IsSuffix(n, w) /\ \A m \in M : IsSuffix(m, w) => Len(m) <= Len(n)

LEMMA LongestExists ==
  ASSUME NEW M \in SUBSET Strings, <<>> \in M, NEW w \in Strings
  PROVE  LongestIn(LongestSuffixIn(w, M), w, M)
<1> DEFINE T == {k \in Nat : \E n \in M : IsSuffix(n, w) /\ k = Len(w) - Len(n)}
<1>1. \A n \in M : IsSuffix(n, w) => Len(w) - Len(n) \in T
  <2>1. \A n \in M : IsSuffix(n, w) => Len(n) <= Len(w) /\ Len(n) \in Nat /\ Len(w) \in Nat
    BY SuffixMeans DEF Strings
  <2> QED
    BY <2>1
<1>2. T # {}
  BY <1>1, SuffixSelf
<1>3. PICK k \in T : \A j \in T : k <= j
  BY <1>2, LeastElement
<1>4. PICK n \in M : IsSuffix(n, w) /\ k = Len(w) - Len(n)
  BY <1>3
<1>5. \A m \in M : IsSuffix(m, w) => Len(m) <= Len(n)
  <2>1. \A m \in M : IsSuffix(m, w) => k <= Len(w) - Len(m)
    BY <1>1, <1>3
  <2>2. Len(w) \in Nat /\ \A m \in M : Len(m) \in Nat
    BY DEF Strings
  <2> QED
    BY <1>4, <2>1, <2>2
<1> QED
  BY <1>4, <1>5 DEF LongestIn, LongestSuffixIn

LEMMA LongestUnique ==
  ASSUME NEW M \in SUBSET Strings, NEW w \in Strings, NEW n, LongestIn(n, w, M)
  PROVE  n = LongestSuffixIn(w, M)
<1>1. LongestIn(LongestSuffixIn(w, M), w, M)
  BY DEF LongestIn, LongestSuffixIn
<1>2. \A m \in M : Len(m) \in Nat
  BY DEF Strings
<1>3. Len(n) = Len(LongestSuffixIn(w, M))
  BY <1>1, <1>2 DEF LongestIn
<1> QED
  BY <1>1, <1>3, SameSuffix DEF LongestIn

(* What the failures, the rows of the table and the scan have in common:   *)
(* one character more. If s is the longest suffix of w in M and f that of  *)
(* s followed by c in N, then f is also that of w followed by c.           *)
LEMMA LongestStep ==
  ASSUME NEW N \in SUBSET Strings, NEW M \in SUBSET Strings, NEW L \in SUBSET N,
         NEW w \in Strings, NEW c \in Character, NEW u, NEW f,
         LongestIn(u, w, M), LongestIn(f, Append(u, c), N), f \in L,
         \A m \in L : m # <<>> /\ IsSuffix(m, Append(w, c)) => Front(m) \in M
  PROVE  LongestIn(f, Append(w, c), L)
<1>1. u \in Strings /\ f \in Strings /\ IsSuffix(u, w) /\ IsSuffix(f, Append(u, c))
  BY DEF LongestIn
<1>2. Append(u, c) \in Strings /\ Append(w, c) \in Strings
  BY <1>1, AppendString
<1>3. IsSuffix(Append(u, c), Append(w, c))
  BY <1>1, SuffixAppend
<1>4. IsSuffix(f, Append(w, c))
  BY <1>1, <1>2, <1>3, SuffixTransitive
<1>5. ASSUME NEW m \in L, IsSuffix(m, Append(w, c))
      PROVE  Len(m) <= Len(f)
  <2>1. CASE m = <<>>
    BY <1>1, <2>1, SuffixSelf DEF Strings
  <2>2. CASE m # <<>>
    <3>1. Front(m) \in M /\ IsSuffix(Front(m), w) /\ m = Append(Front(m), c)
      BY <1>5, <2>2, SuffixOfAppend
    <3>2. Len(Front(m)) <= Len(u)
      BY <3>1 DEF LongestIn
    <3>3. IsSuffix(Front(m), u)
      BY <1>1, <3>1, <3>2, SuffixOfLonger
    <3>4. IsSuffix(Append(Front(m), c), Append(u, c))
      BY <1>1, <3>1, <3>3, SuffixAppend
    <3>5. IsSuffix(m, Append(u, c))
      BY <3>1, <3>4
    <3> QED
      BY <3>5 DEF LongestIn
  <2> QED
    BY <2>1, <2>2
<1> QED
  BY <1>4, <1>5 DEF LongestIn

(* The nodes of a trie, and the failures that are set so far.              *)
TrieShape ==
  /\ Nodes \in SUBSET Strings
  /\ Root \in Nodes
  /\ \A n \in Nodes \ {Root} : Front(n) \in Nodes

FailureShape ==
  /\ DOMAIN failure \in SUBSET Nodes
  /\ Root \in DOMAIN failure /\ failure[Root] = Root
  /\ \A n \in DOMAIN failure \ {Root} :
       failure[n] \in DOMAIN failure /\ LongestIn(failure[n], n, Nodes \ {n})

(* Following the failures of s for c ends at the longest suffix of s and c *)
(* that is a node.                                                         *)
LEMMA FollowIsLongest ==
  ASSUME TrieShape, FailureShape
  PROVE  \A u \in DOMAIN failure, c \in Character :
           LongestIn(Follow(u, c), Append(u, c), Nodes)
<1> SUFFICES ASSUME NEW c \in Character
             PROVE  \A u \in DOMAIN failure : LongestIn(Follow(u, c), Append(u, c), Nodes)
  OBVIOUS
<1> DEFINE Val(h, u) == IF HasGoto(u, c) THEN Append(u, c)
                        ELSE IF u = Root THEN Root ELSE h[failure[u]]
           g == [u \in DOMAIN failure |-> LongestSuffixIn(Append(u, c), Nodes)]
           f == CHOOSE h : h = [u \in DOMAIN failure |-> Val(h, u)]
<1>1. \A u \in DOMAIN failure : u \in Strings /\ u \in Nodes /\ Append(u, c) \in Strings
  BY AppendString DEF TrieShape, FailureShape
<1>2. \A u \in DOMAIN failure : LongestIn(g[u], Append(u, c), Nodes)
  BY <1>1, LongestExists DEF TrieShape, Root
<1>3. ASSUME NEW u \in DOMAIN failure PROVE g[u] = Val(g, u)
  <2>1. CASE HasGoto(u, c)
    <3>1. LongestIn(Append(u, c), Append(u, c), Nodes)
      BY <1>1, <2>1, SuffixMeans, SuffixSelf DEF LongestIn, HasGoto, TrieShape
    <3> QED
      BY <1>1, <2>1, <3>1, LongestUnique DEF TrieShape
  <2>2. CASE ~ HasGoto(u, c) /\ u = Root
    <3>1. ASSUME NEW m \in Nodes, IsSuffix(m, Append(u, c)), m # Root
          PROVE  FALSE
      <4>1. m \in Strings /\ Front(m) \in Nodes /\ m = Append(Front(m), c)
        BY <1>1, <3>1, SuffixOfAppend DEF TrieShape, Root
      <4>2. IsSuffix(Front(m), u)
        BY <1>1, <3>1, <4>1, SuffixOfAppend DEF Root
      <4>3. Front(m) = Root
        BY <2>2, <4>1, <4>2, SuffixMeans, SuffixSelf, FrontLast DEF TrieShape, Root, Strings
      <4> QED
        BY <2>2, <4>1, <4>3 DEF HasGoto
    <3>2. LongestIn(Root, Append(u, c), Nodes)
      <4>1. IsSuffix(Root, Append(u, c)) /\ Len(Root) = 0
        BY <1>1, SuffixSelf DEF Root
      <4>2. \A m \in Nodes : IsSuffix(m, Append(u, c)) => m = Root
        BY <3>1
      <4>3. \A m \in Nodes : IsSuffix(m, Append(u, c)) => Len(m) <= Len(Root)
        BY <4>1, <4>2
      <4> QED
        BY <4>1, <4>3 DEF LongestIn, TrieShape
    <3> QED
      BY <1>1, <2>2, <3>2, LongestUnique DEF TrieShape
  <2>3. CASE ~ HasGoto(u, c) /\ u # Root
    <3> DEFINE r == failure[u]
    <3>1. r \in DOMAIN failure /\ LongestIn(r, u, Nodes \ {u})
      BY <2>3 DEF FailureShape
    <3>2. LongestIn(g[r], Append(r, c), Nodes)
      BY <1>2, <3>1
    <3> HIDE DEF g, r
    <3>3. ASSUME NEW m \in Nodes, m # <<>>, IsSuffix(m, Append(u, c))
          PROVE  Front(m) \in Nodes \ {u}
      <4>1. m = Append(Front(m), c) /\ Front(m) \in Nodes
        BY <1>1, <3>3, SuffixOfAppend DEF TrieShape, Root
      <4> QED
        BY <2>3, <4>1 DEF HasGoto
    <3>4. LongestIn(g[r], Append(u, c), Nodes)
      <4>1. Nodes \in SUBSET Strings /\ Nodes \ {u} \in SUBSET Strings /\ g[r] \in Nodes
        BY <3>2 DEF TrieShape, LongestIn
      <4> QED
        BY <1>1, <3>1, <3>2, <3>3, <4>1, LongestStep
    <3>5. g[r] = g[u]
      BY <1>1, <3>4, LongestUnique DEF TrieShape, g
    <3> QED
      BY <2>3, <3>5 DEF r
  <2> QED
    BY <2>1, <2>2, <2>3
<1>4. g = [u \in DOMAIN failure |-> Val(g, u)]
  BY <1>3
<1> HIDE DEF g
<1>5. f = [u \in DOMAIN failure |-> Val(f, u)]
  BY <1>4
<1>6. \A u \in DOMAIN failure : Follow(u, c) = f[u]
  BY DEF Follow
<1> HIDE DEF f
<1>7. \A u \in DOMAIN failure : f[u] = g[u]
  <2> DEFINE P == {k \in Nat : \A u \in DOMAIN failure : Len(u) <= k => f[u] = g[u]}
  <2>1. \A u \in DOMAIN failure : Len(u) \in Nat
    BY <1>1 DEF Strings
  <2>2. \A u \in DOMAIN failure : f[u] = Val(f, u)
    BY <1>5
  <2>3. \A u \in DOMAIN failure \ {Root} :
          failure[u] \in DOMAIN failure /\ Len(failure[u]) < Len(u)
    <3> SUFFICES ASSUME NEW u \in DOMAIN failure \ {Root}
                 PROVE  failure[u] \in DOMAIN failure /\ Len(failure[u]) < Len(u)
      OBVIOUS
    <3>1. /\ failure[u] \in DOMAIN failure /\ failure[u] # u /\ IsSuffix(failure[u], u)
      BY DEF FailureShape, LongestIn
    <3>2. failure[u] \in Strings /\ u \in Strings
      BY <1>1, <3>1
    <3>3. Len(failure[u]) # Len(u)
      BY <3>1, <3>2, SameSuffix, SuffixSelf
    <3> QED
      BY <2>1, <3>1, <3>2, <3>3, SuffixMeans
  <2>4. 0 \in P
    <3>1. \A u \in DOMAIN failure : Len(u) <= 0 => u = Root
      BY <1>1, <2>1 DEF Strings, Root
    <3>2. f[Root] = g[Root]
      BY <1>3, <2>2 DEF FailureShape
    <3> QED
      BY <3>1, <3>2
  <2>5. ASSUME NEW k \in Nat, k \in P PROVE k + 1 \in P
    <3> SUFFICES ASSUME NEW u \in DOMAIN failure, Len(u) <= k + 1
                 PROVE  f[u] = g[u]
      OBVIOUS
    <3>1. u # Root => f[failure[u]] = g[failure[u]]
      BY <2>1, <2>3, <2>5
    <3>2. Val(f, u) = Val(g, u)
      BY <3>1
    <3> QED
      BY <1>3, <2>2, <3>2
  <2> HIDE DEF P
  <2>6. \A k \in Nat : k \in P
    BY <2>4, <2>5, Induction
  <2> QED
    BY <2>1, <2>6 DEF P
<1> QED
  BY <1>2, <1>6, <1>7

-----------------------------------------------------------------------------
(* Prefixes of patterns and of nodes. *)

LEMMA SubSeqString ==
  ASSUME NEW p \in Strings, NEW k \in 0 .. Len(p)
  PROVE  /\ SubSeq(p, 1, k) \in Strings /\ Len(SubSeq(p, 1, k)) = k
         /\ \A i \in 1 .. k : SubSeq(p, 1, k)[i] = p[i]
  BY DEF Strings

LEMMA EqualStrings ==
  ASSUME NEW u \in Strings, NEW t \in Strings, Len(u) = Len(t),
         \A i \in 1 .. Len(u) : u[i] = t[i]
  PROVE  u = t
  BY SeqEqual DEF Strings

(* A prefix of p is a node that entering p makes or finds, its front is    *)
(* the prefix it is a goto of.                                             *)
LEMMA PrefixOfPattern ==
  ASSUME NEW p \in Strings, NEW m \in Prefixes(p)
  PROVE  m \in Strings /\ IsPrefix(m, p) /\ m = SubSeq(p, 1, Len(m)) /\ Len(m) \in 0 .. Len(p)
<1>1. Len(p) \in Nat
  BY DEF Strings
<1>2. PICK k \in 0 .. Len(p) : m = SubSeq(p, 1, k)
  BY DEF Prefixes
<1>3. m \in Strings /\ Len(m) = k /\ \A i \in 1 .. k : m[i] = p[i]
  BY <1>2, SubSeqString
<1>4. IsPrefix(m, p)
  BY <1>1, <1>3, PrefixMeans
<1> QED
  BY <1>2, <1>3, <1>4

LEMMA PrefixIsSubSeq ==
  ASSUME NEW p \in Strings, NEW n \in Strings, IsPrefix(n, p)
  PROVE  Len(n) \in 0 .. Len(p) /\ n = SubSeq(p, 1, Len(n)) /\ n \in Prefixes(p)
<1>1. /\ Len(n) \in Nat /\ Len(p) \in Nat /\ Len(n) <= Len(p)
      /\ \A i \in 1 .. Len(n) : n[i] = p[i]
  BY PrefixMeans DEF Strings
<1>2. Len(n) \in 0 .. Len(p)
  BY <1>1
<1> DEFINE m == SubSeq(p, 1, Len(n))
<1>3. m \in Strings /\ Len(m) = Len(n) /\ \A i \in 1 .. Len(n) : m[i] = p[i]
  BY <1>2, SubSeqString
<1> HIDE DEF m
<1>4. n = m
  BY <1>1, <1>3, EqualStrings
<1> QED
  BY <1>2, <1>4 DEF m, Prefixes

LEMMA PrefixSelf ==
  ASSUME NEW p \in Strings
  PROVE  IsPrefix(p, p)
  BY PrefixMeans DEF Strings

LEMMA PrefixFront ==
  ASSUME NEW p \in Strings, NEW m \in Strings, NEW n \in Strings, m # <<>>
  PROVE  m \in Prefixes(p) /\ Front(m) = n
           <=> n # p /\ IsPrefix(n, p) /\ m = SubSeq(p, 1, Len(n) + 1)
<1>1. /\ Len(p) \in Nat /\ Len(n) \in Nat
      /\ Len(m) \in Nat \ {0} /\ Front(m) \in Strings /\ Len(Front(m)) = Len(m) - 1
      /\ \A i \in 1 .. Len(m) - 1 : Front(m)[i] = m[i]
  BY FrontLast DEF Strings
<1>2. ASSUME m \in Prefixes(p), Front(m) = n
      PROVE  n # p /\ IsPrefix(n, p) /\ m = SubSeq(p, 1, Len(n) + 1)
  <2>1. IsPrefix(m, p) /\ m = SubSeq(p, 1, Len(m)) /\ Len(m) <= Len(p)
    BY <1>2, PrefixOfPattern
  <2>2. Len(n) = Len(m) - 1
    BY <1>1, <1>2
  <2>3. \A i \in 1 .. Len(n) : n[i] = p[i]
    BY <1>1, <1>2, <2>1, <2>2, PrefixMeans
  <2>4. IsPrefix(n, p)
    BY <1>1, <2>1, <2>2, <2>3, PrefixMeans
  <2>5. n # p /\ Len(n) + 1 = Len(m)
    BY <1>1, <2>1, <2>2
  <2> QED
    BY <2>1, <2>4, <2>5
<1>3. ASSUME n # p, IsPrefix(n, p), m = SubSeq(p, 1, Len(n) + 1)
      PROVE  m \in Prefixes(p) /\ Front(m) = n
  <2>1. Len(n) <= Len(p) /\ \A i \in 1 .. Len(n) : n[i] = p[i]
    BY <1>3, PrefixMeans
  <2>2. Len(n) # Len(p)
    BY <1>3, <2>1, EqualStrings
  <2>3. Len(n) + 1 \in 0 .. Len(p)
    BY <1>1, <2>1, <2>2
  <2>4. m \in Prefixes(p)
    BY <1>3, <2>3 DEF Prefixes
  <2>5. Len(m) = Len(n) + 1 /\ \A i \in 1 .. Len(n) + 1 : m[i] = p[i]
    BY <1>3, <2>3, SubSeqString
  <2>6. \A i \in 1 .. Len(n) : Front(m)[i] = n[i]
    BY <1>1, <2>1, <2>5
  <2>7. Front(m) = n
    BY <1>1, <2>5, <2>6, EqualStrings
  <2> QED
    BY <2>4, <2>7
<1> QED
  BY <1>2, <1>3

LEMMA NextOnPath ==
  ASSUME NEW p \in Strings, NEW n \in Strings, n # p, IsPrefix(n, p)
  PROVE  \E m \in Prefixes(p) : m # <<>> /\ Front(m) = n
<1>1. Len(n) \in Nat /\ Len(p) \in Nat /\ Len(n) < Len(p)
  BY PrefixMeans, EqualStrings DEF Strings
<1>2. Len(n) + 1 \in 0 .. Len(p)
  BY <1>1
<1>3. PICK m \in Prefixes(p) : m = SubSeq(p, 1, Len(n) + 1)
  BY <1>2 DEF Prefixes
<1>4. m \in Strings /\ Len(m) = Len(n) + 1
  BY <1>2, <1>3, SubSeqString
<1>5. m # <<>>
  BY <1>1, <1>4
<1>6. m \in Prefixes(p) /\ Front(m) = n
        <=> n # p /\ IsPrefix(n, p) /\ m = SubSeq(p, 1, Len(n) + 1)
  BY <1>4, <1>5, PrefixFront
<1> QED
  BY <1>3, <1>5, <1>6

(* With a node, its prefixes are nodes. *)
LEMMA PrefixClosed ==
  ASSUME TrieShape, NEW n \in Nodes, NEW k \in 0 .. Len(n)
  PROVE  SubSeq(n, 1, k) \in Nodes
<1> DEFINE P == {j \in Nat : j <= Len(n) => SubSeq(n, 1, Len(n) - j) \in Nodes}
<1>1. n \in Strings /\ Len(n) \in Nat
  BY DEF TrieShape, Strings
<1>2. 0 \in P
  <2>1. SubSeq(n, 1, Len(n)) = n
    <3>1. Len(n) \in 0 .. Len(n)
      BY <1>1
    <3> QED
      BY <1>1, <3>1, SubSeqString, EqualStrings
  <2>2. Len(n) - 0 = Len(n)
    BY <1>1
  <2> QED
    BY <2>1, <2>2
<1>3. ASSUME NEW j \in Nat, j \in P PROVE j + 1 \in P
  <2> SUFFICES ASSUME j + 1 <= Len(n) PROVE SubSeq(n, 1, Len(n) - (j + 1)) \in Nodes
    OBVIOUS
  <2> DEFINE m == SubSeq(n, 1, Len(n) - j)
             l == SubSeq(n, 1, Len(n) - (j + 1))
  <2>1. Len(n) - j \in 0 .. Len(n) /\ Len(n) - (j + 1) \in 0 .. Len(n)
    BY <1>1
  <2>2. m \in Nodes
    BY <1>1, <1>3
  <2>3. /\ m \in Strings /\ Len(m) = Len(n) - j /\ \A i \in 1 .. Len(n) - j : m[i] = n[i]
        /\ l \in Strings /\ Len(l) = Len(n) - (j + 1)
        /\ \A i \in 1 .. Len(n) - (j + 1) : l[i] = n[i]
    BY <1>1, <2>1, SubSeqString
  <2> HIDE DEF m, l
  <2>4. m # <<>>
    BY <1>1, <2>3
  <2>5. /\ Front(m) \in Strings /\ Len(Front(m)) = Len(m) - 1
        /\ \A i \in 1 .. Len(m) - 1 : Front(m)[i] = m[i]
    BY <2>3, <2>4, FrontLast
  <2>6. Len(Front(m)) = Len(l) /\ \A i \in 1 .. Len(l) : Front(m)[i] = l[i]
    BY <1>1, <2>3, <2>5
  <2>7. Front(m) = l
    BY <2>3, <2>5, <2>6, EqualStrings
  <2> QED
    BY <2>2, <2>4, <2>7 DEF TrieShape, Root, l
<1> HIDE DEF P
<1>4. Len(n) - k \in P
  BY <1>1, <1>2, <1>3, Induction
<1>5. Len(n) - (Len(n) - k) = k /\ Len(n) - k <= Len(n)
  BY <1>1
<1> QED
  BY <1>4, <1>5 DEF P

(* A node that has another as a prefix is below one of its children.       *)
LEMMA BelowChild ==
  ASSUME TrieShape, NEW r \in Nodes, NEW n \in Nodes, n # r, IsPrefix(r, n)
  PROVE  \E m \in Nodes \ {Root} : Front(m) = r /\ IsPrefix(m, n)
<1> DEFINE m == SubSeq(n, 1, Len(r) + 1)
<1>1. /\ n \in Strings /\ r \in Strings /\ Len(n) \in Nat /\ Len(r) \in Nat
      /\ Len(r) <= Len(n) /\ \A i \in 1 .. Len(r) : r[i] = n[i]
  BY PrefixMeans DEF TrieShape, Strings
<1>2. Len(r) + 1 \in 0 .. Len(n)
  BY <1>1, EqualStrings
<1>3. m \in Nodes
  BY <1>2, PrefixClosed
<1>4. m \in Strings /\ Len(m) = Len(r) + 1 /\ \A i \in 1 .. Len(r) + 1 : m[i] = n[i]
  BY <1>1, <1>2, SubSeqString
<1>5. m = SubSeq(n, 1, Len(r) + 1)
  OBVIOUS
<1> HIDE DEF m
<1>6. m # Root
  BY <1>1, <1>4 DEF Root
<1>7. Front(m) = r
  <2>1. n # r /\ IsPrefix(r, n)
    OBVIOUS
  <2> QED
    BY <1>1, <1>4, <1>6, <1>5, <2>1, PrefixFront DEF Root
<1>8. IsPrefix(m, n)
  BY <1>1, <1>2, <1>4, PrefixMeans
<1> QED
  BY <1>3, <1>6, <1>7, <1>8

-----------------------------------------------------------------------------
(* The trie: every edge adds the last character, a leaf is a pattern.      *)
TrieInv ==
  /\ TrieShape
  /\ gotos \in [Nodes -> Seq(Nodes)]
  /\ \A n \in Nodes : Children(n) = {m \in Nodes \ {Root} : Front(m) = n}
  /\ message \in [Nodes -> Seq(Nodes)]
  /\ message[Root] = <<>>
  /\ \A n \in Nodes \ {Root} : IsLeaf(n) => n \in ToSet(message[n])
  /\ DOMAIN hasFailInto = Nodes
  /\ file \in Seq(Strings \ {<<>>})

LEMMA ToSetConcat ==
  ASSUME NEW S, NEW u \in Seq(S), NEW t \in Seq(S)
  PROVE  ToSet(u \o t) = ToSet(u) \cup ToSet(t)
<1>1. /\ Len(u) \in Nat /\ Len(t) \in Nat /\ Len(u \o t) = Len(u) + Len(t)
      /\ DOMAIN u = 1 .. Len(u) /\ DOMAIN t = 1 .. Len(t)
      /\ DOMAIN (u \o t) = 1 .. Len(u) + Len(t)
      /\ \A i \in 1 .. Len(u) + Len(t) :
           (u \o t)[i] = IF i <= Len(u) THEN u[i] ELSE t[i - Len(u)]
  BY ConcatProperties
<1>2. ASSUME NEW i \in DOMAIN (u \o t)
      PROVE  (u \o t)[i] \in ToSet(u) \cup ToSet(t)
  <2>1. CASE i <= Len(u)
    BY <1>1, <2>1 DEF ToSet
  <2>2. CASE i > Len(u)
    <3>1. i - Len(u) \in DOMAIN t /\ (u \o t)[i] = t[i - Len(u)]
      BY <1>1, <2>2
    <3> QED
      BY <3>1 DEF ToSet
  <2> QED
    BY <1>1, <2>1, <2>2
<1>3. ASSUME NEW i \in DOMAIN u PROVE u[i] \in ToSet(u \o t)
  <2>1. i \in DOMAIN (u \o t) /\ (u \o t)[i] = u[i]
    BY <1>1
  <2> QED
    BY <2>1 DEF ToSet
<1>4. ASSUME NEW i \in DOMAIN t PROVE t[i] \in ToSet(u \o t)
  <2>1. Len(u) + i \in DOMAIN (u \o t) /\ (u \o t)[Len(u) + i] = t[i]
    BY <1>1
  <2> QED
    BY <2>1 DEF ToSet
<1> QED
  BY <1>2, <1>3, <1>4 DEF ToSet

LEMMA ToSetSingle ==
  ASSUME NEW x
  PROVE  ToSet(<<x>>) = {x}
  BY DEF ToSet

LEMMA ToSetEmpty == ToSet(<<>>) = {} /\ \A S : <<>> \in Seq(S)
  BY DEF ToSet

LEMMA EnterKeepsTrie ==
  ASSUME TrieInv, Enter
  PROVE  TrieInv'
<1> DEFINE p == Head(file)
           new == NewNodes(p)
           all == Nodes \cup new
<1>1. p \in Strings /\ p # <<>> /\ file' = Tail(file) /\ file' \in Seq(Strings \ {<<>>})
  BY DEF TrieInv, Enter
<1>2. /\ gotos' = [n \in all |-> (IF n \in Nodes THEN gotos[n] ELSE <<>>) \o NewGoto(n, p)]
      /\ message' = [n \in all |-> IF n = p THEN <<p>>
                                   ELSE IF n \in Nodes THEN message[n] ELSE <<>>]
      /\ hasFailInto' = [n \in all |-> 0]
  BY DEF Enter
<1> HIDE DEF p
<1>3. Nodes' = all
  BY <1>2 DEF Nodes
<1>4. new = (Prefixes(p) \ {<<>>}) \ Nodes
  BY DEF NewNodes, Root
<1> HIDE DEF new
<1>5. /\ \A m \in new : m \in Strings /\ m # <<>> /\ m \in Prefixes(p)
      /\ Nodes \in SUBSET Strings /\ all \in SUBSET Strings /\ Root \in Nodes /\ Root = <<>>
  BY <1>1, <1>4, PrefixOfPattern DEF TrieInv, TrieShape, Root
(* The front of a node, new or old, is a node. *)
<1>6. ASSUME NEW m \in all \ {Root} PROVE Front(m) \in all
  <2>1. CASE m \in Nodes
    BY <1>5, <2>1 DEF TrieInv, TrieShape
  <2>2. CASE m \in new
    <3>1. Front(m) \in Strings
      BY <1>5, <2>2, FrontLast
    <3>2. Front(m) \in Prefixes(p)
      <4> DEFINE n == Front(m)
      <4>1. n # p /\ IsPrefix(n, p)
        BY <1>1, <1>5, <2>2, <3>1, PrefixFront
      <4> QED
        BY <1>1, <3>1, <4>1, PrefixIsSubSeq
    <3> QED
      BY <1>4, <1>5, <3>2
  <2> QED
    BY <2>1, <2>2
(* What NewGoto adds. *)
<1>7. ASSUME NEW n \in all
      PROVE  /\ NewGoto(n, p) \in Seq(all)
             /\ ToSet(NewGoto(n, p)) = {m \in new : Front(m) = n}
  <2>1. n \in Strings
    BY <1>5
  <2>2. \A m \in new : Front(m) = n <=> n # p /\ IsPrefix(n, p) /\ m = SubSeq(p, 1, Len(n) + 1)
    BY <1>1, <1>5, <2>1, PrefixFront
  <2> DEFINE x == SubSeq(p, 1, Len(n) + 1)
  <2>3. CASE n # p /\ IsPrefix(n, p) /\ x \in new
    <3>1. NewGoto(n, p) = <<x>>
      BY <2>3 DEF NewGoto, new
    <3>2. {m \in new : Front(m) = n} = {x}
      BY <2>2, <2>3
    <3> HIDE DEF x
    <3> QED
      BY <2>3, <3>1, <3>2, ToSetSingle
  <2>4. CASE ~ (n # p /\ IsPrefix(n, p) /\ x \in new)
    <3>1. NewGoto(n, p) = <<>>
      BY <2>4 DEF NewGoto, new
    <3>2. {m \in new : Front(m) = n} = {}
      BY <2>2, <2>4
    <3> QED
      BY <3>1, <3>2, ToSetEmpty
  <2> QED
    BY <2>3, <2>4
<1> DEFINE old(n) == IF n \in Nodes THEN gotos[n] ELSE <<>>
<1>8. ASSUME NEW n \in all
      PROVE  /\ old(n) \in Seq(all)
             /\ ToSet(old(n)) = {m \in Nodes \ {Root} : Front(m) = n}
  <2>1. CASE n \in Nodes
    <3>1. gotos[n] \in Seq(Nodes)
      BY <2>1 DEF TrieInv
    <3>2. gotos[n] \in Seq(all)
      BY <3>1, SeqMonotonic
    <3> QED
      BY <2>1, <3>2 DEF TrieInv, Children
  <2>2. CASE n \notin Nodes
    <3>1. {m \in Nodes \ {Root} : Front(m) = n} = {}
      BY <2>2 DEF TrieInv, TrieShape
    <3> QED
      BY <2>2, <3>1, ToSetEmpty
  <2> QED
    BY <2>1, <2>2
<1>9. ASSUME NEW n \in all
      PROVE  /\ gotos'[n] \in Seq(all)
             /\ ToSet(gotos'[n]) = {m \in all \ {Root} : Front(m) = n}
  <2>1. gotos'[n] = old(n) \o NewGoto(n, p)
    BY <1>2
  <2> HIDE DEF old
  <2>2. gotos'[n] \in Seq(all) /\ ToSet(gotos'[n]) = ToSet(old(n)) \cup ToSet(NewGoto(n, p))
    BY <1>7, <1>8, <2>1, ToSetConcat, ConcatProperties
  <2> QED
    BY <1>5, <1>7, <1>8, <2>2
<1>10. TrieShape'
  BY <1>3, <1>5, <1>6 DEF TrieShape, Root
<1>11. gotos' \in [all -> Seq(all)]
  BY <1>2, <1>9
<1>12. p \in all
  <2>1. p \in Prefixes(p)
    BY <1>1, PrefixSelf, PrefixIsSubSeq
  <2> QED
    BY <1>1, <1>4, <2>1
<1>13. message' \in [all -> Seq(all)] /\ message'[Root] = <<>>
  <2>1. \A n \in Nodes : message[n] \in Seq(all)
    BY SeqMonotonic DEF TrieInv
  <2>2. <<p>> \in Seq(all) /\ <<>> \in Seq(all)
    BY <1>12
  <2>3. \A n \in all : message'[n] \in Seq(all)
    BY <1>2, <2>1, <2>2
  <2>4. message'[Root] = <<>>
    BY <1>1, <1>2, <1>5 DEF TrieInv
  <2> QED
    BY <1>2, <2>3, <2>4
<1>14. ASSUME NEW n \in all \ {Root}, gotos'[n] = <<>> PROVE n \in ToSet(message'[n])
  <2>1. {m \in all \ {Root} : Front(m) = n} = {}
    BY <1>9, <1>14, ToSetEmpty
  <2>2. CASE n = p
    BY <1>2, <2>2, ToSetSingle
  <2>3. CASE n # p /\ n \in Nodes
    <3>1. {m \in Nodes \ {Root} : Front(m) = n} = {}
      BY <2>1
    <3>2. gotos[n] \in Seq(Nodes) /\ ToSet(gotos[n]) = {}
      BY <2>3, <3>1 DEF TrieInv, Children
    <3>3. gotos[n] = <<>>
      BY <3>2 DEF ToSet
    <3> QED
      BY <1>2, <1>5, <2>3, <3>3 DEF TrieInv, IsLeaf
  <2>4. CASE n # p /\ n \in new
    <3>1. n \in Strings /\ IsPrefix(n, p)
      BY <1>1, <1>5, <2>4, PrefixOfPattern
    <3>2. PICK m \in Prefixes(p) : m # <<>> /\ Front(m) = n
      BY <1>1, <2>4, <3>1, NextOnPath
    <3> QED
      BY <1>4, <1>5, <2>1, <3>2
  <2> QED
    BY <2>2, <2>3, <2>4
<1> QED
  BY <1>1, <1>2, <1>3, <1>9, <1>10, <1>11, <1>13, <1>14 DEF TrieInv, Children, IsLeaf, Root

-----------------------------------------------------------------------------
(* The breadth-first search that sets the failures: the queue is in the    *)
(* order of the lengths, which differ by one at most, and the nodes that   *)
(* have no failure yet are below those in the queue.                       *)
SearchInv ==
  /\ FailureShape
  /\ queue \in Seq(DOMAIN failure \ {Root})
  /\ \A i, j \in DOMAIN queue : i <= j =>
       Len(queue[i]) <= Len(queue[j]) /\ Len(queue[j]) <= Len(queue[i]) + 1
  /\ \A n \in Nodes \ DOMAIN failure : \E i \in DOMAIN queue : IsPrefix(queue[i], n)

LEMMA ChildMeans ==
  ASSUME TrieInv, NEW r \in Nodes, NEW n \in Children(r)
  PROVE  /\ n \in Nodes \ {Root} /\ n \in Strings /\ r \in Strings /\ Front(n) = r
         /\ Last(n) \in Character /\ n = Append(r, Last(n)) /\ IsPrefix(r, n)
         /\ Len(r) \in Nat /\ Len(n) = Len(r) + 1
<1>1. n \in Nodes \ {Root} /\ n \in Strings /\ r \in Strings /\ Front(n) = r /\ n # <<>>
  BY DEF TrieInv, TrieShape, Root
<1>2. Last(n) \in Character /\ n = Append(r, Last(n))
  BY <1>1, FrontLast
<1>3. Len(r) \in Nat /\ Len(n) = Len(r) + 1 /\ \A i \in 1 .. Len(r) : n[i] = r[i]
  BY <1>1, <1>2, AppendString
<1>4. IsPrefix(r, n)
  BY <1>1, <1>3, PrefixMeans
<1> QED
  BY <1>1, <1>2, <1>3, <1>4

LEMMA ChildBelow ==
  ASSUME TrieInv, NEW r \in Nodes, NEW n \in Nodes, n # r, IsPrefix(r, n)
  PROVE  \E m \in Children(r) : IsPrefix(m, n)
  BY BelowChild DEF TrieInv

LEMMA InToSet ==
  ASSUME NEW u, NEW x \in ToSet(u)
  PROVE  \E i \in DOMAIN u : u[i] = x
  BY DEF ToSet

LEMMA StartSearches ==
  ASSUME TrieInv, StartFailures
  PROVE  SearchInv'
<1> DEFINE D == {Root} \cup Children(Root)
<1>1. /\ gotos' = gotos /\ Nodes' = Nodes
      /\ failure' = [n \in D |-> Root] /\ DOMAIN failure' = D
      /\ queue' = gotos[Root]
  BY DEF StartFailures, Nodes
<1>2. Root \in Nodes /\ Root \in Strings /\ Len(Root) = 0 /\ Nodes \in SUBSET Strings
  BY SuffixSelf DEF TrieInv, TrieShape, Root
<1>3. ASSUME NEW n \in D \ {Root}
      PROVE  n \in Nodes \ {Root} /\ n \in Strings /\ Len(n) = 1
  <2>1. n \in Children(Root)
    OBVIOUS
  <2>2. n \in Nodes \ {Root} /\ n \in Strings /\ Len(n) = Len(Root) + 1
    BY <1>2, <2>1, ChildMeans
  <2> QED
    BY <1>2, <2>2
<1>4. ASSUME NEW n \in D \ {Root}
      PROVE  LongestIn(Root, n, Nodes \ {n})
  <2>1. n \in Strings /\ Len(n) = 1
    BY <1>3
  <2>2. IsSuffix(Root, n)
    BY <2>1, SuffixSelf DEF Root
  <2>3. ASSUME NEW m \in Nodes \ {n}, IsSuffix(m, n)
        PROVE  Len(m) <= Len(Root)
    <3>1. m \in Strings /\ Len(m) \in Nat
      BY <1>2 DEF Strings
    <3>2. Len(m) <= Len(n)
      BY <2>1, <2>3, <3>1, SuffixMeans
    <3>3. Len(m) # Len(n)
      BY <2>1, <2>3, <3>1, SuffixSelf, SameSuffix
    <3> QED
      BY <1>2, <2>1, <3>1, <3>2, <3>3
  <2> QED
    BY <1>2, <2>2, <2>3 DEF LongestIn
<1>5. FailureShape'
  BY <1>1, <1>2, <1>3, <1>4 DEF FailureShape, Root
<1>6. queue' \in Seq(D \ {Root}) /\ ToSet(queue') = Children(Root)
  <2>1. gotos[Root] \in Seq(Nodes)
    BY <1>2 DEF TrieInv
  <2>2. \A i \in 1 .. Len(gotos[Root]) : gotos[Root][i] \in D \ {Root}
    <3>1. \A i \in DOMAIN gotos[Root] : gotos[Root][i] \in Children(Root)
      BY DEF Children, ToSet
    <3>2. Root \notin Children(Root)
      BY <1>2, ChildMeans
    <3> QED
      BY <2>1, <3>1, <3>2
  <2> QED
    BY <1>1, <2>1, <2>2 DEF Children
<1>7. \A i \in DOMAIN queue' : queue'[i] \in D \ {Root} /\ Len(queue'[i]) = 1
  BY <1>3, <1>6
<1>8. ASSUME NEW n \in Nodes \ D
      PROVE  \E i \in DOMAIN queue' : IsPrefix(queue'[i], n)
  <2>1. IsPrefix(Root, n) /\ n # Root
    <3>1. n \in Strings /\ Len(n) \in Nat /\ n # Root
      BY <1>2 DEF Strings
    <3> QED
      BY <1>2, <3>1, PrefixMeans
  <2>2. PICK m \in Children(Root) : IsPrefix(m, n)
    BY <1>2, <2>1, ChildBelow
  <2> QED
    BY <1>6, <2>2, InToSet
<1> HIDE DEF D
<1> QED
  BY <1>1, <1>5, <1>6, <1>7, <1>8 DEF SearchInv

(* The failure that a child of the first node of the queue gets.           *)
LEMMA ChildFailureIsLongest ==
  ASSUME TrieInv, FailureShape, NEW r \in DOMAIN failure \ {Root}, NEW n \in Children(r)
  PROVE  /\ LongestIn(ChildFailure(r, n), n, Nodes \ {n})
         /\ Len(ChildFailure(r, n)) <= Len(r)
<1> DEFINE u == failure[r]
           c == Last(n)
           f == ChildFailure(r, n)
<1>1. /\ r \in Nodes /\ n \in Nodes \ {Root} /\ n \in Strings /\ r \in Strings
      /\ c \in Character /\ n = Append(r, c) /\ Len(r) \in Nat /\ Len(n) = Len(r) + 1
  BY ChildMeans DEF FailureShape
<1>2. u \in DOMAIN failure /\ LongestIn(u, r, Nodes \ {r})
  BY DEF FailureShape
<1>3. LongestIn(f, Append(u, c), Nodes)
  BY <1>1, <1>2, FollowIsLongest DEF ChildFailure, TrieInv
<1> HIDE DEF u, c, f
<1>4. /\ Nodes \in SUBSET Strings /\ f \in Nodes /\ f \in Strings /\ u \in Strings
      /\ Append(u, c) \in Strings
  BY <1>1, <1>2, <1>3, AppendString DEF LongestIn, TrieInv, TrieShape
<1>5. Len(u) < Len(r)
  <2>1. u # r /\ IsSuffix(u, r)
    BY <1>2 DEF LongestIn
  <2>2. Len(u) <= Len(r) /\ Len(u) # Len(r)
    BY <1>1, <1>4, <2>1, SuffixMeans, SuffixSelf, SameSuffix
  <2> QED
    BY <1>1, <1>4, <2>2 DEF Strings
<1>6. Len(f) <= Len(r)
  <2>1. IsSuffix(f, Append(u, c)) /\ Len(Append(u, c)) = Len(u) + 1
    BY <1>1, <1>3, <1>4, AppendString DEF LongestIn
  <2>2. Len(f) <= Len(u) + 1
    BY <1>4, <2>1, SuffixMeans
  <2>3. Len(u) \in Nat /\ Len(f) \in Nat
    BY <1>4 DEF Strings
  <2> QED
    BY <1>1, <1>5, <2>2, <2>3
<1>7. f \in Nodes \ {n}
  BY <1>1, <1>4, <1>6 DEF Strings
<1>8. ASSUME NEW m \in Nodes \ {n}, m # <<>>, IsSuffix(m, Append(r, c))
      PROVE  Front(m) \in Nodes \ {r}
  <2>1. m \in Strings /\ m = Append(Front(m), c)
    BY <1>1, <1>4, <1>8, SuffixOfAppend
  <2>2. Front(m) \in Nodes
    BY <1>8 DEF TrieInv, TrieShape, Root
  <2> QED
    BY <1>1, <2>1, <2>2
<1>9. LongestIn(f, Append(r, c), Nodes \ {n})
  <2>1. Nodes \ {r} \in SUBSET Strings /\ Nodes \ {n} \in SUBSET Nodes
    BY <1>4
  <2> QED
    BY <1>1, <1>2, <1>3, <1>4, <1>7, <1>8, <2>1, LongestStep
<1> QED
  BY <1>1, <1>6, <1>9 DEF f

(* A node is dequeued: the invariant of the search is kept.                *)
LEMMA SearchContinues ==
  ASSUME TrieInv, SearchInv, FailStep
  PROVE  SearchInv'
<1> DEFINE r == Head(queue)
           D == DOMAIN failure
           E == D \cup Children(r)
<1>1. /\ gotos' = gotos /\ Nodes' = Nodes
      /\ failure' = [n \in E |-> IF n \in Children(r) THEN ChildFailure(r, n) ELSE failure[n]]
      /\ DOMAIN failure' = E /\ queue' = Tail(queue) \o gotos[r]
  BY DEF FailStep, Nodes
<1>2. /\ queue # <<>> /\ queue \in Seq(D \ {Root}) /\ Len(queue) \in Nat \ {0}
      /\ r = queue[1] /\ r \in D \ {Root} /\ DOMAIN queue = 1 .. Len(queue)
  BY DEF FailStep, SearchInv
<1>3. FailureShape /\ D \in SUBSET Nodes /\ r \in Nodes /\ Nodes \in SUBSET Strings
  BY <1>2 DEF SearchInv, FailureShape, TrieInv, TrieShape
<1> HIDE DEF r
<1>4. \A n \in Children(r) : /\ n \in Nodes \ {Root} /\ n \in Strings /\ n # r
                             /\ Len(n) = Len(r) + 1 /\ IsPrefix(r, n)
  BY <1>3, ChildMeans DEF Strings
<1>5. Len(r) \in Nat /\ \A n \in Nodes : n \in Strings /\ Len(n) \in Nat
  BY <1>3 DEF Strings
(* The nodes up to the length of r all have a failure.                     *)
<1>6. ASSUME NEW n \in Nodes, Len(n) <= Len(r)
      PROVE  n \in D
  <2> SUFFICES ASSUME n \notin D PROVE FALSE
    OBVIOUS
  <2>1. PICK i \in DOMAIN queue : IsPrefix(queue[i], n)
    BY DEF SearchInv
  <2> DEFINE q == queue[i]
  <2>2. q \in D /\ q \in Nodes /\ q \in Strings /\ Len(q) \in Nat
    BY <1>2, <1>3, <1>5
  <2>3. Len(r) <= Len(q)
    BY <1>2 DEF SearchInv
  <2> HIDE DEF q
  <2>4. IsPrefix(q, n) /\ q # n
    BY <2>1, <2>2 DEF q
  <2>5. Len(q) < Len(n)
    BY <1>5, <2>2, <2>4, PrefixMeans, EqualStrings
  <2> QED
    BY <1>5, <1>6, <2>2, <2>3, <2>5
<1>7. FailureShape'
  <2>1. Root \in D /\ failure[Root] = Root /\ Root \notin Children(r)
    BY <1>3, <1>4 DEF FailureShape
  <2>2. E \in SUBSET Nodes
    BY <1>3, <1>4
  <2>3. ASSUME NEW n \in E \ {Root}
        PROVE  failure'[n] \in E /\ LongestIn(failure'[n], n, Nodes \ {n})
    <3>1. CASE n \in Children(r)
      <4>1. failure'[n] = ChildFailure(r, n)
        BY <1>1, <3>1
      <4>2. LongestIn(ChildFailure(r, n), n, Nodes \ {n}) /\ Len(ChildFailure(r, n)) <= Len(r)
        BY <1>2, <1>3, <3>1, ChildFailureIsLongest
      <4>3. ChildFailure(r, n) \in D
        BY <1>6, <4>2 DEF LongestIn
      <4> QED
        BY <4>1, <4>2, <4>3
    <3>2. CASE n \notin Children(r)
      BY <1>1, <1>3, <3>2 DEF FailureShape
    <3> QED
      BY <3>1, <3>2
  <2>4. Root \in E /\ failure'[Root] = Root
    BY <1>1, <2>1
  <2> HIDE DEF E
  <2> QED
    BY <1>1, <2>2, <2>3, <2>4 DEF FailureShape
(* What is in the queue, and that it is in order.                          *)
<1> DEFINE t == Tail(queue)
           g == gotos[r]
<1>8. /\ t \in Seq(D \ {Root}) /\ Len(t) = Len(queue) - 1
      /\ \A i \in 1 .. Len(t) : t[i] = queue[i + 1]
  BY <1>2, HeadTailProperties
<1>9. g \in Seq(Children(r)) /\ ToSet(g) = Children(r)
  <2>1. g \in Seq(Nodes)
    BY <1>3 DEF TrieInv
  <2>2. \A i \in 1 .. Len(g) : g[i] \in Children(r)
    BY <2>1 DEF Children, ToSet
  <2> QED
    BY <2>1, <2>2 DEF Children
<1> HIDE DEF t, g
<1>10. t \in Seq(E \ {Root}) /\ g \in Seq(E \ {Root})
  <2>1. D \ {Root} \in SUBSET (E \ {Root}) /\ Children(r) \in SUBSET (E \ {Root})
    BY <1>4
  <2> HIDE DEF E
  <2> QED
    BY <1>8, <1>9, <2>1, SeqMonotonic
<1>11. /\ queue' = t \o g
       /\ queue' \in Seq(E \ {Root})
       /\ Len(t) \in Nat /\ Len(g) \in Nat
       /\ DOMAIN queue' = 1 .. Len(t) + Len(g)
       /\ \A i \in 1 .. Len(t) + Len(g) :
            queue'[i] = IF i <= Len(t) THEN t[i] ELSE g[i - Len(t)]
  <2>1. queue' = t \o g
    BY <1>1 DEF t, g
  <2> HIDE DEF E
  <2>2. Len(t) \in Nat /\ Len(g) \in Nat
    BY <1>8, <1>9
  <2> QED
    BY <1>10, <2>1, <2>2, ConcatProperties, LenProperties
<1>12. \A i \in 1 .. Len(t) : Len(r) <= Len(t[i]) /\ Len(t[i]) <= Len(r) + 1
  <2> SUFFICES ASSUME NEW i \in 1 .. Len(t)
               PROVE  Len(r) <= Len(t[i]) /\ Len(t[i]) <= Len(r) + 1
    OBVIOUS
  <2>1. i + 1 \in DOMAIN queue /\ 1 \in DOMAIN queue /\ 1 <= i + 1 /\ t[i] = queue[i + 1]
    BY <1>2, <1>8
  <2> QED
    BY <1>2, <2>1 DEF SearchInv
<1>13. \A i \in 1 .. Len(g) : g[i] \in Children(r) /\ Len(g[i]) = Len(r) + 1
  BY <1>4, <1>9, ElementOfSeq
<1>14. \A i \in 1 .. Len(t) : Len(t[i]) \in Nat
  <2>1. \A i \in 1 .. Len(t) : t[i] \in Nodes
    BY <1>3, <1>8, ElementOfSeq
  <2> QED
    BY <1>5, <2>1
<1>15. ASSUME NEW i \in DOMAIN queue', NEW j \in DOMAIN queue', i <= j
       PROVE  Len(queue'[i]) <= Len(queue'[j]) /\ Len(queue'[j]) <= Len(queue'[i]) + 1
  <2>0. i \in 1 .. Len(t) + Len(g) /\ j \in 1 .. Len(t) + Len(g)
    BY <1>11
  <2>1. CASE j <= Len(t)
    <3>1. i \in 1 .. Len(t) /\ j \in 1 .. Len(t)
      BY <1>15, <2>0, <2>1
    <3>2. /\ i + 1 \in DOMAIN queue /\ j + 1 \in DOMAIN queue /\ i + 1 <= j + 1
          /\ queue'[i] = queue[i + 1] /\ queue'[j] = queue[j + 1]
      BY <1>2, <1>8, <1>11, <1>15, <2>0, <3>1
    <3> QED
      BY <3>2 DEF SearchInv
  <2>2. CASE i <= Len(t) /\ j > Len(t)
    <3>1. i \in 1 .. Len(t) /\ j - Len(t) \in 1 .. Len(g)
      BY <1>11, <2>0, <2>2
    <3>2. queue'[i] = t[i] /\ queue'[j] = g[j - Len(t)]
      BY <1>11, <2>0, <2>2
    <3> QED
      BY <1>5, <1>12, <1>13, <1>14, <3>1, <3>2
  <2>3. CASE i > Len(t)
    <3>1. i - Len(t) \in 1 .. Len(g) /\ j - Len(t) \in 1 .. Len(g) /\ j > Len(t)
      BY <1>11, <1>15, <2>0, <2>3
    <3>2. queue'[i] = g[i - Len(t)] /\ queue'[j] = g[j - Len(t)]
      BY <1>11, <2>0, <2>3, <3>1
    <3>3. Len(queue'[i]) = Len(r) + 1 /\ Len(queue'[j]) = Len(r) + 1
      BY <1>13, <3>1, <3>2
    <3> QED
      BY <1>5, <3>3
  <2> QED
    BY <1>11, <2>0, <2>1, <2>2, <2>3
(* The nodes without a failure are below one of the queue.                 *)
<1>16. ASSUME NEW n \in Nodes \ E
       PROVE  \E i \in DOMAIN queue' : IsPrefix(queue'[i], n)
  <2>1. PICK k \in DOMAIN queue : IsPrefix(queue[k], n)
    BY DEF SearchInv
  <2>2. CASE k = 1
    <3>1. IsPrefix(r, n) /\ n # r
      BY <1>2, <2>1, <2>2
    <3>2. PICK m \in Children(r) : IsPrefix(m, n)
      BY <1>3, <3>1, ChildBelow
    <3>3. PICK i \in DOMAIN g : g[i] = m
      BY <1>9, InToSet
    <3>4. i \in 1 .. Len(g)
      BY <1>9, LenProperties
    <3>5. Len(t) + i \in DOMAIN queue' /\ queue'[Len(t) + i] = g[i]
      BY <1>11, <3>4
    <3> QED
      BY <3>2, <3>3, <3>5
  <2>3. CASE k # 1
    <3>1. k - 1 \in 1 .. Len(t) /\ t[k - 1] = queue[k]
      BY <1>2, <1>8, <2>3
    <3>2. k - 1 \in DOMAIN queue' /\ queue'[k - 1] = queue[k]
      BY <1>11, <3>1
    <3> QED
      BY <2>1, <3>2
  <2> QED
    BY <2>2, <2>3
<1> HIDE DEF E
<1> QED
  BY <1>1, <1>7, <1>11, <1>15, <1>16 DEF SearchInv

-----------------------------------------------------------------------------
(* The pass that moves the failures away from accepting leaves.            *)
MovedInv ==
  /\ DOMAIN failure = Nodes
  /\ failure[Root] = Root
  /\ \A n \in Nodes \ {Root} :
       /\ failure[n] \in Nodes \ {n} /\ IsSuffix(failure[n], n)
       /\ \A m \in ProperSuffixNodes(n) :
            Len(m) > Len(failure[n]) => IsLeaf(m) /\ m \in ToSet(message[n])

(* A node whose failure is still a leaf is below one on the stack.         *)
VisitInv ==
  /\ queue \in Seq(Nodes)
  /\ \A n \in Nodes \ {Root} :
       \/ \E i \in DOMAIN queue : IsPrefix(queue[i], n)
       \/ failure[n] = Root \/ ~ IsLeaf(failure[n])

(* What the walk over the leaves, from f on, has to come to: it steps over *)
(* leaves only, and takes each of them that is a suffix of f.              *)
SkipsOver(w, f) ==
  /\ w.fail \in Nodes /\ IsSuffix(w.fail, f) /\ w.messages \in Seq(Nodes)
  /\ w.fail = Root \/ ~ IsLeaf(w.fail)
  /\ f = Root => w.fail = Root /\ w.messages = <<>>
  /\ \A m \in Nodes : IsSuffix(m, f) /\ Len(m) > Len(w.fail) =>
       IsLeaf(m) /\ m \in ToSet(w.messages)

(* One step of that walk, h being the rest of it.                          *)
SkipStep(h, f) ==
  IF ~ Match(f) THEN [fail |-> f, messages |-> <<>>, skipped |-> {}]
  ELSE IF ~ IsLeaf(f) THEN [fail |-> f, messages |-> message[f], skipped |-> {}]
  ELSE [fail |-> h[failure[f]].fail,
        messages |-> message[f] \o h[failure[f]].messages,
        skipped |-> {f} \cup h[failure[f]].skipped]

LEMMA FailureIsShorter ==
  ASSUME TrieInv, MovedInv, NEW n \in Nodes \ {Root}
  PROVE  /\ failure[n] \in Nodes /\ failure[n] \in Strings /\ n \in Strings
         /\ Len(n) \in Nat /\ Len(failure[n]) \in Nat /\ Len(failure[n]) < Len(n)
<1>1. failure[n] \in Nodes /\ failure[n] # n /\ IsSuffix(failure[n], n)
  BY DEF MovedInv
<1>2. failure[n] \in Strings /\ n \in Strings
  BY <1>1 DEF TrieInv, TrieShape
<1>3. Len(failure[n]) <= Len(n) /\ Len(failure[n]) # Len(n)
  BY <1>1, <1>2, SuffixMeans, SuffixSelf, SameSuffix
<1> QED
  BY <1>1, <1>2, <1>3 DEF Strings

LEMMA SkipStepUses ==
  ASSUME TrieInv, NEW f \in Nodes, NEW h, NEW k, f # Root => h[failure[f]] = k[failure[f]]
  PROVE  SkipStep(h, f) = SkipStep(k, f)
<1>1. CASE f = Root
  BY <1>1 DEF SkipStep, Match, TrieInv
<1>2. CASE f # Root
  BY <1>2 DEF SkipStep
<1> QED
  BY <1>1, <1>2

(* The recursion is along shorter and shorter labels, so it is well        *)
(* defined however long they are.                                          *)
LEMMA WalkExists ==
  ASSUME TrieInv, MovedInv
  PROVE  \E w : w = [f \in Nodes |-> SkipStep(w, f)]
<1> DEFINE UpTo(h, k) == \A f \in Nodes : Len(f) <= k => h[f] = SkipStep(h, f)
           H == [f \in Nodes |-> (CHOOSE h : UpTo(h, Len(f)))[f]]
<1>1. \A f \in Nodes : Len(f) \in Nat /\ (Len(f) = 0 => f = Root)
  BY DEF TrieInv, TrieShape, Strings, Root
<1>2. \A f \in Nodes \ {Root} : failure[f] \in Nodes /\ Len(failure[f]) < Len(f)
  BY FailureIsShorter
<1>3. \A k \in Nat : \E h : UpTo(h, k)
  <2> DEFINE P == {k \in Nat : \E h : UpTo(h, k)}
  <2>1. 0 \in P
    <3> DEFINE h == [f \in Nodes |-> SkipStep(<<>>, f)]
    <3>1. ASSUME NEW f \in Nodes, Len(f) <= 0 PROVE h[f] = SkipStep(h, f)
      <4>1. f = Root
        BY <1>1, <3>1
      <4>2. SkipStep(<<>>, f) = SkipStep(h, f)
        BY <4>1, SkipStepUses
      <4> QED
        BY <4>2
    <3> HIDE DEF h
    <3>2. UpTo(h, 0)
      BY <3>1
    <3> HIDE DEF UpTo
    <3> QED
      BY <3>2
  <2>2. ASSUME NEW k \in Nat, k \in P PROVE k + 1 \in P
    <3>1. PICK h : UpTo(h, k)
      BY <2>2
    <3> DEFINE j == [f \in Nodes |-> IF Len(f) <= k THEN h[f] ELSE SkipStep(h, f)]
    <3>2. ASSUME NEW f \in Nodes, Len(f) <= k + 1 PROVE j[f] = SkipStep(j, f)
      <4>1. j[f] = SkipStep(h, f)
        BY <3>1
      <4>2. f # Root => j[failure[f]] = h[failure[f]]
        <5> SUFFICES ASSUME f # Root PROVE j[failure[f]] = h[failure[f]]
          OBVIOUS
        <5>1. failure[f] \in Nodes /\ Len(failure[f]) <= k
          BY <1>1, <1>2, <3>2
        <5> QED
          BY <5>1
      <4> HIDE DEF j
      <4>3. SkipStep(h, f) = SkipStep(j, f)
        BY <4>2, SkipStepUses
      <4> QED
        BY <4>1, <4>3
    <3> HIDE DEF j
    <3>3. UpTo(j, k + 1)
      BY <3>2
    <3> HIDE DEF UpTo
    <3> QED
      BY <3>3
  <2> HIDE DEF P
  <2>3. \A k \in Nat : k \in P
    BY <2>1, <2>2, Induction
  <2> QED
    BY <2>3 DEF P
<1>4. ASSUME NEW h, NEW j, NEW k \in Nat, UpTo(h, k), UpTo(j, k)
      PROVE  \A f \in Nodes : Len(f) <= k => h[f] = j[f]
  <2> DEFINE P == {i \in Nat : i <= k => \A f \in Nodes : Len(f) <= i => h[f] = j[f]}
  <2>1. 0 \in P
    <3>1. ASSUME NEW f \in Nodes, Len(f) <= 0 PROVE h[f] = j[f]
      <4>1. f = Root /\ Len(f) <= k
        BY <1>1, <3>1
      <4>2. SkipStep(h, f) = SkipStep(j, f)
        BY <4>1, SkipStepUses
      <4> QED
        BY <1>4, <4>1, <4>2
    <3> QED
      BY <3>1
  <2>2. ASSUME NEW i \in Nat, i \in P PROVE i + 1 \in P
    <3> SUFFICES ASSUME i + 1 <= k, NEW f \in Nodes, Len(f) <= i + 1 PROVE h[f] = j[f]
      OBVIOUS
    <3>1. \A g \in Nodes : Len(g) <= i => h[g] = j[g]
      BY <2>2
    <3>2. f # Root => h[failure[f]] = j[failure[f]]
      <4> SUFFICES ASSUME f # Root PROVE h[failure[f]] = j[failure[f]]
        OBVIOUS
      <4>1. failure[f] \in Nodes /\ Len(failure[f]) <= i
        BY <1>1, <1>2
      <4> QED
        BY <3>1, <4>1
    <3>3. SkipStep(h, f) = SkipStep(j, f)
      BY <3>2, SkipStepUses
    <3>4. Len(f) <= k
      BY <1>1
    <3> QED
      BY <1>4, <3>3, <3>4
  <2> HIDE DEF P
  <2>3. k \in P
    BY <2>1, <2>2, Induction
  <2> QED
    BY <2>3 DEF P
<1>5. ASSUME NEW f \in Nodes
      PROVE  UpTo(CHOOSE h : UpTo(h, Len(f)), Len(f))
  <2>1. \E h : UpTo(h, Len(f))
    BY <1>1, <1>3
  <2> HIDE DEF UpTo
  <2> QED
    BY <2>1
<1>6. ASSUME NEW f \in Nodes PROVE H[f] = SkipStep(H, f)
  <2> DEFINE h == CHOOSE h : UpTo(h, Len(f))
             j == CHOOSE j : UpTo(j, Len(failure[f]))
  <2>1. H[f] = h[f]
    OBVIOUS
  <2>2. UpTo(h, Len(f))
    BY <1>5
  <2>3. f # Root => H[failure[f]] = h[failure[f]]
    <3> SUFFICES ASSUME f # Root PROVE H[failure[f]] = h[failure[f]]
      OBVIOUS
    <3>1. /\ failure[f] \in Nodes /\ Len(failure[f]) < Len(f)
          /\ Len(failure[f]) \in Nat /\ Len(f) \in Nat
      BY <1>1, <1>2
    <3>2. H[failure[f]] = j[failure[f]]
      BY <3>1
    <3>3. UpTo(j, Len(failure[f]))
      BY <1>5, <3>1
    <3> HIDE DEF h, j, H
    <3>4. UpTo(h, Len(failure[f]))
      BY <1>1, <2>2, <3>1
    <3>5. j[failure[f]] = h[failure[f]]
      BY <1>4, <3>1, <3>3, <3>4
    <3> QED
      BY <3>2, <3>5
  <2> HIDE DEF h, j, H
  <2>4. SkipStep(h, f) = SkipStep(H, f)
    BY <2>3, SkipStepUses
  <2>5. Len(f) <= Len(f)
    BY <1>1
  <2> QED
    BY <2>1, <2>2, <2>4, <2>5
<1>7. H = [f \in Nodes |-> SkipStep(H, f)]
  BY <1>6
<1> QED
  BY <1>7

LEMMA SkipsLeaves ==
  ASSUME TrieInv, MovedInv
  PROVE  \A f \in Nodes : SkipsOver(SkipLeaves(f), f)
<1> DEFINE w == CHOOSE w : w = [f \in Nodes |-> SkipStep(w, f)]
<1>1. w = [f \in Nodes |-> SkipStep(w, f)]
  BY WalkExists
<1>2. \A f \in Nodes : SkipLeaves(f) = w[f]
  BY DEF SkipLeaves, SkipStep
<1> HIDE DEF w
<1>3. \A f \in Nodes : w[f] = SkipStep(w, f)
  BY <1>1
<1>4. \A f \in Nodes : f \in Strings /\ Len(f) \in Nat /\ (Len(f) = 0 => f = Root)
  BY DEF TrieInv, TrieShape, Strings, Root
<1>5. \A f \in Nodes \ {Root} : failure[f] \in Nodes /\ Len(failure[f]) < Len(f)
  BY FailureIsShorter
<1>6. ASSUME NEW f \in Nodes, ~ (Match(f) /\ IsLeaf(f))
      PROVE  SkipsOver(w[f], f)
  <2>1. w[f].fail = f /\ w[f].messages = message[f]
    <3>1. ~ Match(f) => message[f] = <<>>
      BY DEF Match
    <3>2. w[f] = SkipStep(w, f)
      BY <1>3
    <3>3. CASE ~ Match(f)
      BY <3>1, <3>2, <3>3 DEF SkipStep
    <3>4. CASE Match(f) /\ ~ IsLeaf(f)
      BY <3>2, <3>4 DEF SkipStep
    <3> QED
      BY <1>6, <3>3, <3>4
  <2>2. \A m \in Nodes : IsSuffix(m, f) => ~ (Len(m) > Len(f))
    BY <1>4, SuffixMeans
  <2>3. f = Root \/ ~ IsLeaf(f)
    <3> SUFFICES ASSUME f # Root, IsLeaf(f) PROVE FALSE
      OBVIOUS
    <3>1. f \in ToSet(message[f])
      BY DEF TrieInv
    <3>2. message[f] # <<>>
      BY <3>1, ToSetEmpty
    <3> QED
      BY <1>6, <3>2 DEF Match
  <2>4. IsSuffix(f, f) /\ message[f] \in Seq(Nodes) /\ (f = Root => message[f] = <<>>)
    BY <1>4, SuffixSelf DEF TrieInv
  <2>5. \A m \in Nodes : IsSuffix(m, f) /\ Len(m) > Len(w[f].fail) =>
          IsLeaf(m) /\ m \in ToSet(w[f].messages)
    BY <2>1, <2>2
  <2>6. /\ w[f].fail \in Nodes /\ IsSuffix(w[f].fail, f) /\ w[f].messages \in Seq(Nodes)
        /\ w[f].fail = Root \/ ~ IsLeaf(w[f].fail)
    BY <2>1, <2>3, <2>4
  <2>7. f = Root => w[f].fail = Root /\ w[f].messages = <<>>
    BY <2>1, <2>4
  <2> QED
    BY <2>5, <2>6, <2>7 DEF SkipsOver
<1>7. ASSUME NEW f \in Nodes, Match(f), IsLeaf(f), SkipsOver(w[failure[f]], failure[f])
      PROVE  SkipsOver(w[f], f)
  <2> DEFINE v == w[failure[f]]
  <2>1. f # Root
    BY <1>7 DEF Match, TrieInv
  <2>2. w[f].fail = v.fail /\ w[f].messages = message[f] \o v.messages
    <3>1. w[f] = SkipStep(w, f)
      BY <1>3
    <3>2. Match(f) /\ IsLeaf(f)
      BY <1>7
    <3> DEFINE x == v.fail
               y == message[f] \o v.messages
               z == {f} \cup v.skipped
    <3>3. w[f] = [fail |-> x, messages |-> y, skipped |-> z]
      BY <3>1, <3>2, Zenon DEF SkipStep
    <3> HIDE DEF x, y, z
    <3>4. w[f].fail = x /\ w[f].messages = y
      BY <3>3
    <3> QED
      BY <3>4 DEF x, y
  <2>3. /\ v.fail \in Nodes /\ IsSuffix(v.fail, failure[f]) /\ v.messages \in Seq(Nodes)
        /\ v.fail = Root \/ ~ IsLeaf(v.fail)
        /\ \A m \in Nodes : IsSuffix(m, failure[f]) /\ Len(m) > Len(v.fail) =>
             IsLeaf(m) /\ m \in ToSet(v.messages)
    BY <1>7 DEF SkipsOver
  <2> HIDE DEF v
  <2>4. /\ failure[f] \in Nodes /\ failure[f] # f /\ IsSuffix(failure[f], f)
        /\ \A m \in ProperSuffixNodes(f) :
             Len(m) > Len(failure[f]) => IsLeaf(m) /\ m \in ToSet(message[f])
    BY <2>1 DEF MovedInv
  <2>5. IsSuffix(v.fail, f)
    BY <1>4, <2>3, <2>4, SuffixTransitive
  <2>6. message[f] \in Seq(Nodes) /\ f \in ToSet(message[f])
    BY <1>7, <2>1 DEF TrieInv
  <2>7. /\ message[f] \o v.messages \in Seq(Nodes)
        /\ ToSet(message[f] \o v.messages) = ToSet(message[f]) \cup ToSet(v.messages)
    BY <2>3, <2>6, ToSetConcat
  <2>8. ASSUME NEW m \in Nodes, IsSuffix(m, f), Len(m) > Len(v.fail)
        PROVE  IsLeaf(m) /\ m \in ToSet(message[f]) \cup ToSet(v.messages)
    <3>1. CASE m = f
      BY <1>7, <2>6, <3>1
    <3>2. CASE m # f /\ Len(m) > Len(failure[f])
      BY <2>4, <2>8, <3>2 DEF ProperSuffixNodes
    <3>3. CASE Len(m) <= Len(failure[f])
      <4>1. IsSuffix(m, failure[f])
        BY <1>4, <2>4, <2>8, <3>3, SuffixOfLonger
      <4> QED
        BY <2>3, <2>8, <4>1
    <3> QED
      BY <1>4, <2>4, <3>1, <3>2, <3>3
  <2> QED
    BY <2>1, <2>2, <2>3, <2>5, <2>7, <2>8 DEF SkipsOver
<1> DEFINE P == {k \in Nat : \A f \in Nodes : Len(f) <= k => SkipsOver(w[f], f)}
<1>8. 0 \in P
  <2>1. ~ Match(Root) /\ Root \in Nodes
    BY DEF Match, TrieInv, TrieShape
  <2>2. SkipsOver(w[Root], Root)
    BY <1>6, <2>1
  <2>3. \A f \in Nodes : Len(f) <= 0 => f = Root
    BY <1>4
  <2> QED
    BY <2>2, <2>3
<1>9. ASSUME NEW k \in Nat, k \in P PROVE k + 1 \in P
  <2> SUFFICES ASSUME NEW f \in Nodes, Len(f) <= k + 1 PROVE SkipsOver(w[f], f)
    OBVIOUS
  <2>1. CASE ~ (Match(f) /\ IsLeaf(f))
    BY <1>6, <2>1
  <2>2. CASE Match(f) /\ IsLeaf(f)
    <3>1. f # Root
      BY <2>2 DEF Match, TrieInv
    <3>2. failure[f] \in Nodes /\ Len(failure[f]) <= k
      BY <1>4, <1>5, <3>1
    <3>3. SkipsOver(w[failure[f]], failure[f])
      BY <1>9, <3>2
    <3> QED
      BY <1>7, <2>2, <3>3
  <2> QED
    BY <2>1, <2>2
<1> HIDE DEF P
<1>10. \A k \in Nat : k \in P
  BY <1>8, <1>9, Induction
<1>11. \A f \in Nodes : SkipsOver(w[f], f)
  <2> SUFFICES ASSUME NEW f \in Nodes PROVE SkipsOver(w[f], f)
    OBVIOUS
  <2>1. Len(f) \in P /\ Len(f) <= Len(f)
    BY <1>4, <1>10
  <2> QED
    BY <2>1 DEF P
<1> QED
  BY <1>2, <1>11

LEMMA SearchedIsMoved ==
  ASSUME TrieInv, FailureShape, DOMAIN failure = Nodes
  PROVE  MovedInv
<1> SUFFICES ASSUME NEW n \in Nodes \ {Root}
             PROVE  /\ failure[n] \in Nodes \ {n} /\ IsSuffix(failure[n], n)
                    /\ \A m \in ProperSuffixNodes(n) : ~ (Len(m) > Len(failure[n]))
  BY DEF FailureShape, MovedInv
<1>1. LongestIn(failure[n], n, Nodes \ {n})
  BY DEF FailureShape
<1>2. \A m \in Nodes : Len(m) \in Nat
  BY DEF TrieInv, TrieShape, Strings
<1>3. failure[n] \in Nodes \ {n} /\ IsSuffix(failure[n], n)
  BY <1>1 DEF LongestIn
<1>4. \A m \in ProperSuffixNodes(n) : Len(m) <= Len(failure[n])
  BY <1>1 DEF LongestIn, ProperSuffixNodes
<1>5. \A m \in ProperSuffixNodes(n) : m \in Nodes
  BY DEF ProperSuffixNodes
<1> QED
  BY <1>2, <1>3, <1>4, <1>5

(* One node is visited: what it fails to and reports afterwards.           *)
LEMMA AvoidMoves ==
  ASSUME TrieInv, MovedInv, VisitInv, AvoidStep
  PROVE  TrieInv' /\ MovedInv' /\ VisitInv'
<1> DEFINE n == Head(queue)
           u == SkipLeaves(failure[n])
<1>1. /\ gotos' = gotos /\ Nodes' = Nodes /\ hasFailInto' = [f \in Nodes |-> hasFailInto'[f]]
      /\ file' = file
      /\ message' = [message EXCEPT ![n] = @ \o u.messages]
      /\ failure' = [failure EXCEPT ![n] = u.fail]
      /\ queue' = gotos[n] \o Tail(queue)
      /\ queue # <<>>
  BY DEF AvoidStep, Nodes
<1>2. /\ n \in Nodes /\ n = queue[1] /\ Tail(queue) \in Seq(Nodes)
      /\ Len(queue) \in Nat \ {0} /\ DOMAIN queue = 1 .. Len(queue)
      /\ Len(Tail(queue)) = Len(queue) - 1
      /\ \A i \in 1 .. Len(queue) - 1 : Tail(queue)[i] = queue[i + 1]
  BY <1>1 DEF VisitInv
<1>3. /\ message \in [Nodes -> Seq(Nodes)] /\ DOMAIN failure = Nodes /\ failure[n] \in Nodes
      /\ Root \in Nodes /\ Nodes \in SUBSET Strings
  BY <1>2 DEF TrieInv, TrieShape, MovedInv
<1>4. SkipsOver(u, failure[n])
  BY <1>3, SkipsLeaves
<1> HIDE DEF n, u
<1>5. /\ u.fail \in Nodes /\ IsSuffix(u.fail, failure[n]) /\ u.messages \in Seq(Nodes)
      /\ u.fail = Root \/ ~ IsLeaf(u.fail)
      /\ failure[n] = Root => u.fail = Root /\ u.messages = <<>>
      /\ \A m \in Nodes : IsSuffix(m, failure[n]) /\ Len(m) > Len(u.fail) =>
           IsLeaf(m) /\ m \in ToSet(u.messages)
  BY <1>4 DEF SkipsOver
<1>6. /\ message' \in [Nodes -> Seq(Nodes)]
      /\ ToSet(message'[n]) = ToSet(message[n]) \cup ToSet(u.messages)
      /\ \A m \in Nodes \ {n} : message'[m] = message[m]
  <2>1. message[n] \o u.messages \in Seq(Nodes)
    BY <1>2, <1>3, <1>5, ConcatProperties
  <2>2. ToSet(message[n] \o u.messages) = ToSet(message[n]) \cup ToSet(u.messages)
    BY <1>2, <1>3, <1>5, ToSetConcat
  <2> QED
    BY <1>1, <1>2, <1>3, <2>1, <2>2
<1>7. /\ DOMAIN failure' = Nodes /\ failure'[n] = u.fail
      /\ \A m \in Nodes \ {n} : failure'[m] = failure[m]
  BY <1>1, <1>2, <1>3
<1>8. TrieInv'
  <2>1. message'[Root] = <<>>
    <3>1. CASE n = Root
      <4>1. u.messages = <<>> /\ message[Root] = <<>>
        BY <1>5, <3>1 DEF MovedInv, TrieInv
      <4>2. message'[Root] = <<>> \o <<>>
        BY <1>1, <1>3, <3>1, <4>1
      <4> QED
        BY <4>2
    <3>2. CASE n # Root
      BY <1>3, <1>6, <3>2 DEF TrieInv
    <3> QED
      BY <3>1, <3>2
  <2>2. ASSUME NEW m \in Nodes \ {Root}, IsLeaf(m) PROVE m \in ToSet(message'[m])
    <3>1. m \in ToSet(message[m])
      BY <2>2 DEF TrieInv
    <3> QED
      BY <1>6, <3>1
  <2>3. DOMAIN hasFailInto' = Nodes
    BY <1>1
  <2>4. Nodes' = Nodes /\ gotos' = gotos /\ file' = file
    BY <1>1
  <2>5. TrieShape' /\ gotos' \in [Nodes' -> Seq(Nodes')]
    BY <2>4 DEF TrieInv, TrieShape
  <2>6. \A m \in Nodes' : Children(m)' = {k \in Nodes' \ {Root} : Front(k) = m}
    BY <2>4 DEF TrieInv, Children
  <2>7. \A m \in Nodes' \ {Root} : IsLeaf(m)' => m \in ToSet(message'[m])
    BY <2>2, <2>4 DEF IsLeaf
  <2>8. file' \in Seq(Strings \ {<<>>})
    BY <2>4 DEF TrieInv
  <2>9. message' \in [Nodes' -> Seq(Nodes')] /\ DOMAIN hasFailInto' = Nodes'
    BY <1>6, <2>3, <2>4
  <2> QED
    BY <2>1, <2>5, <2>6, <2>7, <2>8, <2>9 DEF TrieInv
<1>9. ASSUME NEW m \in Nodes \ {Root}
      PROVE  /\ failure'[m] \in Nodes \ {m} /\ IsSuffix(failure'[m], m)
             /\ \A k \in ProperSuffixNodes(m) :
                  Len(k) > Len(failure'[m]) => IsLeaf(k) /\ k \in ToSet(message'[m])
  <2>1. /\ failure[m] \in Nodes \ {m} /\ IsSuffix(failure[m], m)
        /\ \A k \in ProperSuffixNodes(m) :
             Len(k) > Len(failure[m]) => IsLeaf(k) /\ k \in ToSet(message[m])
    BY DEF MovedInv
  <2>2. CASE m # n
    BY <1>6, <1>7, <2>1, <2>2
  <2>3. CASE m = n
    <3>1. /\ m \in Strings /\ failure[m] \in Strings /\ u.fail \in Strings
      BY <1>3, <1>5, <2>1
    <3>2. IsSuffix(u.fail, m)
      BY <1>5, <2>1, <2>3, <3>1, SuffixTransitive
    <3>3. u.fail # m
      <4>1. Len(u.fail) <= Len(failure[m])
        BY <1>5, <2>3, <3>1, SuffixMeans
      <4>2. Len(failure[m]) < Len(m) /\ Len(m) \in Nat /\ Len(failure[m]) \in Nat
        BY FailureIsShorter
      <4>3. Len(u.fail) \in Nat
        BY <3>1 DEF Strings
      <4> QED
        BY <4>1, <4>2, <4>3
    <3>4. ASSUME NEW k \in ProperSuffixNodes(m), Len(k) > Len(u.fail)
          PROVE  IsLeaf(k) /\ k \in ToSet(message[m]) \cup ToSet(u.messages)
      <4>1. k \in Nodes /\ IsSuffix(k, m) /\ k \in Strings
        BY <1>3 DEF ProperSuffixNodes
      <4>2. CASE Len(k) > Len(failure[m])
        BY <2>1, <4>2
      <4>3. CASE Len(k) <= Len(failure[m])
        <5>1. IsSuffix(k, failure[m])
          BY <2>1, <3>1, <4>1, <4>3, SuffixOfLonger
        <5> QED
          BY <1>5, <2>3, <3>4, <4>1, <5>1
      <4>4. Len(k) \in Nat /\ Len(failure[m]) \in Nat
        BY <3>1, <4>1 DEF Strings
      <4> QED
        BY <4>2, <4>3, <4>4
    <3> QED
      BY <1>5, <1>6, <1>7, <2>3, <3>2, <3>3, <3>4
  <2> QED
    BY <2>2, <2>3
<1>10. MovedInv'
  <2>1. failure'[Root] = Root
    BY <1>3, <1>5, <1>7 DEF MovedInv
  <2>2. \A m \in Nodes \ {Root} :
          /\ failure'[m] \in Nodes \ {m} /\ IsSuffix(failure'[m], m)
          /\ \A k \in {j \in Nodes : j # m /\ IsSuffix(j, m)} :
               Len(k) > Len(failure'[m]) => gotos[k] = <<>> /\ k \in ToSet(message'[m])
    BY <1>9 DEF ProperSuffixNodes, IsLeaf
  <2> QED
    BY <1>1, <1>7, <2>1, <2>2 DEF MovedInv, ProperSuffixNodes, IsLeaf
<1>11. VisitInv'
  <2> DEFINE g == gotos[n]
             t == Tail(queue)
  <2>1. g \in Seq(Nodes) /\ t \in Seq(Nodes) /\ ToSet(g) = Children(n)
    BY <1>2 DEF TrieInv, Children
  <2>2. queue' = g \o t
    BY <1>1
  <2>3. Len(t) = Len(queue) - 1 /\ \A i \in 1 .. Len(queue) - 1 : t[i] = queue[i + 1]
    BY <1>2
  <2> HIDE DEF g, t
  <2>4. /\ queue' \in Seq(Nodes) /\ Len(g) \in Nat /\ DOMAIN g = 1 .. Len(g)
        /\ DOMAIN queue' = 1 .. Len(g) + (Len(queue) - 1)
        /\ \A i \in 1 .. Len(g) + (Len(queue) - 1) :
             queue'[i] = IF i <= Len(g) THEN g[i] ELSE t[i - Len(g)]
    <3>1. /\ Len(g) \in Nat /\ DOMAIN g = 1 .. Len(g) /\ Len(t) \in Nat
      BY <2>1
    <3>2. /\ g \o t \in Seq(Nodes) /\ Len(g \o t) = Len(g) + Len(t)
          /\ \A i \in 1 .. Len(g) + Len(t) :
               (g \o t)[i] = IF i <= Len(g) THEN g[i] ELSE t[i - Len(g)]
      BY <2>1, ConcatProperties
    <3>3. DOMAIN (g \o t) = 1 .. Len(g \o t)
      BY <3>2, LenProperties
    <3> QED
      BY <2>2, <2>3, <3>1, <3>2, <3>3
  <2>5. ASSUME NEW m \in Nodes \ {Root}
        PROVE  \/ \E i \in DOMAIN queue' : IsPrefix(queue'[i], m)
               \/ failure'[m] = Root \/ ~ IsLeaf(failure'[m])
    <3>1. CASE m = n
      BY <1>5, <1>7, <3>1
    <3>2. CASE m # n /\ \E i \in DOMAIN queue : IsPrefix(queue[i], m)
      <4>1. PICK i \in DOMAIN queue : IsPrefix(queue[i], m)
        BY <3>2
      <4>2. CASE i = 1
        <5>1. PICK k \in Children(n) : IsPrefix(k, m)
          BY <1>2, <3>2, <4>1, <4>2, ChildBelow
        <5>2. PICK j \in DOMAIN g : g[j] = k
          BY <2>1, InToSet
        <5>3. j \in DOMAIN queue' /\ queue'[j] = g[j]
          BY <1>2, <2>4
        <5> QED
          BY <5>1, <5>2, <5>3
      <4>3. CASE i # 1
        <5>1. i - 1 \in 1 .. Len(queue) - 1 /\ t[i - 1] = queue[i]
          BY <1>2, <2>3, <4>3
        <5>2. Len(g) + (i - 1) \in DOMAIN queue' /\ queue'[Len(g) + (i - 1)] = t[i - 1]
          BY <1>2, <2>4, <5>1
        <5> QED
          BY <4>1, <5>1, <5>2
      <4> QED
        BY <4>2, <4>3
    <3>3. CASE m # n /\ (failure[m] = Root \/ ~ IsLeaf(failure[m]))
      BY <1>7, <3>3
    <3> QED
      BY <3>1, <3>2, <3>3 DEF VisitInv
  <2> QED
    BY <1>1, <2>4, <2>5 DEF VisitInv, IsLeaf, Nodes
<1> QED
  BY <1>8, <1>10, <1>11

-----------------------------------------------------------------------------
(* The inductive invariant of the construction: what holds in each phase.  *)

(* What the tree that has been built is, in either of its two forms.       *)
BuiltInv ==
  /\ DOMAIN failure = Nodes
  /\ ~ AvoidFailToLeaves => FailureShape
  /\ AvoidFailToLeaves =>
       MovedInv /\ \A n \in Nodes \ {Root} : failure[n] = Root \/ ~ IsLeaf(failure[n])

TreeInv ==
  /\ TrieInv
  /\ queue \in Seq(Nodes)
  /\ phase = "enter" => failure = <<>>
  /\ phase = "failures" => SearchInv
  /\ phase = "avoid" => AvoidFailToLeaves /\ MovedInv /\ VisitInv
  /\ phase \notin {"enter", "failures", "avoid"} => BuiltInv

LEMMA TrieStays ==
  ASSUME TrieInv, gotos' = gotos, message' = message, file' = file, DOMAIN hasFailInto' = Nodes
  PROVE  TrieInv' /\ Nodes' = Nodes
<1>1. Nodes' = Nodes
  BY DEF Nodes
<1>2. TrieShape' /\ gotos' \in [Nodes' -> Seq(Nodes')]
  BY <1>1 DEF TrieInv, TrieShape
<1>3. \A n \in Nodes' : Children(n)' = {m \in Nodes' \ {Root} : Front(m) = n}
  BY <1>1 DEF TrieInv, Children
<1>4. \A n \in Nodes' \ {Root} : IsLeaf(n)' => n \in ToSet(message'[n])
  BY <1>1 DEF TrieInv, IsLeaf
<1>5. /\ message' \in [Nodes' -> Seq(Nodes')] /\ message'[Root] = <<>>
      /\ DOMAIN hasFailInto' = Nodes' /\ file' \in Seq(Strings \ {<<>>})
  BY <1>1 DEF TrieInv
<1> QED
  BY <1>1, <1>2, <1>3, <1>4, <1>5 DEF TrieInv

LEMMA BuiltStays ==
  ASSUME BuiltInv, gotos' = gotos, message' = message, failure' = failure
  PROVE  BuiltInv'
<1>1. Nodes' = Nodes
  BY DEF Nodes
<1>2. FailureShape => FailureShape'
  BY <1>1 DEF FailureShape, LongestIn
<1>3. MovedInv => MovedInv'
  <2>1. \A n, m : (IsLeaf(m) => IsLeaf(m)') /\ ProperSuffixNodes(n)' = ProperSuffixNodes(n)
    BY <1>1 DEF IsLeaf, ProperSuffixNodes
  <2> QED
    BY <1>1, <2>1 DEF MovedInv
<1>4. \A n : IsLeaf(n)' <=> IsLeaf(n)
  BY DEF IsLeaf
<1> QED
  BY <1>1, <1>2, <1>3, <1>4 DEF BuiltInv

(* A file's patterns are not empty and its characters are bytes: the root  *)
(* alone is a trie.                                                        *)
LEMMA TreeStarts ==
  ASSUME TreeAssumption, TreeInit
  PROVE  TreeInv
<1>1. /\ Nodes = {Root} /\ gotos[Root] = <<>> /\ message[Root] = <<>> /\ Root = <<>>
      /\ gotos = [n \in {Root} |-> <<>>] /\ message = [n \in {Root} |-> <<>>]
      /\ DOMAIN hasFailInto = {Root} /\ queue = <<>> /\ failure = <<>> /\ phase = "enter"
  BY DEF TreeInit, Nodes, Root
<1>2. <<>> \in Strings /\ <<>> \in Seq(Nodes) /\ <<>> \in Seq({Root})
  BY DEF Strings
<1>3. TrieShape
  BY <1>1, <1>2 DEF TrieShape
<1>4. Children(Root) = {}
  BY <1>1, ToSetEmpty DEF Children
<1>5. file \in Seq(Strings \ {<<>>})
  BY DEF TreeInit, TreeAssumption
<1>6. TrieInv
  BY <1>1, <1>2, <1>3, <1>4, <1>5 DEF TrieInv
<1> QED
  BY <1>1, <1>2, <1>6 DEF TreeInv

LEMMA TreeGrows ==
  ASSUME TreeInv, BuildTree
  PROVE  TreeInv'
<1> USE DEF TreeInv
<1>1. CASE Enter
  <2>1. TrieInv'
    BY <1>1, EnterKeepsTrie
  <2>2. phase' = "enter" /\ failure' = <<>> /\ queue' = queue /\ Nodes \subseteq Nodes'
    BY <1>1 DEF Enter, Nodes
  <2>3. queue' \in Seq(Nodes')
    BY <2>2, SeqMonotonic
  <2> QED
    BY <2>1, <2>2, <2>3
<1>2. CASE StartFailures
  <2>1. SearchInv'
    BY <1>2, StartSearches
  <2>2. TrieInv' /\ Nodes' = Nodes
    BY <1>2, TrieStays DEF StartFailures, TrieInv
  <2>3. phase' = "failures" /\ queue' \in Seq(Nodes')
    BY <1>2, <2>2 DEF StartFailures, TrieInv, TrieShape
  <2> QED
    BY <2>1, <2>2, <2>3
<1>3. CASE FailStep
  <2>1. SearchInv'
    BY <1>3, SearchContinues DEF FailStep
  <2>2. DOMAIN hasFailInto' = Nodes
    BY <1>3 DEF FailStep
  <2>3. TrieInv' /\ Nodes' = Nodes
    BY <1>3, <2>2, TrieStays DEF FailStep
  <2>4. phase' = "failures"
    BY <1>3 DEF FailStep
  <2>5. queue' \in Seq(Nodes')
    <3>1. queue' \in Seq((DOMAIN failure)' \ {Root}) /\ (DOMAIN failure)' \subseteq Nodes'
      BY <2>1 DEF SearchInv, FailureShape
    <3> QED
      BY <3>1, SeqMonotonic
  <2> QED
    BY <2>1, <2>3, <2>4, <2>5
<1>4. CASE FailuresDone
  <2>1. /\ TrieInv' /\ Nodes' = Nodes /\ phase = "failures" /\ queue = <<>>
        /\ gotos' = gotos /\ failure' = failure /\ message' = message
    BY <1>4, TrieStays DEF FailuresDone, TrieInv, tree
  <2>2. DOMAIN failure = Nodes
    <3>1. DOMAIN queue = {}
      BY <2>1
    <3> QED
      BY <2>1, <3>1 DEF SearchInv, FailureShape
  <2>3. MovedInv /\ FailureShape
    BY <2>1, <2>2, SearchedIsMoved DEF SearchInv
  <2>4. CASE AvoidFailToLeaves
    <3>1. phase' = "avoid" /\ queue' = <<Root>>
      BY <1>4, <2>4 DEF FailuresDone
    <3>2. MovedInv'
      <4>1. \A n, m : (IsLeaf(m) => IsLeaf(m)') /\ ProperSuffixNodes(n)' = ProperSuffixNodes(n)
        BY <2>1 DEF IsLeaf, ProperSuffixNodes
      <4> QED
        BY <2>1, <2>3, <4>1 DEF MovedInv
    <3>3. queue' \in Seq(Nodes') /\ 1 \in DOMAIN queue' /\ queue'[1] = Root
      BY <2>1, <3>1 DEF TrieInv, TrieShape
    <3>4. ASSUME NEW n \in Nodes PROVE IsPrefix(Root, n)
      <4>1. n \in Strings /\ Root \in Strings /\ Len(Root) = 0 /\ Len(n) \in Nat
        BY DEF TrieInv, TrieShape, Strings, Root
      <4> QED
        BY <4>1, PrefixMeans
    <3>5. VisitInv'
      BY <2>1, <3>3, <3>4 DEF VisitInv
    <3> QED
      BY <2>1, <2>4, <3>1, <3>2, <3>3, <3>5
  <2>5. CASE ~ AvoidFailToLeaves
    <3>1. phase' = "built" /\ queue' = queue
      BY <1>4, <2>5 DEF FailuresDone
    <3>2. BuiltInv
      BY <2>2, <2>3, <2>5 DEF BuiltInv
    <3>3. BuiltInv'
      BY <2>1, <3>2, BuiltStays
    <3> QED
      BY <2>1, <3>1, <3>3
  <2> QED
    BY <2>4, <2>5
<1>5. CASE AvoidStep
  <2>1. TrieInv' /\ MovedInv' /\ VisitInv'
    BY <1>5, AvoidMoves DEF AvoidStep
  <2>2. phase' = "avoid" /\ AvoidFailToLeaves
    BY <1>5 DEF AvoidStep
  <2> QED
    BY <2>1, <2>2 DEF VisitInv
<1>6. CASE AvoidDone
  <2>1. /\ TrieInv' /\ Nodes' = Nodes /\ phase = "avoid" /\ queue = <<>> /\ phase' = "built"
        /\ gotos' = gotos /\ failure' = failure /\ message' = message /\ queue' = queue
    BY <1>6, TrieStays DEF AvoidDone, TrieInv, tree
  <2>2. DOMAIN queue = {}
    BY <2>1
  <2>3. BuiltInv
    BY <2>1, <2>2 DEF BuiltInv, MovedInv, VisitInv
  <2>4. BuiltInv'
    BY <2>1, <2>3, BuiltStays
  <2> QED
    BY <2>1, <2>4
<1> QED
  BY <1>1, <1>2, <1>3, <1>4, <1>5, <1>6 DEF BuildTree

LEMMA TreeUnchanged ==
  ASSUME TreeInv, UNCHANGED treeVars
  PROVE  TreeInv'
<1>1. /\ gotos' = gotos /\ failure' = failure /\ message' = message /\ queue' = queue
      /\ hasFailInto' = hasFailInto /\ file' = file /\ phase' = phase
  BY DEF treeVars, tree
<1>2. TrieInv' /\ Nodes' = Nodes
  BY <1>1, TrieStays DEF TreeInv, TrieInv
<1>3. BuiltInv => BuiltInv'
  BY <1>1, BuiltStays
<1>4. SearchInv => SearchInv'
  BY <1>1, <1>2 DEF SearchInv, FailureShape, LongestIn
<1>5. MovedInv /\ VisitInv => MovedInv' /\ VisitInv'
  <2>1. \A n, m : (IsLeaf(m) <=> IsLeaf(m)') /\ ProperSuffixNodes(n)' = ProperSuffixNodes(n)
    BY <1>1, <1>2 DEF IsLeaf, ProperSuffixNodes
  <2> QED
    BY <1>1, <1>2, <2>1 DEF MovedInv, VisitInv
<1> QED
  BY <1>1, <1>2, <1>3, <1>4, <1>5 DEF TreeInv

-----------------------------------------------------------------------------
(* What the construction guarantees, for every patterns file.              *)

LEMMA TreeAlwaysInv == TreeSpec => []TreeInv
<1>1. TreeInit => TreeInv
  BY TreeStarts, TreeAssumption
<1>2. TreeInv /\ [BuildTree]_treeVars => TreeInv'
  BY TreeGrows, TreeUnchanged
<1> QED
  BY <1>1, <1>2, PTL DEF TreeSpec

LEMMA TreeTyped ==
  ASSUME TreeInv
  PROVE  TreeTypeOK
<1> USE DEF TreeInv
<1>1. DOMAIN message = Nodes /\ DOMAIN hasFailInto = Nodes
  BY DEF TrieInv
<1>2. DOMAIN failure \subseteq Nodes /\ Range(failure) \subseteq Nodes
  <2>1. CASE phase = "enter"
    <3>1. failure = <<>> /\ DOMAIN failure = {}
      BY <2>1
    <3> QED
      BY <3>1 DEF Range
  <2>2. CASE phase # "enter"
    <3>1. FailureShape \/ MovedInv
      <4>1. SearchInv \/ MovedInv \/ BuiltInv
        BY <2>2
      <4>2. BuiltInv => FailureShape \/ MovedInv
        BY DEF BuiltInv
      <4>3. SearchInv => FailureShape
        BY DEF SearchInv
      <4> QED
        BY <4>1, <4>2, <4>3
    <3>2. Root \in Nodes
      BY DEF TrieInv, TrieShape
    <3>3. CASE FailureShape
      BY <3>2, <3>3 DEF FailureShape, Range
    <3>4. CASE MovedInv
      BY <3>2, <3>4 DEF MovedInv, Range
    <3> QED
      BY <3>1, <3>3, <3>4
  <2> QED
    BY <2>1, <2>2
<1>3. \A n \in Nodes : \A m \in Children(n) : m \in Nodes /\ Front(m) = n
  BY DEF TrieInv
<1>4. \A n \in Nodes : Range(message[n]) \subseteq Nodes
  <2>1. \A n \in Nodes : message[n] \in Seq(Nodes)
    BY DEF TrieInv
  <2>2. \A u \in Seq(Nodes) : \A i \in DOMAIN u : u[i] \in Nodes
    OBVIOUS
  <2> QED
    BY <2>1, <2>2 DEF Range
<1>5. Range(queue) \subseteq Nodes
  <2>1. \A i \in DOMAIN queue : queue[i] \in Nodes
    OBVIOUS
  <2> QED
    BY <2>1 DEF Range
<1> QED
  BY <1>1, <1>2, <1>3, <1>4, <1>5 DEF TreeTypeOK

(* Every edge of the tree adds one character, every failure, message and   *)
(* queued node is a node, in every state of the construction.              *)
THEOREM TreeTypeCorrect == TreeSpec => []TreeTypeOK
  BY TreeAlwaysInv, TreeTyped, PTL

LEMMA LongestOfProper ==
  ASSUME TrieInv, NEW n \in Nodes, NEW f, LongestIn(f, n, Nodes \ {n})
  PROVE  f = LongestSuffixIn(n, ProperSuffixNodes(n))
<1>1. ProperSuffixNodes(n) \in SUBSET Strings /\ n \in Strings
  BY DEF TrieInv, TrieShape, ProperSuffixNodes
<1>2. LongestIn(f, n, ProperSuffixNodes(n))
  BY DEF LongestIn, ProperSuffixNodes
<1> QED
  BY <1>1, <1>2, LongestUnique

LEMMA SearchedRight ==
  ASSUME TreeInv
  PROVE  FailureIsLongestSuffix
<1>1. ASSUME FailureShape
      PROVE  \A n \in DOMAIN failure \ {Root} :
               failure[n] = LongestSuffixIn(n, ProperSuffixNodes(n))
  BY <1>1, LongestOfProper DEF TreeInv, FailureShape
<1>2. CASE phase = "failures"
  <2>1. SearchInv
    BY <1>2 DEF TreeInv
  <2>2. \A n \in Nodes \ DOMAIN failure : \E q \in Range(queue) : IsPrefix(q, n)
    BY <2>1 DEF SearchInv, Range
  <2> QED
    BY <1>1, <2>1, <2>2 DEF FailureIsLongestSuffix, SearchInv
<1>3. CASE phase = "built" /\ ~ AvoidFailToLeaves
  <2>1. FailureShape /\ DOMAIN failure = Nodes
    BY <1>3 DEF TreeInv, BuiltInv
  <2> QED
    BY <1>1, <2>1 DEF FailureIsLongestSuffix
<1> QED
  BY <1>2, <1>3 DEF FailureIsLongestSuffix

(* constructFailures, whatever the file holds: from the moment a node has  *)
(* a failure it is the longest proper suffix of the node's label that is a *)
(* node, and a node that has none is below one that is still queued.       *)
THEOREM FailuresAreLongestSuffixes == TreeSpec => []FailureIsLongestSuffix
  BY TreeAlwaysInv, SearchedRight, PTL

LEMMA MovedRight ==
  ASSUME TreeInv
  PROVE  LeavesAreSkipped
<1>1. CASE AvoidFailToLeaves /\ phase = "built"
  <2>1. MovedInv /\ \A n \in Nodes \ {Root} : failure[n] = Root \/ ~ IsLeaf(failure[n])
    BY <1>1 DEF TreeInv, BuiltInv
  <2>2. \A n \in Nodes \ {Root} : \A m \in ProperSuffixNodes(n) :
          Len(m) > Len(failure[n]) => IsLeaf(m) /\ m \in Range(message[n])
    BY <2>1 DEF MovedInv, ToSet, Range
  <2> QED
    BY <2>1, <2>2 DEF LeavesAreSkipped, NoFailureToLeaf, SkippedSuffixesAreReported
<1> QED
  BY <1>1 DEF LeavesAreSkipped, NoFailureToLeaf, SkippedSuffixesAreReported

(* avoidFailToAcceptingStates, whatever the file holds: when it is done no *)
(* node fails to a leaf, and every suffix a failure was moved over is a    *)
(* leaf whose pattern the node reports itself.                             *)
THEOREM LeavesAlwaysSkipped == TreeSpec => []LeavesAreSkipped
  BY TreeAlwaysInv, MovedRight, PTL

-----------------------------------------------------------------------------
(* How often nodes are failed into: the marks that the compressed machine  *)
(* relies on.                                                              *)
Failing(n) == {m \in DOMAIN failure : failure[m] = n}
Waiting    == {m \in Nodes : \E i \in DOMAIN queue : IsPrefix(queue[i], m)}

(* The trie is finite, its edges are all different, and what a node        *)
(* reports ends its label and is a pattern of its own.                     *)
FiniteInv ==
  /\ IsFiniteSet(Nodes)
  /\ \E l \in Nodes : \A n \in Nodes : Len(n) <= Len(l)
  /\ \A n \in Nodes : IsInjective(gotos[n])
  /\ hasFailInto \in [Nodes -> Nat]
  /\ \A n \in Nodes : \A p \in ToSet(message[n]) : IsSuffix(p, n) /\ p \in ToSet(message[p])

(* Every node is dequeued once: its children have no failure before that.  *)
CountInv ==
  /\ \A n \in DOMAIN failure \ {Root} : Front(n) \in DOMAIN failure
  /\ IsInjective(queue)
  /\ \A i \in DOMAIN queue : Children(queue[i]) \cap DOMAIN failure = {}
  /\ \A n \in Nodes \ {Root} : hasFailInto[n] = Cardinality(Failing(n))

(* A leaf is failed into as often as nodes that still wait for their visit *)
(* fail into it, at most; another node keeps its mark.                     *)
UnmarkInv ==
  \A n \in Nodes \ {Root} :
    /\ IsLeaf(n) => hasFailInto[n] <= Cardinality({m \in Waiting : failure[m] = n})
    /\ ~ IsLeaf(n) /\ Failing(n) # {} => hasFailInto[n] > 0

MarkedRight ==
  \A n \in Nodes \ {Root} :
    /\ AvoidFailToLeaves /\ IsLeaf(n) => hasFailInto[n] = 0
    /\ Failing(n) # {} => hasFailInto[n] > 0

MarkInv ==
  /\ FiniteInv
  /\ phase = "enter" => \A n \in Nodes : hasFailInto[n] = 0
  /\ phase = "failures" => CountInv
  /\ phase = "avoid" => UnmarkInv
  /\ phase \notin {"enter", "failures", "avoid"} => MarkedRight

LEMMA PrefixesFinite ==
  ASSUME NEW p \in Strings
  PROVE  IsFiniteSet(Prefixes(p)) /\ \A m \in Prefixes(p) : Len(m) <= Len(p)
<1>1. Len(p) \in Nat /\ IsFiniteSet(0 .. Len(p))
  BY FS_Interval DEF Strings
<1> DEFINE f == [k \in 0 .. Len(p) |-> SubSeq(p, 1, k)]
<1>2. Prefixes(p) = {SubSeq(p, 1, k) : k \in 0 .. Len(p)}
  BY DEF Prefixes
<1>3. f \in Surjection(0 .. Len(p), Prefixes(p))
  BY <1>2 DEF Surjection
<1>4. IsFiniteSet(Prefixes(p))
  BY <1>1, <1>3, FS_Surjection
<1> QED
  BY <1>1, <1>4, PrefixOfPattern

LEMMA EnterKeepsFinite ==
  ASSUME TrieInv, FiniteInv, Enter
  PROVE  FiniteInv'
<1> DEFINE p == Head(file)
           new == NewNodes(p)
           all == Nodes \cup new
<1>1. p \in Strings /\ p # <<>>
  BY DEF TrieInv, Enter
<1>2. /\ gotos' = [n \in all |-> (IF n \in Nodes THEN gotos[n] ELSE <<>>) \o NewGoto(n, p)]
      /\ message' = [n \in all |-> IF n = p THEN <<p>>
                                   ELSE IF n \in Nodes THEN message[n] ELSE <<>>]
      /\ hasFailInto' = [n \in all |-> 0]
  BY DEF Enter
<1> HIDE DEF p
<1>3. Nodes' = all
  BY <1>2 DEF Nodes
<1>4. new \subseteq Prefixes(p) /\ new \cap Nodes = {}
  BY DEF NewNodes
<1>5. IsFiniteSet(all)
  <2>1. IsFiniteSet(new)
    BY <1>1, <1>4, PrefixesFinite, FS_Subset
  <2> QED
    BY <2>1, FS_Union DEF FiniteInv
<1>6. \E l \in all : \A n \in all : Len(n) <= Len(l)
  <2>1. PICK l \in Nodes : \A n \in Nodes : Len(n) <= Len(l)
    BY DEF FiniteInv
  <2>2. \A n \in new : Len(n) <= Len(p)
    BY <1>1, <1>4, PrefixesFinite
  <2>3. \A n \in all : Len(n) \in Nat
    <3>1. \A n \in all : n \in Strings
      BY <1>1, <1>4, PrefixOfPattern DEF TrieInv, TrieShape
    <3> QED
      BY <3>1 DEF Strings
  <2>4. p \in all
    <3>1. p \in Prefixes(p)
      BY <1>1, PrefixSelf, PrefixIsSubSeq
    <3> QED
      BY <1>1, <3>1 DEF NewNodes, Root
  <2>5. CASE Len(p) <= Len(l)
    BY <2>1, <2>2, <2>3, <2>4, <2>5
  <2>6. CASE Len(l) < Len(p)
    BY <2>1, <2>2, <2>3, <2>4, <2>6
  <2> QED
    BY <2>1, <2>3, <2>4, <2>5, <2>6
<1>7. ASSUME NEW n \in all
      PROVE  IsInjective(gotos'[n])
  <2> DEFINE g == IF n \in Nodes THEN gotos[n] ELSE <<>>
             x == SubSeq(p, 1, Len(n) + 1)
  <2>1. gotos'[n] = g \o NewGoto(n, p)
    BY <1>2
  <2>2. g \in Seq(Nodes) /\ IsInjective(g)
    BY DEF TrieInv, FiniteInv, IsInjective
  <2> HIDE DEF g
  <2>3. CASE NewGoto(n, p) = <<>>
    BY <2>1, <2>2, <2>3
  <2>4. CASE NewGoto(n, p) # <<>>
    <3>1. NewGoto(n, p) = <<x>> /\ x \in new
      BY <2>4 DEF NewGoto
    <3> HIDE DEF x
    <3>2. gotos'[n] = Append(g, x)
      BY <2>1, <2>2, <3>1
    <3>3. \A i \in DOMAIN g : g[i] # x
      BY <1>4, <2>2, <3>1
    <3>4. /\ DOMAIN Append(g, x) = 1 .. Len(g) + 1 /\ DOMAIN g = 1 .. Len(g) /\ Len(g) \in Nat
          /\ \A i \in 1 .. Len(g) : Append(g, x)[i] = g[i]
          /\ Append(g, x)[Len(g) + 1] = x
      BY <2>2
    <3>5. \A i, j \in 1 .. Len(g) + 1 : Append(g, x)[i] = Append(g, x)[j] => i = j
      BY <2>2, <3>3, <3>4 DEF IsInjective
    <3> QED
      BY <3>2, <3>4, <3>5 DEF IsInjective
  <2> QED
    BY <2>3, <2>4
<1>8. ASSUME NEW n \in all, NEW m \in ToSet(message'[n])
      PROVE  IsSuffix(m, n) /\ m \in ToSet(message'[m])
  <2>1. CASE n = p
    <3>1. message'[n] = <<p>> /\ m = p
      BY <1>2, <1>8, <2>1, ToSetSingle
    <3> QED
      BY <1>1, <1>8, <2>1, <3>1, SuffixSelf
  <2>2. CASE n # p
    <3>1. n \in Nodes /\ message'[n] = message[n]
      BY <1>2, <1>8, <2>2, ToSetEmpty
    <3>2. IsSuffix(m, n) /\ m \in ToSet(message[m]) /\ m \in Nodes
      <4>1. message[n] \in Seq(Nodes)
        BY <3>1 DEF TrieInv
      <4>2. m \in Nodes
        BY <1>8, <3>1, <4>1 DEF ToSet
      <4> QED
        BY <1>8, <3>1, <4>2 DEF FiniteInv
    <3>3. m \in all /\ (m = p => message'[m] = <<p>>) /\ (m # p => message'[m] = message[m])
      BY <1>2, <3>2
    <3>4. m = p => m \in ToSet(message'[m])
      BY <3>3, ToSetSingle
    <3> QED
      BY <3>2, <3>3, <3>4
  <2> QED
    BY <2>1, <2>2
<1>9. hasFailInto' \in [all -> Nat]
  BY <1>2
<1> HIDE DEF all, new
<1> QED
  BY <1>3, <1>5, <1>6, <1>7, <1>8, <1>9 DEF FiniteInv

LEMMA StartCounts ==
  ASSUME TrieInv, FiniteInv, StartFailures, \A n \in Nodes : hasFailInto[n] = 0
  PROVE  CountInv'
<1> DEFINE D == {Root} \cup Children(Root)
<1>1. /\ gotos' = gotos /\ Nodes' = Nodes /\ hasFailInto' = hasFailInto
      /\ failure' = [n \in D |-> Root] /\ DOMAIN failure' = D
      /\ queue' = gotos[Root]
  BY DEF StartFailures, Nodes
<1>2. Root \in Nodes /\ gotos[Root] \in Seq(Nodes) /\ IsInjective(gotos[Root])
  BY DEF TrieInv, TrieShape, FiniteInv
<1>3. \A n \in Children(Root) : n \in Nodes \ {Root} /\ Front(n) = Root
  BY <1>2 DEF TrieInv
<1>4. ASSUME NEW i \in DOMAIN gotos[Root], NEW m \in Children(gotos[Root][i])
      PROVE  m \notin D
  <2>1. gotos[Root][i] \in Children(Root)
    BY DEF Children, ToSet
  <2>2. m \in Nodes \ {Root} /\ Front(m) = gotos[Root][i]
    BY <1>2, <1>4 DEF TrieInv
  <2> QED
    BY <1>3, <2>1, <2>2
<1>5. ASSUME NEW n \in Nodes \ {Root}
      PROVE  hasFailInto'[n] = Cardinality(Failing(n)')
  <2>1. Failing(n)' = {}
    BY <1>1 DEF Failing
  <2> QED
    BY <1>1, <2>1, FS_EmptySet
<1>6. \A n \in D \ {Root} : Front(n) \in D
  BY <1>3
<1>7. \A i \in DOMAIN queue' : ToSet(gotos'[queue'[i]]) \cap D = {}
  <2> HIDE DEF D
  <2> QED
    BY <1>1, <1>4 DEF Children
<1> HIDE DEF D
<1> QED
  BY <1>1, <1>2, <1>5, <1>6, <1>7 DEF CountInv, Children

(* The head of the queue leaves it, its children come in. *)
LEMMA QueueMoves ==
  ASSUME NEW S, NEW q \in Seq(S), q # <<>>, NEW g \in Seq(S)
  PROVE  /\ Tail(q) \o g \in Seq(S)
         /\ DOMAIN (Tail(q) \o g) = 1 .. (Len(q) - 1) + Len(g)
         /\ Len(q) \in Nat \ {0} /\ Len(g) \in Nat
         /\ DOMAIN q = 1 .. Len(q) /\ DOMAIN g = 1 .. Len(g)
         /\ \A i \in 1 .. (Len(q) - 1) + Len(g) :
              (Tail(q) \o g)[i] = IF i < Len(q) THEN q[i + 1] ELSE g[i - (Len(q) - 1)]
<1> DEFINE t == Tail(q)
<1>1. /\ Len(q) \in Nat \ {0} /\ Len(g) \in Nat
      /\ DOMAIN q = 1 .. Len(q) /\ DOMAIN g = 1 .. Len(g)
      /\ t \in Seq(S) /\ Len(t) = Len(q) - 1
      /\ \A i \in 1 .. Len(q) - 1 : t[i] = q[i + 1]
  OBVIOUS
<1> HIDE DEF t
<1>2. /\ t \o g \in Seq(S) /\ Len(t \o g) = Len(t) + Len(g)
      /\ DOMAIN (t \o g) = 1 .. Len(t) + Len(g)
      /\ \A i \in 1 .. Len(t) + Len(g) :
           (t \o g)[i] = IF i <= Len(t) THEN t[i] ELSE g[i - Len(t)]
  <2>1. /\ t \o g \in Seq(S) /\ Len(t \o g) = Len(t) + Len(g)
        /\ \A i \in 1 .. Len(t) + Len(g) :
             (t \o g)[i] = IF i <= Len(t) THEN t[i] ELSE g[i - Len(t)]
    BY <1>1, ConcatProperties
  <2> QED
    BY <2>1, LenProperties
<1>3. ASSUME NEW i \in 1 .. (Len(q) - 1) + Len(g)
      PROVE  (t \o g)[i] = IF i < Len(q) THEN q[i + 1] ELSE g[i - (Len(q) - 1)]
  <2>1. i \in 1 .. Len(t) + Len(g) /\ (i <= Len(t) <=> i < Len(q))
    BY <1>1
  <2>2. CASE i < Len(q)
    <3>1. i \in 1 .. Len(q) - 1 /\ t[i] = q[i + 1]
      BY <1>1, <2>2
    <3> QED
      BY <1>2, <2>1, <2>2, <3>1
  <2>3. CASE ~ (i < Len(q))
    BY <1>1, <1>2, <2>1, <2>3
  <2> QED
    BY <2>2, <2>3
<1> QED
  BY <1>1, <1>2, <1>3 DEF t

LEMMA FailStepCounts ==
  ASSUME TrieInv, FiniteInv, SearchInv, CountInv, FailStep
  PROVE  CountInv' /\ hasFailInto' \in [Nodes -> Nat]
<1> DEFINE r == Head(queue)
           D == DOMAIN failure
           E == D \cup Children(r)
           q == queue
           g == gotos[r]
<1>1. /\ gotos' = gotos /\ Nodes' = Nodes
      /\ failure' = [n \in E |-> IF n \in Children(r) THEN ChildFailure(r, n) ELSE failure[n]]
      /\ DOMAIN failure' = E /\ queue' = Tail(q) \o g
      /\ hasFailInto' = [n \in Nodes |-> hasFailInto[n] + CountFailures(r, failure', n)]
      /\ \A n : Children(n)' = Children(n)
  BY DEF FailStep, Nodes, Children
<1>2. /\ queue # <<>> /\ queue \in Seq(D \ {Root}) /\ Len(queue) \in Nat \ {0}
      /\ r = queue[1] /\ r \in D \ {Root} /\ DOMAIN queue = 1 .. Len(queue)
      /\ D \subseteq Nodes /\ r \in Nodes /\ Root \in D
  BY DEF FailStep, SearchInv, FailureShape
<1>3. q \in Seq(Nodes) /\ g \in Seq(Nodes) /\ q # <<>> /\ IsInjective(q) /\ IsInjective(g)
  <2>1. q \in Seq(Nodes)
    BY <1>2, SeqMonotonic
  <2> QED
    BY <1>2, <2>1 DEF TrieInv, FiniteInv, CountInv
<1>4. /\ DOMAIN queue' = 1 .. (Len(q) - 1) + Len(g)
      /\ Len(q) \in Nat \ {0} /\ Len(g) \in Nat
      /\ DOMAIN q = 1 .. Len(q) /\ DOMAIN g = 1 .. Len(g)
      /\ \A i \in 1 .. (Len(q) - 1) + Len(g) :
           queue'[i] = IF i < Len(q) THEN q[i + 1] ELSE g[i - (Len(q) - 1)]
  BY <1>1, <1>3, QueueMoves
<1>5. \A i \in DOMAIN g : g[i] \in Children(r)
  BY DEF Children, ToSet
<1>6. /\ Children(r) \cap D = {} /\ \A n \in Children(r) : n \in Nodes \ {Root} /\ Front(n) = r
      /\ IsFiniteSet(Children(r)) /\ IsFiniteSet(D)
  <2>1. Children(r) \cap D = {}
    BY <1>2 DEF CountInv
  <2>2. \A n \in Children(r) : n \in Nodes \ {Root} /\ Front(n) = r
    BY <1>2 DEF TrieInv
  <2> QED
    BY <1>2, <2>1, <2>2, FS_Subset DEF FiniteInv
<1> HIDE DEF r, g, q
<1>7. ASSUME NEW i \in DOMAIN queue', NEW m \in Children(queue'[i])
      PROVE  m \notin E
  <2>1. CASE i < Len(q)
    <3>1. i + 1 \in DOMAIN q /\ queue'[i] = q[i + 1] /\ q[i + 1] # q[1]
      BY <1>3, <1>4, <2>1 DEF IsInjective
    <3>2. m \notin D
      BY <1>7, <3>1 DEF CountInv, q
    <3>3. q[i + 1] \in Nodes /\ q[1] = r
      BY <1>2, <1>3, <3>1 DEF q
    <3>4. Front(m) = q[i + 1]
      BY <1>7, <3>1, <3>3 DEF TrieInv
    <3> QED
      BY <1>6, <3>1, <3>2, <3>3, <3>4
  <2>2. CASE ~ (i < Len(q))
    <3>1. i - (Len(q) - 1) \in DOMAIN g /\ queue'[i] = g[i - (Len(q) - 1)]
      BY <1>4, <2>2
    <3>2. queue'[i] \in Children(r)
      BY <1>5, <3>1
    <3>3. m \in Nodes \ {Root} /\ Front(m) = queue'[i]
      BY <1>6, <1>7, <3>2 DEF TrieInv
    <3>4. m \notin D
      BY <1>6, <3>2, <3>3 DEF CountInv
    <3>5. m \notin Children(r)
      BY <1>2, <1>6, <3>2, <3>3
    <3> QED
      BY <3>4, <3>5
  <2> QED
    BY <2>1, <2>2
<1>8. IsInjective(queue')
  <2> SUFFICES ASSUME NEW i \in DOMAIN queue', NEW j \in DOMAIN queue', queue'[i] = queue'[j]
               PROVE  i = j
    BY DEF IsInjective
  <2>1. \A k \in DOMAIN queue' :
          \/ k < Len(q) /\ k + 1 \in DOMAIN q /\ queue'[k] = q[k + 1] /\ queue'[k] \in D
          \/ k >= Len(q) /\ k - (Len(q) - 1) \in DOMAIN g /\ queue'[k] = g[k - (Len(q) - 1)]
             /\ queue'[k] \notin D
    <3> SUFFICES ASSUME NEW k \in DOMAIN queue'
                 PROVE  \/ k < Len(q) /\ k + 1 \in DOMAIN q /\ queue'[k] = q[k + 1] /\ queue'[k] \in D
                        \/ k >= Len(q) /\ k - (Len(q) - 1) \in DOMAIN g
                           /\ queue'[k] = g[k - (Len(q) - 1)] /\ queue'[k] \notin D
      OBVIOUS
    <3>1. CASE k < Len(q)
      BY <1>2, <1>4, <3>1 DEF q
    <3>2. CASE k >= Len(q)
      <4>1. k - (Len(q) - 1) \in DOMAIN g /\ queue'[k] = g[k - (Len(q) - 1)]
        BY <1>4, <3>2
      <4> QED
        BY <1>5, <1>6, <3>2, <4>1
    <3> QED
      BY <1>4, <3>1, <3>2
  <2>2. i \in Nat /\ j \in Nat
    BY <1>4
  <2>3. CASE i < Len(q) /\ j < Len(q)
    <3>1. i + 1 = j + 1
      BY <1>3, <1>4, <2>1, <2>2, <2>3 DEF IsInjective
    <3> QED
      BY <2>2, <3>1
  <2>4. CASE i >= Len(q) /\ j >= Len(q)
    <3>1. i - (Len(q) - 1) = j - (Len(q) - 1)
      BY <1>3, <1>4, <2>1, <2>2, <2>4 DEF IsInjective
    <3> QED
      BY <1>4, <2>2, <3>1
  <2> QED
    BY <1>4, <2>1, <2>2, <2>3, <2>4
<1>9. ASSUME NEW n \in E \ {Root} PROVE Front(n) \in E
  BY <1>2, <1>6 DEF CountInv
<1>10. ASSUME NEW n \in Nodes
       PROVE  /\ CountFailures(r, failure', n) \in Nat
              /\ n # Root => hasFailInto'[n] = Cardinality(Failing(n)')
  <2> DEFINE C == {u \in Children(r) : failure'[u] = n}
             F == Failing(n)
  <2>1. IsFiniteSet(C) /\ IsFiniteSet(F) /\ Cardinality(C) \in Nat
    <3>1. C \in SUBSET Children(r) /\ F \in SUBSET D
      BY DEF Failing
    <3> QED
      BY <1>6, <3>1, FS_Subset, FS_CardinalityType
  <2>2. Failing(n)' = F \cup C /\ F \cap C = {}
    BY <1>1, <1>6 DEF Failing
  <2>3. CountFailures(r, failure', n) = Cardinality(C)
    BY DEF CountFailures
  <2> HIDE DEF C, F
  <2>4. Cardinality(F \cup C) = Cardinality(F) + Cardinality(C)
    <3>1. Cardinality(F \cup C) = Cardinality(F) + Cardinality(C) - Cardinality(F \cap C)
      BY <2>1, FS_Union
    <3>2. Cardinality(F) \in Nat /\ Cardinality(F \cap C) = 0
      BY <2>1, <2>2, FS_EmptySet, FS_CardinalityType
    <3> QED
      BY <2>1, <3>1, <3>2
  <2>5. n # Root => hasFailInto[n] = Cardinality(F)
    BY DEF CountInv, F
  <2>6. hasFailInto'[n] = hasFailInto[n] + Cardinality(C)
    BY <1>1, <2>3
  <2>7. n # Root => hasFailInto'[n] = Cardinality(F \cup C)
    BY <2>4, <2>5, <2>6
  <2>8. CountFailures(r, failure', n) \in Nat
    BY <2>1, <2>3
  <2>9. Cardinality(Failing(n)') = Cardinality(F \cup C)
    BY <2>2
  <2> QED
    BY <2>7, <2>8, <2>9
<1>11. hasFailInto' \in [Nodes -> Nat]
  <2> DEFINE c(n) == CountFailures(r, failure', n)
  <2>1. hasFailInto' = [n \in Nodes |-> hasFailInto[n] + c(n)]
    BY <1>1
  <2>2. \A n \in Nodes : c(n) \in Nat
    BY <1>10
  <2>3. \A n \in Nodes : hasFailInto[n] \in Nat
    BY DEF FiniteInv
  <2> HIDE DEF c
  <2> QED
    BY <2>1, <2>2, <2>3
<1>12. \A i \in DOMAIN queue' : ToSet(gotos'[queue'[i]]) \cap DOMAIN failure' = {}
  BY <1>1, <1>7 DEF Children
<1> HIDE DEF E
<1> QED
  BY <1>1, <1>8, <1>9, <1>10, <1>11, <1>12 DEF CountInv, Children

(* What the walk over the leaves, from f on, does to the marks: only leaves *)
(* are stepped over, f is if it is one, and the failure it comes to is one  *)
(* already.                                                                 *)
SkipsMarked(w, f) ==
  /\ \A l \in w.skipped : l \in Nodes \ {Root} /\ IsLeaf(l)
  /\ f # Root /\ IsLeaf(f) => f \in w.skipped
  /\ w.fail = f \/ \E m \in Nodes : failure[m] = w.fail
  /\ \A p \in ToSet(w.messages) : IsSuffix(p, f) /\ p \in ToSet(message[p])

LEMMA SkippedAreLeaves ==
  ASSUME TrieInv, FiniteInv, MovedInv
  PROVE  \A f \in Nodes : SkipsMarked(SkipLeaves(f), f)
<1> DEFINE w == CHOOSE w : w = [f \in Nodes |-> SkipStep(w, f)]
<1>1. w = [f \in Nodes |-> SkipStep(w, f)]
  BY WalkExists
<1>2. \A f \in Nodes : SkipLeaves(f) = w[f]
  BY DEF SkipLeaves, SkipStep
<1> HIDE DEF w
<1>3. \A f \in Nodes : w[f] = SkipStep(w, f)
  BY <1>1
<1>4. \A f \in Nodes : f \in Strings /\ Len(f) \in Nat /\ (Len(f) = 0 => f = Root)
  BY DEF TrieInv, TrieShape, Strings, Root
<1>5. \A f \in Nodes \ {Root} : failure[f] \in Nodes /\ Len(failure[f]) < Len(f)
  BY FailureIsShorter
<1>6. \A f \in Nodes : \A p \in ToSet(message[f]) :
        p \in Nodes /\ IsSuffix(p, f) /\ p \in ToSet(message[p])
  <2> SUFFICES ASSUME NEW f \in Nodes, NEW p \in ToSet(message[f]) PROVE p \in Nodes
    BY DEF FiniteInv
  <2>1. message[f] \in Seq(Nodes)
    BY DEF TrieInv
  <2> QED
    BY <2>1 DEF ToSet
<1>7. ASSUME NEW f \in Nodes, ~ (Match(f) /\ IsLeaf(f))
      PROVE  SkipsMarked(w[f], f)
  <2>1. w[f].fail = f /\ w[f].messages = message[f] /\ w[f].skipped = {}
    <3>1. ~ Match(f) => message[f] = <<>>
      BY DEF Match
    <3>2. w[f] = SkipStep(w, f)
      BY <1>3
    <3>3. CASE ~ Match(f)
      BY <3>1, <3>2, <3>3 DEF SkipStep
    <3>4. CASE Match(f) /\ ~ IsLeaf(f)
      BY <3>2, <3>4 DEF SkipStep
    <3> QED
      BY <1>7, <3>3, <3>4
  <2>2. ~ (f # Root /\ IsLeaf(f))
    <3> SUFFICES ASSUME f # Root, IsLeaf(f) PROVE FALSE
      OBVIOUS
    <3>1. f \in ToSet(message[f])
      BY DEF TrieInv
    <3>2. message[f] # <<>>
      BY <3>1, ToSetEmpty
    <3> QED
      BY <1>7, <3>2 DEF Match
  <2> QED
    BY <1>6, <2>1, <2>2 DEF SkipsMarked
<1>8. ASSUME NEW f \in Nodes, Match(f), IsLeaf(f), SkipsMarked(w[failure[f]], failure[f])
      PROVE  SkipsMarked(w[f], f)
  <2> DEFINE v == w[failure[f]]
  <2>1. f # Root
    BY <1>8 DEF Match, TrieInv
  <2>2. w[f].fail = v.fail /\ w[f].messages = message[f] \o v.messages
        /\ w[f].skipped = {f} \cup v.skipped
    <3>1. w[f] = SkipStep(w, f)
      BY <1>3
    <3>2. Match(f) /\ IsLeaf(f)
      BY <1>8
    <3> DEFINE x == v.fail
               y == message[f] \o v.messages
               z == {f} \cup v.skipped
    <3>3. w[f] = [fail |-> x, messages |-> y, skipped |-> z]
      BY <3>1, <3>2, Zenon DEF SkipStep
    <3> HIDE DEF x, y, z
    <3>4. w[f].fail = x /\ w[f].messages = y /\ w[f].skipped = z
      BY <3>3
    <3> QED
      BY <3>4 DEF x, y, z
  <2>3. failure[f] \in Nodes /\ IsSuffix(failure[f], f) /\ v.messages \in Seq(Nodes)
    <3>1. SkipsOver(v, failure[f]) /\ failure[f] \in Nodes
      BY <1>2, <1>5, <2>1, SkipsLeaves
    <3> QED
      BY <2>1, <3>1 DEF SkipsOver, MovedInv
  <2>4. /\ \A l \in v.skipped : l \in Nodes \ {Root} /\ IsLeaf(l)
        /\ v.fail = failure[f] \/ \E m \in Nodes : failure[m] = v.fail
        /\ \A p \in ToSet(v.messages) : IsSuffix(p, failure[f]) /\ p \in ToSet(message[p])
    BY <1>8 DEF SkipsMarked
  <2> HIDE DEF v
  <2>5. message[f] \in Seq(Nodes)
    BY DEF TrieInv
  <2>6. ToSet(message[f] \o v.messages) = ToSet(message[f]) \cup ToSet(v.messages)
    BY <2>3, <2>5, ToSetConcat
  <2>7. ASSUME NEW p \in ToSet(v.messages)
        PROVE  IsSuffix(p, f) /\ p \in ToSet(message[p])
    <3>1. p \in Nodes /\ IsSuffix(p, failure[f]) /\ p \in ToSet(message[p])
      BY <2>3, <2>4 DEF ToSet
    <3> QED
      BY <1>4, <2>3, <3>1, SuffixTransitive
  <2> QED
    BY <1>6, <1>8, <2>1, <2>2, <2>4, <2>6, <2>7 DEF SkipsMarked
<1> DEFINE P == {k \in Nat : \A f \in Nodes : Len(f) <= k => SkipsMarked(w[f], f)}
<1>9. 0 \in P
  <2>1. ~ Match(Root) /\ Root \in Nodes
    BY DEF Match, TrieInv, TrieShape
  <2>2. SkipsMarked(w[Root], Root)
    BY <1>7, <2>1
  <2>3. \A f \in Nodes : Len(f) <= 0 => f = Root
    BY <1>4
  <2> QED
    BY <2>2, <2>3
<1>10. ASSUME NEW k \in Nat, k \in P PROVE k + 1 \in P
  <2> SUFFICES ASSUME NEW f \in Nodes, Len(f) <= k + 1 PROVE SkipsMarked(w[f], f)
    OBVIOUS
  <2>1. CASE ~ (Match(f) /\ IsLeaf(f))
    BY <1>7, <2>1
  <2>2. CASE Match(f) /\ IsLeaf(f)
    <3>1. f # Root
      BY <2>2 DEF Match, TrieInv
    <3>2. failure[f] \in Nodes /\ Len(failure[f]) <= k
      BY <1>4, <1>5, <3>1
    <3>3. SkipsMarked(w[failure[f]], failure[f])
      BY <1>10, <3>2
    <3> QED
      BY <1>8, <2>2, <3>3
  <2> QED
    BY <2>1, <2>2
<1> HIDE DEF P
<1>11. \A k \in Nat : k \in P
  BY <1>9, <1>10, Induction
<1> SUFFICES ASSUME NEW f \in Nodes PROVE SkipsMarked(SkipLeaves(f), f)
  OBVIOUS
<1>12. Len(f) \in P /\ Len(f) <= Len(f)
  BY <1>4, <1>11
<1> QED
  BY <1>2, <1>12 DEF P

LEMMA AvoidStepMarks ==
  ASSUME TrieInv, FiniteInv, MovedInv, VisitInv, UnmarkInv, AvoidStep
  PROVE  FiniteInv' /\ UnmarkInv'
<1> DEFINE n == Head(queue)
           u == SkipLeaves(failure[n])
           g == gotos[n]
<1>1. /\ gotos' = gotos /\ Nodes' = Nodes
      /\ hasFailInto' = [f \in Nodes |-> IF f \in u.skipped /\ hasFailInto[f] > 0
                                         THEN hasFailInto[f] - 1 ELSE hasFailInto[f]]
      /\ message' = [message EXCEPT ![n] = @ \o u.messages]
      /\ failure' = [failure EXCEPT ![n] = u.fail]
      /\ queue' = g \o Tail(queue)
      /\ queue # <<>>
  BY DEF AvoidStep, Nodes
<1>2. /\ n \in Nodes /\ n = queue[1] /\ Tail(queue) \in Seq(Nodes)
      /\ Len(queue) \in Nat \ {0} /\ DOMAIN queue = 1 .. Len(queue)
      /\ Len(Tail(queue)) = Len(queue) - 1
      /\ \A i \in 1 .. Len(queue) - 1 : Tail(queue)[i] = queue[i + 1]
  BY <1>1 DEF VisitInv
<1>3. /\ message \in [Nodes -> Seq(Nodes)] /\ DOMAIN failure = Nodes /\ failure[n] \in Nodes
      /\ Root \in Nodes /\ Nodes \in SUBSET Strings /\ g \in Seq(Nodes)
      /\ IsSuffix(failure[n], n) /\ failure[Root] = Root
  <2>1. /\ message \in [Nodes -> Seq(Nodes)] /\ DOMAIN failure = Nodes /\ failure[n] \in Nodes
        /\ Root \in Nodes /\ Nodes \in SUBSET Strings /\ g \in Seq(Nodes)
        /\ failure[Root] = Root
    BY <1>2 DEF TrieInv, TrieShape, MovedInv
  <2>2. CASE n = Root
    BY <2>1, <2>2, SuffixSelf
  <2>3. CASE n # Root
    BY <1>2, <2>1, <2>3 DEF MovedInv
  <2> QED
    BY <2>1, <2>2, <2>3
<1>4. SkipsOver(u, failure[n]) /\ SkipsMarked(u, failure[n])
  BY <1>3, SkipsLeaves, SkippedAreLeaves
<1> HIDE DEF n, u, g
<1>5. /\ u.fail \in Nodes /\ u.messages \in Seq(Nodes)
      /\ u.fail = Root \/ ~ IsLeaf(u.fail)
      /\ \A l \in u.skipped : l \in Nodes \ {Root} /\ IsLeaf(l)
      /\ failure[n] # Root /\ IsLeaf(failure[n]) => failure[n] \in u.skipped
      /\ \E m \in Nodes : failure[m] = u.fail
      /\ \A p \in ToSet(u.messages) : IsSuffix(p, failure[n]) /\ p \in ToSet(message[p])
  BY <1>2, <1>4 DEF SkipsOver, SkipsMarked
<1>6. /\ ToSet(message'[n]) = ToSet(message[n]) \cup ToSet(u.messages)
      /\ \A m \in Nodes \ {n} : message'[m] = message[m]
  <2>1. ToSet(message[n] \o u.messages) = ToSet(message[n]) \cup ToSet(u.messages)
    BY <1>2, <1>3, <1>5, ToSetConcat
  <2> QED
    BY <1>1, <1>2, <1>3, <2>1
<1>7. /\ DOMAIN failure' = Nodes /\ failure'[n] = u.fail
      /\ \A m \in Nodes \ {n} : failure'[m] = failure[m]
  BY <1>1, <1>2, <1>3
<1>8. /\ \A f \in Nodes : hasFailInto[f] \in Nat
      /\ hasFailInto' \in [Nodes -> Nat]
      /\ \A f \in Nodes : hasFailInto'[f] <= hasFailInto[f]
      /\ \A f \in Nodes : f \in u.skipped => hasFailInto'[f] = 0 \/ hasFailInto'[f] = hasFailInto[f] - 1
      /\ \A f \in Nodes : f \notin u.skipped => hasFailInto'[f] = hasFailInto[f]
  <2>1. hasFailInto \in [Nodes -> Nat]
    BY DEF FiniteInv
  <2> QED
    BY <1>1, <2>1
<1>9. \A m \in Nodes, p \in Nodes : p \in ToSet(message[m]) => p \in ToSet(message'[m])
  BY <1>6
<1>10. ASSUME NEW m \in Nodes, NEW p \in ToSet(message'[m])
       PROVE  IsSuffix(p, m) /\ p \in ToSet(message'[p])
  <2>1. CASE p \in ToSet(message[m])
    <3>1. message[m] \in Seq(Nodes) /\ p \in Nodes
      BY <1>3, <2>1 DEF ToSet
    <3> QED
      BY <1>9, <2>1, <3>1 DEF FiniteInv
  <2>2. CASE p \notin ToSet(message[m])
    <3>1. m = n /\ p \in ToSet(u.messages)
      BY <1>6, <1>10, <2>2
    <3>2. p \in Nodes
      BY <1>5, <3>1 DEF ToSet
    <3>3. IsSuffix(p, n)
      <4>1. IsSuffix(p, failure[n]) /\ p \in Strings /\ n \in Strings /\ failure[n] \in Strings
        BY <1>2, <1>3, <1>5, <3>1, <3>2
      <4> QED
        BY <1>3, <4>1, SuffixTransitive
    <3> QED
      BY <1>5, <1>9, <3>1, <3>2, <3>3
  <2> QED
    BY <2>1, <2>2
<1>11. FiniteInv'
  <2>1. \A f \in Nodes : IsInjective(gotos'[f])
    BY <1>1 DEF FiniteInv
  <2>2. IsFiniteSet(Nodes) /\ \E l \in Nodes : \A f \in Nodes : Len(f) <= Len(l)
    BY DEF FiniteInv
  <2> QED
    BY <1>1, <1>8, <1>10, <2>1, <2>2 DEF FiniteInv
(* Only n stops waiting.                                                    *)
<1>12. ASSUME NEW m \in Waiting, m # n
       PROVE  m \in Waiting'
  <2>1. PICK i \in DOMAIN queue : IsPrefix(queue[i], m)
    BY DEF Waiting
  <2>2. m \in Nodes
    BY DEF Waiting
  <2> DEFINE t == Tail(queue)
  <2>3. /\ Len(g) \in Nat /\ DOMAIN g = 1 .. Len(g)
        /\ DOMAIN queue' = 1 .. Len(g) + (Len(queue) - 1)
        /\ \A j \in 1 .. Len(g) + (Len(queue) - 1) :
             queue'[j] = IF j <= Len(g) THEN g[j] ELSE t[j - Len(g)]
    <3>1. t \in Seq(Nodes) /\ Len(t) = Len(queue) - 1 /\ Len(t) \in Nat
      BY <1>2
    <3> HIDE DEF t
    <3>2. /\ g \o t \in Seq(Nodes) /\ Len(g \o t) = Len(g) + Len(t)
          /\ \A j \in 1 .. Len(g) + Len(t) :
               (g \o t)[j] = IF j <= Len(g) THEN g[j] ELSE t[j - Len(g)]
      BY <1>3, <3>1, ConcatProperties
    <3>3. DOMAIN (g \o t) = 1 .. Len(g \o t)
      BY <3>2, LenProperties
    <3>4. queue' = g \o t
      BY <1>1 DEF t
    <3> QED
      BY <1>3, <3>1, <3>2, <3>3, <3>4
  <2>4. CASE i = 1
    <3>1. PICK k \in Children(n) : IsPrefix(k, m)
      BY <1>2, <1>12, <2>1, <2>2, <2>4, ChildBelow
    <3>2. PICK j \in DOMAIN g : g[j] = k
      BY InToSet DEF Children, g
    <3>3. j \in DOMAIN queue' /\ queue'[j] = k
      BY <1>2, <2>3, <3>2
    <3> QED
      BY <1>1, <2>2, <3>1, <3>3 DEF Waiting
  <2>5. CASE i # 1
    <3>1. i - 1 \in 1 .. Len(queue) - 1 /\ t[i - 1] = queue[i]
      BY <1>2, <2>5
    <3>2. Len(g) + (i - 1) \in DOMAIN queue' /\ queue'[Len(g) + (i - 1)] = t[i - 1]
      BY <1>2, <2>3, <3>1
    <3> QED
      BY <1>1, <2>1, <2>2, <3>1, <3>2 DEF Waiting
  <2> QED
    BY <2>4, <2>5
<1>13. ASSUME NEW l \in Nodes \ {Root}, IsLeaf(l)
       PROVE  hasFailInto'[l] <= Cardinality({m \in Waiting' : failure'[m] = l})
  <2> DEFINE W == {m \in Waiting : failure[m] = l}
             V == {m \in Waiting' : failure'[m] = l}
  <2>1. IsFiniteSet(W) /\ IsFiniteSet(V)
    <3>1. IsFiniteSet(Nodes) /\ W \subseteq Nodes /\ V \subseteq Nodes
      BY <1>1 DEF FiniteInv, Waiting
    <3> QED
      BY <3>1, FS_Subset
  <2>2. W \ {n} \subseteq V
    <3>1. \A m \in Waiting : m \in Nodes
      BY DEF Waiting
    <3> QED
      BY <1>7, <1>12, <3>1
  <2>3. n \in W => l \in u.skipped
    BY <1>5, <1>13
  <2>4. hasFailInto[l] <= Cardinality(W)
    BY <1>13 DEF UnmarkInv
  <2> HIDE DEF W, V
  <2>5. /\ Cardinality(W \ {n}) <= Cardinality(V)
        /\ Cardinality(W \ {n}) = IF n \in W THEN Cardinality(W) - 1 ELSE Cardinality(W)
        /\ Cardinality(W) \in Nat /\ Cardinality(V) \in Nat
    BY <2>1, <2>2, FS_Subset, FS_RemoveElement, FS_CardinalityType
  <2>6. hasFailInto'[l] <= Cardinality(V)
    <3>1. CASE n \in W
      BY <1>8, <2>3, <2>4, <2>5, <3>1
    <3>2. CASE n \notin W
      <4>1. hasFailInto'[l] <= hasFailInto[l] /\ hasFailInto'[l] \in Nat /\ hasFailInto[l] \in Nat
        BY <1>8
      <4> QED
        BY <2>4, <2>5, <3>2, <4>1
    <3> QED
      BY <3>1, <3>2
  <2> QED
    BY <2>6 DEF V
<1>14. ASSUME NEW l \in Nodes \ {Root}, ~ IsLeaf(l), NEW m \in Nodes, failure'[m] = l
       PROVE  hasFailInto'[l] > 0
  <2>1. \E k \in Nodes : failure[k] = l
    BY <1>5, <1>7, <1>14
  <2>2. hasFailInto[l] > 0
    BY <1>3, <1>14, <2>1 DEF UnmarkInv, Failing
  <2>3. l \notin u.skipped
    BY <1>5, <1>14
  <2> QED
    BY <1>8, <2>2, <2>3
<1>15. UnmarkInv'
  <2>1. \A l : IsLeaf(l)' <=> IsLeaf(l)
    BY <1>1 DEF IsLeaf
  <2>2. \A l \in Nodes \ {Root} : Failing(l)' # {} => \E m \in Nodes : failure'[m] = l
    BY <1>7 DEF Failing
  <2> QED
    BY <1>1, <1>13, <1>14, <2>1, <2>2 DEF UnmarkInv
<1> QED
  BY <1>11, <1>15

LEMMA FiniteStays ==
  ASSUME FiniteInv, gotos' = gotos, message' = message, hasFailInto' \in [Nodes -> Nat]
  PROVE  FiniteInv'
  BY DEF FiniteInv, Nodes

LEMMA MarksStay ==
  ASSUME MarkedRight, gotos' = gotos, failure' = failure, hasFailInto' = hasFailInto
  PROVE  MarkedRight'
<1>1. Nodes' = Nodes /\ \A n : (IsLeaf(n)' <=> IsLeaf(n)) /\ Failing(n)' = Failing(n)
  BY DEF Nodes, IsLeaf, Failing
<1> QED
  BY <1>1 DEF MarkedRight

LEMMA MarkStarts ==
  ASSUME TreeInit
  PROVE  MarkInv
<1>1. /\ Nodes = {Root} /\ gotos = [n \in {Root} |-> <<>>] /\ message = [n \in {Root} |-> <<>>]
      /\ hasFailInto = [n \in {Root} |-> 0] /\ phase = "enter" /\ Len(Root) = 0
  BY DEF TreeInit, Nodes, Root
<1>2. IsFiniteSet(Nodes) /\ \E l \in Nodes : \A n \in Nodes : Len(n) <= Len(l)
  <2>1. Root \in Nodes /\ \A n \in Nodes : Len(n) <= Len(Root)
    BY <1>1
  <2>2. IsFiniteSet(Nodes)
    BY <1>1, FS_Singleton
  <2> QED
    BY <2>1, <2>2
<1>3. \A n \in Nodes : IsInjective(gotos[n]) /\ ToSet(message[n]) = {}
  BY <1>1, ToSetEmpty DEF IsInjective
<1> QED
  BY <1>1, <1>2, <1>3 DEF MarkInv, FiniteInv

LEMMA MarkGrows ==
  ASSUME TreeInv, MarkInv, BuildTree
  PROVE  MarkInv'
<1> USE DEF MarkInv
<1>0. TrieInv /\ FiniteInv
  BY DEF TreeInv
<1>1. CASE Enter
  <2>1. FiniteInv' /\ phase' = "enter"
    BY <1>0, <1>1, EnterKeepsFinite DEF Enter
  <2>2. \A n \in Nodes' : hasFailInto'[n] = 0
    BY <1>1 DEF Enter, Nodes
  <2> QED
    BY <2>1, <2>2
<1>2. CASE StartFailures
  <2>1. CountInv'
    BY <1>0, <1>2, StartCounts DEF StartFailures
  <2>2. FiniteInv' /\ phase' = "failures"
    BY <1>0, <1>2, FiniteStays DEF StartFailures, FiniteInv
  <2> QED
    BY <2>1, <2>2
<1>3. CASE FailStep
  <2>1. CountInv' /\ hasFailInto' \in [Nodes -> Nat]
    BY <1>0, <1>3, FailStepCounts DEF TreeInv, FailStep
  <2>2. FiniteInv' /\ phase' = "failures"
    BY <1>0, <1>3, <2>1, FiniteStays DEF FailStep
  <2> QED
    BY <2>1, <2>2
<1>4. CASE FailuresDone
  <2>1. /\ gotos' = gotos /\ message' = message /\ failure' = failure /\ Nodes' = Nodes
        /\ hasFailInto' = hasFailInto /\ queue = <<>> /\ SearchInv /\ CountInv
    BY <1>4 DEF FailuresDone, tree, TreeInv, Nodes
  <2>2. FiniteInv'
    BY <1>0, <2>1, FiniteStays DEF FiniteInv
  <2>3. DOMAIN failure = Nodes
    <3>1. DOMAIN queue = {}
      BY <2>1
    <3> QED
      BY <2>1, <3>1 DEF SearchInv, FailureShape
  <2>4. \A n \in Nodes \ {Root} : IsFiniteSet(Failing(n)) /\ hasFailInto[n] = Cardinality(Failing(n))
    <3>1. \A n : Failing(n) \subseteq Nodes
      BY <2>3 DEF Failing
    <3>2. IsFiniteSet(Nodes)
      BY <1>0 DEF FiniteInv
    <3> QED
      BY <2>1, <3>1, <3>2, FS_Subset DEF CountInv
  <2>5. \A n \in Nodes \ {Root} : Failing(n) # {} => hasFailInto[n] > 0
    <3> SUFFICES ASSUME NEW n \in Nodes \ {Root}, Failing(n) # {} PROVE hasFailInto[n] > 0
      OBVIOUS
    <3>1. hasFailInto[n] # 0
      BY <2>4, FS_EmptySet
    <3>2. hasFailInto[n] \in Nat
      BY <1>0 DEF FiniteInv
    <3> QED
      BY <3>1, <3>2
  <2>6. CASE AvoidFailToLeaves
    <3>1. phase' = "avoid" /\ queue' = <<Root>>
      BY <1>4, <2>6 DEF FailuresDone
    <3>2. Waiting' = Nodes
      <4>1. 1 \in DOMAIN queue' /\ queue'[1] = Root
        BY <3>1
      <4>2. ASSUME NEW m \in Nodes PROVE IsPrefix(Root, m)
        <5>1. m \in Strings /\ Root \in Strings /\ Len(Root) = 0 /\ Len(m) \in Nat
          BY <1>0 DEF TrieInv, TrieShape, Strings, Root
        <5> QED
          BY <5>1, PrefixMeans
      <4> QED
        BY <2>1, <4>1, <4>2 DEF Waiting
    <3>3. \A n \in Nodes \ {Root} :
            hasFailInto[n] <= Cardinality({m \in Nodes : failure[m] = n})
      <4> SUFFICES ASSUME NEW n \in Nodes \ {Root}
                   PROVE  hasFailInto[n] <= Cardinality({m \in Nodes : failure[m] = n})
        OBVIOUS
      <4>1. hasFailInto[n] = Cardinality({m \in Nodes : failure[m] = n})
        BY <2>3, <2>4 DEF Failing
      <4>2. hasFailInto[n] \in Nat
        BY <1>0 DEF FiniteInv
      <4> QED
        BY <4>1, <4>2
    <3>4. UnmarkInv'
      BY <2>1, <2>5, <3>2, <3>3 DEF UnmarkInv, Failing
    <3> QED
      BY <2>2, <3>1, <3>4
  <2>7. CASE ~ AvoidFailToLeaves
    <3>1. phase' = "built"
      BY <1>4, <2>7 DEF FailuresDone
    <3>2. MarkedRight
      BY <2>5, <2>7 DEF MarkedRight
    <3> QED
      BY <2>1, <2>2, <3>1, <3>2, MarksStay
  <2> QED
    BY <2>6, <2>7
<1>5. CASE AvoidStep
  <2>1. FiniteInv' /\ UnmarkInv'
    BY <1>0, <1>5, AvoidStepMarks DEF TreeInv, AvoidStep
  <2>2. phase' = "avoid"
    BY <1>5 DEF AvoidStep
  <2> QED
    BY <2>1, <2>2
<1>6. CASE AvoidDone
  <2>1. /\ gotos' = gotos /\ message' = message /\ failure' = failure
        /\ hasFailInto' = hasFailInto /\ queue = <<>> /\ phase' = "built" /\ UnmarkInv
    BY <1>6 DEF AvoidDone, tree
  <2>2. FiniteInv'
    BY <1>0, <2>1, FiniteStays DEF FiniteInv
  <2>3. DOMAIN failure = Nodes /\ \A n \in Nodes \ {Root} : failure[n] = Root \/ ~ IsLeaf(failure[n])
    <3>1. MovedInv /\ VisitInv /\ DOMAIN queue = {}
      BY <1>6, <2>1 DEF TreeInv, AvoidDone
    <3> QED
      BY <3>1 DEF MovedInv, VisitInv
  <2>4. ASSUME NEW n \in Nodes \ {Root}, IsLeaf(n) PROVE hasFailInto[n] = 0 /\ Failing(n) = {}
    <3>1. Waiting = {}
      BY <2>1 DEF Waiting
    <3>2. {m \in Waiting : failure[m] = n} = {}
      BY <3>1
    <3>3. hasFailInto[n] <= 0 /\ hasFailInto[n] \in Nat
      <4>1. hasFailInto[n] <= Cardinality({m \in Waiting : failure[m] = n})
        BY <2>1, <2>4 DEF UnmarkInv
      <4> QED
        BY <1>0, <3>2, <4>1, FS_EmptySet DEF FiniteInv
    <3>4. \A m \in Nodes : failure[m] # n
      <4>1. Root \in Nodes /\ failure[Root] = Root
        BY <1>0, <1>6 DEF TreeInv, AvoidDone, MovedInv, TrieInv, TrieShape
      <4> QED
        BY <2>3, <2>4, <4>1
    <3> QED
      BY <2>3, <3>3, <3>4 DEF Failing
  <2>5. MarkedRight
    BY <2>1, <2>4 DEF MarkedRight, UnmarkInv
  <2> QED
    BY <2>1, <2>2, <2>5, MarksStay
<1> QED
  BY <1>1, <1>2, <1>3, <1>4, <1>5, <1>6 DEF BuildTree

LEMMA MarkKept ==
  ASSUME MarkInv, gotos' = gotos, message' = message, failure' = failure,
         hasFailInto' = hasFailInto,
         phase \notin {"enter", "failures", "avoid"},
         phase' \notin {"enter", "failures", "avoid"}
  PROVE  MarkInv'
<1>1. MarkedRight' /\ FiniteInv'
  BY MarksStay, FiniteStays DEF MarkInv, FiniteInv
<1> QED
  BY <1>1 DEF MarkInv

LEMMA MarkUnchanged ==
  ASSUME MarkInv, UNCHANGED treeVars
  PROVE  MarkInv'
<1>1. /\ gotos' = gotos /\ failure' = failure /\ message' = message /\ queue' = queue
      /\ hasFailInto' = hasFailInto /\ phase' = phase /\ Nodes' = Nodes
  BY DEF treeVars, tree, Nodes
<1>2. FiniteInv' /\ (MarkedRight => MarkedRight')
  BY <1>1, MarksStay, FiniteStays DEF MarkInv, FiniteInv
<1>3. \A n : (IsLeaf(n)' <=> IsLeaf(n)) /\ Failing(n)' = Failing(n) /\ Children(n)' = Children(n)
  BY <1>1 DEF IsLeaf, Failing, Children
<1>4. Waiting' = Waiting
  BY <1>1 DEF Waiting
<1>5. CountInv => CountInv'
  <2>1. \A i : ToSet(gotos'[queue'[i]]) = Children(queue[i])
    BY <1>1 DEF Children
  <2> QED
    BY <1>1, <1>3, <2>1 DEF CountInv, Children
<1>6. UnmarkInv => UnmarkInv'
  BY <1>1, <1>3, <1>4 DEF UnmarkInv
<1> QED
  BY <1>1, <1>2, <1>5, <1>6 DEF MarkInv

LEMMA FailuresMarked ==
  ASSUME TreeInv, MarkInv
  PROVE  FailTargetsAreMarked
<1> SUFFICES ASSUME phase = "built", NEW n \in Nodes, failure[n] # Root
             PROVE  hasFailInto[failure[n]] > 0
  BY DEF FailTargetsAreMarked
<1>1. DOMAIN failure = Nodes /\ failure[n] \in Nodes
  <2>1. BuiltInv
    BY DEF TreeInv
  <2>2. CASE AvoidFailToLeaves
    <3>1. failure[Root] = Root
      BY <2>1, <2>2 DEF BuiltInv, MovedInv
    <3> QED
      BY <2>1, <2>2, <3>1 DEF BuiltInv, MovedInv
  <2>3. CASE ~ AvoidFailToLeaves
    BY <2>1, <2>3 DEF BuiltInv, FailureShape
  <2> QED
    BY <2>2, <2>3
<1>2. n \in Failing(failure[n])
  BY <1>1 DEF Failing
<1> QED
  BY <1>1, <1>2 DEF MarkInv, MarkedRight

LEMMA MarkAlwaysInv == TreeSpec => [](TreeInv /\ MarkInv)
<1>1. TreeInit => TreeInv /\ MarkInv
  BY TreeStarts, MarkStarts, TreeAssumption
<1>2. TreeInv /\ MarkInv /\ [BuildTree]_treeVars => (TreeInv /\ MarkInv)'
  BY TreeGrows, TreeUnchanged, MarkGrows, MarkUnchanged
<1> QED
  BY <1>1, <1>2, PTL DEF TreeSpec

(* avoidFailToAcceptingStates, whatever the file holds: although a failure *)
(* that is moved takes its mark away from the old target and gives none to *)
(* the new one, every node that is failed into is marked in the end.       *)
THEOREM FailTargetsAlwaysMarked == TreeSpec => []FailTargetsAreMarked
  BY MarkAlwaysInv, FailuresMarked, PTL

-----------------------------------------------------------------------------
(* The full-table machine.                                                 *)

Building == {"enter", "failures", "avoid", "built"}
TableScanning == {"scan", "plain_scan", "scanned", "handed_over", "dropped"}

(* Every row filled leads to the longest suffix that is a node, and while  *)
(* rows are being filled a node without one is below one that is queued.   *)
TableInv ==
  /\ phase \in Building => table = <<>> /\ matches = {}
  /\ DOMAIN table \subseteq Nodes
  /\ \A n \in DOMAIN table : \A c \in Alphabet : LongestIn(table[n][c], Append(n, c), Nodes)
  /\ matches = {n \in DOMAIN table : Match(n)}
  /\ phase = "table" => \A n \in Nodes \ DOMAIN table : \E i \in DOMAIN queue : IsPrefix(queue[i], n)
  /\ phase \notin Building \cup {"table"} => DOMAIN table = Nodes

(* The state of a scan is the longest node the bytes read end with, and it *)
(* has reported a match exactly if one of its states so far is accepting.  *)
ScanInv ==
  /\ packet \in Seq(Alphabet) /\ idx \in 0 .. Len(packet)
  /\ phase \notin TableScanning => idx = 0 /\ current = Root /\ res = 0
  /\ phase \in TableScanning => LongestIn(current, BytesRead(idx), Nodes)
  /\ phase \in {"scan", "plain_scan", "scanned"} =>
       /\ res \in {0, 1}
       /\ res = 1 <=> \E k \in 1 .. idx : LongestSuffixIn(BytesRead(k), Nodes) \in matches
  /\ phase = "scanned" => idx = Len(packet)
  /\ phase = "handed_over" => last_idx_in_root = idx - Len(current)

MachineInv == TreeInv /\ TableInv /\ ScanInv

LEMMA ReadString ==
  ASSUME TableInputs, packet \in Seq(Alphabet), NEW k \in 0 .. Len(packet)
  PROVE  /\ BytesRead(k) \in Strings /\ Len(BytesRead(k)) = k
         /\ \A i \in 1 .. k : BytesRead(k)[i] = packet[i]
         /\ k < Len(packet) => /\ packet[k + 1] \in Alphabet
                               /\ BytesRead(k + 1) = Append(BytesRead(k), packet[k + 1])
<1>1. packet \in Seq(Character) /\ packet \in Strings /\ Len(packet) \in Nat
  BY SeqMonotonic DEF TableInputs, Strings
<1>2. BytesRead(k) \in Strings /\ Len(BytesRead(k)) = k /\ \A i \in 1 .. k : BytesRead(k)[i] = packet[i]
  BY <1>1, SubSeqString DEF BytesRead
<1>3. ASSUME k < Len(packet)
      PROVE  packet[k + 1] \in Alphabet /\ BytesRead(k + 1) = Append(BytesRead(k), packet[k + 1])
  <2>1. k + 1 \in 0 .. Len(packet) /\ k + 1 \in 1 .. Len(packet)
    BY <1>1, <1>3
  <2>2. packet[k + 1] \in Alphabet /\ packet[k + 1] \in Character
    BY <2>1 DEF TableInputs
  <2>3. /\ BytesRead(k + 1) \in Strings /\ Len(BytesRead(k + 1)) = k + 1
        /\ \A i \in 1 .. k + 1 : BytesRead(k + 1)[i] = packet[i]
    BY <1>1, <2>1, SubSeqString DEF BytesRead
  <2>4. /\ Append(BytesRead(k), packet[k + 1]) \in Strings
        /\ Len(Append(BytesRead(k), packet[k + 1])) = k + 1
        /\ \A i \in 1 .. k : Append(BytesRead(k), packet[k + 1])[i] = BytesRead(k)[i]
        /\ Append(BytesRead(k), packet[k + 1])[k + 1] = packet[k + 1]
    BY <1>2, <2>2, AppendString
  <2>5. \A i \in 1 .. k + 1 : BytesRead(k + 1)[i] = Append(BytesRead(k), packet[k + 1])[i]
    BY <1>2, <2>3, <2>4
  <2> QED
    BY <2>2, <2>3, <2>4, <2>5, EqualStrings
<1> QED
  BY <1>2, <1>3

(* putStates: the entry of n for c is the longest suffix of n and c that   *)
(* is a node.                                                              *)
LEMMA EntryIsLongest ==
  ASSUME TrieInv, FailureShape, DOMAIN failure = Nodes, NEW n \in Nodes, NEW c \in Character
  PROVE  LongestIn(Entry(n, c), Append(n, c), Nodes)
<1>1. /\ TrieShape /\ n \in Strings /\ Nodes \in SUBSET Strings /\ Append(n, c) \in Strings
      /\ Root \in Nodes /\ failure[Root] = Root /\ failure[n] \in Nodes
  BY AppendString DEF TrieInv, TrieShape, FailureShape
<1>2. CASE HasGoto(n, c)
  <2>1. \A m \in Nodes : IsSuffix(m, Append(n, c)) => Len(m) <= Len(Append(n, c))
    BY <1>1, SuffixMeans
  <2> QED
    BY <1>1, <1>2, <2>1, SuffixSelf DEF LongestIn, Entry, HasGoto
<1>3. CASE ~ HasGoto(n, c)
  <2> DEFINE f == Follow(failure[n], c)
  <2>1. LongestIn(f, Append(failure[n], c), Nodes)
    BY <1>1, FollowIsLongest
  <2>2. Entry(n, c) = f
    BY <1>3 DEF Entry
  <2>3. CASE n = Root
    BY <1>1, <2>1, <2>2, <2>3
  <2>4. CASE n # Root
    <3>1. LongestIn(failure[n], n, Nodes \ {n})
      BY <2>4 DEF FailureShape
    <3>2. ASSUME NEW m \in Nodes, m # <<>>, IsSuffix(m, Append(n, c))
          PROVE  Front(m) \in Nodes \ {n}
      <4>1. m \in Strings /\ Front(m) \in Nodes
        BY <1>1, <3>2 DEF TrieShape, Root
      <4>2. m = Append(Front(m), c)
        BY <1>1, <3>2, <4>1, SuffixOfAppend
      <4>3. Front(m) # n
        BY <1>3, <4>2 DEF HasGoto
      <4> QED
        BY <4>1, <4>3
    <3>3. f \in Nodes
      BY <2>1 DEF LongestIn
    <3> DEFINE M == Nodes \ {n}
    <3> HIDE DEF f, M
    <3>4. M \in SUBSET Strings /\ LongestIn(failure[n], n, M) /\ Nodes \in SUBSET Nodes
      BY <1>1, <3>1 DEF M
    <3>5. \A m \in Nodes : m # <<>> /\ IsSuffix(m, Append(n, c)) => Front(m) \in M
      BY <3>2 DEF M
    <3>6. LongestIn(f, Append(n, c), Nodes)
      BY <1>1, <2>1, <3>3, <3>4, <3>5, LongestStep
    <3> QED
      BY <2>2, <3>6
  <2> QED
    BY <2>3, <2>4
<1> QED
  BY <1>2, <1>3

LEMMA TreeKept ==
  ASSUME TreeInv, gotos' = gotos, message' = message, failure' = failure,
         hasFailInto' = hasFailInto, file' = file, queue' \in Seq(Nodes),
         phase \notin {"enter", "failures", "avoid"},
         phase' \notin {"enter", "failures", "avoid"}
  PROVE  TreeInv' /\ Nodes' = Nodes
<1>1. TrieInv' /\ Nodes' = Nodes
  BY TrieStays DEF TreeInv, TrieInv
<1>2. BuiltInv'
  BY BuiltStays DEF TreeInv
<1> QED
  BY <1>1, <1>2 DEF TreeInv

LEMMA MachineStarts ==
  ASSUME TreeAssumption, TableInit
  PROVE  MachineInv
<1>1. /\ TreeInit /\ phase = "enter" /\ table = <<>> /\ matches = {} /\ packet = <<>>
      /\ idx = 0 /\ current = Root /\ res = 0
  BY DEF TableInit, TreeInit
<1>2. TreeInv
  BY <1>1, TreeStarts
<1>3. DOMAIN table = {}
  BY <1>1
<1>4. TableInv
  BY <1>1, <1>3 DEF TableInv, Building
<1>5. packet \in Seq(Alphabet) /\ Len(packet) = 0
  BY <1>1
<1>6. ScanInv
  BY <1>1, <1>5 DEF ScanInv, TableScanning
<1> QED
  BY <1>2, <1>4, <1>6 DEF MachineInv

LEMMA TableBuildKeeps ==
  ASSUME MachineInv, TableBuild
  PROVE  MachineInv'
<1>1. /\ BuildTree /\ table' = table /\ matches' = matches /\ packet' = packet /\ idx' = idx
      /\ current' = current /\ res' = res
  BY DEF TableBuild, tableMachine, tableArgs, tableLocals
<1>2. /\ phase \in {"enter", "failures", "avoid"}
      /\ phase' \in {"enter", "failures", "avoid", "built"}
  BY <1>1 DEF BuildTree, Enter, StartFailures, FailStep, FailuresDone, AvoidStep, AvoidDone
<1>3. TreeInv'
  BY <1>1, TreeGrows DEF MachineInv
<1>4. table' = <<>> /\ matches' = {} /\ DOMAIN table' = {}
  BY <1>1, <1>2 DEF MachineInv, TableInv, Building
<1>5. TableInv'
  BY <1>2, <1>4 DEF TableInv, Building
<1>6. ScanInv'
  BY <1>1, <1>2 DEF MachineInv, ScanInv, TableScanning
<1> QED
  BY <1>3, <1>5, <1>6 DEF MachineInv

LEMMA StartTableKeeps ==
  ASSUME MachineInv, StartTable
  PROVE  MachineInv'
<1>1. /\ phase = "built" /\ phase' = "table" /\ queue' = <<Root>> /\ gotos' = gotos
      /\ message' = message /\ failure' = failure /\ hasFailInto' = hasFailInto /\ file' = file
      /\ table' = table /\ matches' = matches /\ packet' = packet /\ idx' = idx
      /\ current' = current /\ res' = res
  BY DEF StartTable, tree, tableArgs, tableLocals
<1>2. TrieInv
  BY DEF MachineInv, TreeInv
<1>3. TreeInv' /\ Nodes' = Nodes
  <2>1. queue' \in Seq(Nodes)
    BY <1>1, <1>2 DEF TrieInv, TrieShape
  <2> QED
    BY <1>1, <2>1, TreeKept DEF MachineInv
<1>4. table' = <<>> /\ matches' = {} /\ DOMAIN table' = {}
  BY <1>1 DEF MachineInv, TableInv, Building
<1>5. \A n \in Nodes : \E i \in DOMAIN queue' : IsPrefix(queue'[i], n)
  <2>1. 1 \in DOMAIN queue' /\ queue'[1] = Root
    BY <1>1
  <2>2. ASSUME NEW n \in Nodes PROVE IsPrefix(Root, n)
    <3>1. n \in Strings /\ Root \in Strings /\ Len(Root) = 0 /\ Len(n) \in Nat
      BY <1>2 DEF TrieInv, TrieShape, Strings, Root
    <3> QED
      BY <3>1, PrefixMeans
  <2> QED
    BY <2>1, <2>2
<1>6. TableInv'
  BY <1>1, <1>3, <1>4, <1>5 DEF TableInv, Building
<1>7. ScanInv'
  BY <1>1 DEF MachineInv, ScanInv, TableScanning
<1> QED
  BY <1>3, <1>6, <1>7 DEF MachineInv

LEMMA PutStateKeeps ==
  ASSUME TableInputs, MachineInv, PutState
  PROVE  MachineInv'
<1> DEFINE n == Head(queue)
           g == gotos[n]
           t == Tail(queue)
<1>1. /\ phase = "table" /\ phase' = "table" /\ queue # <<>> /\ queue' = t \o g
      /\ gotos' = gotos /\ message' = message /\ failure' = failure
      /\ hasFailInto' = hasFailInto /\ file' = file
      /\ packet' = packet /\ idx' = idx /\ current' = current /\ res' = res
  BY DEF PutState, tree, tableArgs, tableLocals
<1>2. /\ table' = [m \in DOMAIN table \cup {n} |->
                     IF m = n THEN [c \in Alphabet |-> Entry(n, c)] ELSE table[m]]
      /\ matches' = IF Match(n) THEN matches \cup {n} ELSE matches
  BY DEF PutState
<1>3. /\ TrieInv /\ queue \in Seq(Nodes) /\ FailureShape /\ DOMAIN failure = Nodes
  BY <1>1 DEF MachineInv, TreeInv, BuiltInv, TableInputs
<1>4. /\ n \in Nodes /\ n = queue[1] /\ t \in Seq(Nodes)
      /\ Len(queue) \in Nat \ {0} /\ DOMAIN queue = 1 .. Len(queue)
      /\ Len(t) = Len(queue) - 1
      /\ \A i \in 1 .. Len(queue) - 1 : t[i] = queue[i + 1]
  BY <1>1, <1>3
<1>5. g \in Seq(Nodes) /\ ToSet(g) = Children(n)
  BY <1>3, <1>4 DEF TrieInv, Children
<1> HIDE DEF n, g, t
<1>6. /\ t \o g \in Seq(Nodes) /\ Len(g) \in Nat /\ DOMAIN g = 1 .. Len(g) /\ Len(t) \in Nat
      /\ Len(t \o g) = Len(t) + Len(g)
      /\ \A i \in 1 .. Len(t) + Len(g) : (t \o g)[i] = IF i <= Len(t) THEN t[i] ELSE g[i - Len(t)]
  <2>1. Len(g) \in Nat /\ DOMAIN g = 1 .. Len(g) /\ Len(t) \in Nat
    BY <1>4, <1>5
  <2>2. /\ t \o g \in Seq(Nodes) /\ Len(t \o g) = Len(t) + Len(g)
        /\ \A i \in 1 .. Len(t) + Len(g) :
             (t \o g)[i] = IF i <= Len(t) THEN t[i] ELSE g[i - Len(t)]
    BY <1>4, <1>5, ConcatProperties
  <2> QED
    BY <2>1, <2>2
<1>7. DOMAIN (t \o g) = 1 .. Len(t) + Len(g)
  BY <1>6, LenProperties
<1>8. TreeInv' /\ Nodes' = Nodes
  BY <1>1, <1>6, TreeKept DEF MachineInv
<1>9. DOMAIN table' = DOMAIN table \cup {n}
  BY <1>2
<1>10. \A m \in DOMAIN table' : \A c \in Alphabet : LongestIn(table'[m][c], Append(m, c), Nodes)
  <2>1. ASSUME NEW m \in DOMAIN table', NEW c \in Alphabet
        PROVE  LongestIn(table'[m][c], Append(m, c), Nodes)
    <3>1. CASE m = n
      <4>1. table'[m][c] = Entry(n, c) /\ c \in Character
        BY <1>2, <1>9, <3>1 DEF TableInputs
      <4> QED
        BY <1>3, <1>4, <3>1, <4>1, EntryIsLongest
    <3>2. CASE m # n
      <4>1. m \in DOMAIN table /\ table'[m] = table[m]
        BY <1>2, <1>9, <3>2
      <4> QED
        BY <4>1 DEF MachineInv, TableInv
    <3> QED
      BY <3>1, <3>2
  <2> QED
    BY <2>1
<1>11. matches' = {m \in DOMAIN table' : Match(m)}
  <2>1. matches = {m \in DOMAIN table : Match(m)}
    BY DEF MachineInv, TableInv
  <2> QED
    BY <1>2, <1>9, <2>1
<1>12. \A m \in Nodes \ DOMAIN table' : \E i \in DOMAIN queue' : IsPrefix(queue'[i], m)
  <2>1. ASSUME NEW m \in Nodes \ DOMAIN table'
        PROVE  \E i \in DOMAIN queue' : IsPrefix(queue'[i], m)
    <3>1. m # n /\ m \in Nodes \ DOMAIN table
      BY <1>9
    <3>2. PICK i \in DOMAIN queue : IsPrefix(queue[i], m)
      BY <1>1, <3>1 DEF MachineInv, TableInv
    <3>3. CASE i = 1
      <4>1. PICK k \in Children(n) : IsPrefix(k, m)
        BY <1>3, <1>4, <3>1, <3>2, <3>3, ChildBelow
      <4>2. PICK j \in DOMAIN g : g[j] = k
        BY <1>5, InToSet
      <4>3. Len(t) + j \in DOMAIN queue' /\ queue'[Len(t) + j] = g[j]
        BY <1>1, <1>6, <1>7
      <4> QED
        BY <4>1, <4>2, <4>3
    <3>4. CASE i # 1
      <4>1. i - 1 \in 1 .. Len(queue) - 1 /\ t[i - 1] = queue[i]
        BY <1>4, <3>4
      <4>2. i - 1 \in DOMAIN queue' /\ queue'[i - 1] = t[i - 1]
        BY <1>1, <1>4, <1>6, <1>7, <4>1
      <4> QED
        BY <3>2, <4>1, <4>2
    <3> QED
      BY <3>3, <3>4
  <2> QED
    BY <2>1
<1>13. TableInv'
  <2>1. DOMAIN table' \subseteq Nodes
    BY <1>4, <1>9 DEF MachineInv, TableInv
  <2>2. matches' = {m \in DOMAIN table' : Match(m)'}
    BY <1>1, <1>11 DEF Match
  <2> QED
    BY <1>1, <1>8, <1>10, <1>12, <2>1, <2>2 DEF TableInv, Building
<1>14. ScanInv'
  BY <1>1 DEF MachineInv, ScanInv, TableScanning
<1> QED
  BY <1>8, <1>13, <1>14 DEF MachineInv

LEMMA ReadyKeeps ==
  ASSUME TableInputs, MachineInv, TableReady \/ StartTableScan
  PROVE  MachineInv'
<1>1. /\ phase \in {"table", "ready"} /\ phase' \in {"ready", "scan", "plain_scan"}
      /\ phase = "table" => queue = <<>> /\ phase' = "ready"
      /\ queue' = queue /\ gotos' = gotos /\ message' = message /\ failure' = failure
      /\ hasFailInto' = hasFailInto /\ file' = file /\ table' = table /\ matches' = matches
      /\ idx' = idx /\ current' = current /\ res' = res
      /\ packet' = packet \/ packet' \in Packets
  BY DEF TableReady, StartTableScan, tree, tableMachine, tableArgs, tableLocals
<1>2. TreeInv' /\ Nodes' = Nodes
  BY <1>1, TreeKept DEF MachineInv, TreeInv
<1>3. DOMAIN table = Nodes
  <2>1. CASE phase = "table"
    <3>1. DOMAIN queue = {}
      BY <1>1, <2>1
    <3> QED
      BY <2>1, <3>1 DEF MachineInv, TableInv
  <2>2. CASE phase = "ready"
    BY <2>2 DEF MachineInv, TableInv, Building
  <2> QED
    BY <1>1, <2>1, <2>2
<1>4. TableInv'
  <2>1. matches' = {n \in DOMAIN table' : Match(n)'}
    BY <1>1 DEF MachineInv, TableInv, Match
  <2> QED
    BY <1>1, <1>2, <1>3, <2>1 DEF MachineInv, TableInv, Building
<1>5. /\ idx = 0 /\ current = Root /\ res = 0 /\ packet' \in Seq(Alphabet)
      /\ Len(packet') \in Nat
  <2>1. idx = 0 /\ current = Root /\ res = 0 /\ packet \in Seq(Alphabet)
    BY <1>1 DEF MachineInv, ScanInv, TableScanning
  <2>2. packet' \in Seq(Alphabet)
    BY <1>1, <2>1 DEF TableInputs
  <2> QED
    BY <2>1, <2>2
<1>6. LongestIn(Root, SubSeq(packet', 1, 0), Nodes)
  <2>1. SubSeq(packet', 1, 0) = <<>>
    BY <1>5
  <2>2. Root \in Nodes /\ Nodes \in SUBSET Strings /\ Root = <<>> /\ <<>> \in Strings
    BY SuffixSelf DEF MachineInv, TreeInv, TrieInv, TrieShape, Root
  <2>3. \A m \in Nodes : IsSuffix(m, <<>>) => Len(m) <= Len(Root)
    BY <2>2, SuffixMeans
  <2> QED
    BY <2>1, <2>2, <2>3, SuffixSelf DEF LongestIn
<1>7. ScanInv'
  <2>1. idx' = 0 /\ current' = Root /\ res' = 0
    BY <1>1, <1>5
  <2>2. LongestIn(current', BytesRead(idx)', Nodes')
    BY <1>2, <1>6, <2>1 DEF BytesRead
  <2> QED
    BY <1>1, <1>5, <2>1, <2>2 DEF ScanInv
<1> QED
  BY <1>2, <1>4, <1>7 DEF MachineInv

(* One transition of either scan.                                          *)
LEMMA NextByteIsLongest ==
  ASSUME TableInputs, MachineInv, NextByte, phase \in {"scan", "plain_scan"},
         idx < Len(packet)
  PROVE  /\ LongestIn(current', BytesRead(idx + 1), Nodes)
         /\ current' = LongestSuffixIn(BytesRead(idx + 1), Nodes)
         /\ BytesRead(idx + 1) \in Strings /\ idx \in Nat
<1> DEFINE w == BytesRead(idx)
           c == packet[idx + 1]
<1>1. packet \in Seq(Alphabet) /\ idx \in 0 .. Len(packet) /\ Len(packet) \in Nat
  BY DEF MachineInv, ScanInv
<1>2. w \in Strings /\ c \in Alphabet /\ BytesRead(idx + 1) = Append(w, c)
  BY <1>1, ReadString
<1>3. c \in Character /\ Append(w, c) \in Strings
  BY <1>2, AppendString DEF TableInputs
<1>4. LongestIn(current, w, Nodes) /\ current \in Nodes
  BY DEF MachineInv, ScanInv, TableScanning, LongestIn
<1>5. Nodes \in SUBSET Strings /\ \A n \in Nodes \ {Root} : Front(n) \in Nodes
  BY DEF MachineInv, TreeInv, TrieInv, TrieShape
<1>6. DOMAIN table = Nodes /\ current' = table[current][c]
  BY DEF MachineInv, TableInv, Building, NextByte
<1> HIDE DEF w, c
<1>7. LongestIn(current', Append(current, c), Nodes)
  BY <1>2, <1>4, <1>6 DEF MachineInv, TableInv
<1>8. current' \in Nodes
  BY <1>7 DEF LongestIn
<1>9. \A m \in Nodes : m # <<>> /\ IsSuffix(m, Append(w, c)) => Front(m) \in Nodes
  BY <1>5 DEF Root
<1>10. LongestIn(current', Append(w, c), Nodes)
  BY <1>2, <1>3, <1>4, <1>5, <1>7, <1>8, <1>9, LongestStep
<1>11. current' = LongestSuffixIn(Append(w, c), Nodes)
  BY <1>3, <1>5, <1>10, LongestUnique
<1>12. BytesRead(idx + 1) \in Strings
  BY <1>2, <1>3
<1>13. idx \in Nat
  BY <1>1
<1>14. LongestIn(current', BytesRead(idx + 1), Nodes)
  BY <1>2, <1>10
<1>15. current' = LongestSuffixIn(BytesRead(idx + 1), Nodes)
  BY <1>2, <1>11
<1> QED
  BY <1>12, <1>13, <1>14, <1>15

(* What the scans leave alone.                                             *)
LEMMA ScanKeepsTree ==
  ASSUME MachineInv, gotos' = gotos, message' = message, failure' = failure,
         hasFailInto' = hasFailInto, file' = file, queue' = queue,
         table' = table, matches' = matches, phase \in TableScanning, phase' \in TableScanning
  PROVE  TreeInv' /\ TableInv' /\ Nodes' = Nodes
<1>1. phase \notin Building \cup {"table"} /\ phase' \notin Building \cup {"table"}
  BY DEF TableScanning, Building
<1>2. TreeInv' /\ Nodes' = Nodes
  BY <1>1, TreeKept DEF MachineInv, TreeInv, Building
<1>3. matches' = {n \in DOMAIN table' : Match(n)'}
  BY DEF MachineInv, TableInv, Match
<1> QED
  BY <1>1, <1>2, <1>3 DEF MachineInv, TableInv, Building

(* A byte of the scan: the answer turns to 1 as soon as a state accepts.   *)
LEMMA ByteKeeps ==
  ASSUME TableInputs, MachineInv, ScanByte \/ PlainByte
  PROVE  MachineInv'
<1>1. /\ phase \in {"scan", "plain_scan"} /\ phase' = phase /\ idx < Len(packet) /\ NextByte
      /\ gotos' = gotos /\ message' = message /\ failure' = failure
      /\ hasFailInto' = hasFailInto /\ file' = file /\ queue' = queue
      /\ table' = table /\ matches' = matches /\ packet' = packet
  BY DEF ScanByte, PlainByte, treeVars, tree, tableMachine, tableArgs
<1>2. TreeInv' /\ TableInv' /\ Nodes' = Nodes
  BY <1>1, ScanKeepsTree DEF TableScanning
<1>3. /\ LongestIn(current', BytesRead(idx + 1), Nodes)
      /\ current' = LongestSuffixIn(BytesRead(idx + 1), Nodes) /\ idx \in Nat
  BY <1>1, NextByteIsLongest
<1>4. /\ idx' = idx + 1 /\ res' = IF current' \in matches THEN 1 ELSE res
  BY <1>1 DEF NextByte
<1>5. /\ packet \in Seq(Alphabet) /\ idx \in 0 .. Len(packet) /\ Len(packet) \in Nat
      /\ res \in {0, 1}
      /\ res = 1 <=> \E k \in 1 .. idx : LongestSuffixIn(BytesRead(k), Nodes) \in matches
  BY <1>1 DEF MachineInv, ScanInv
<1>6. res' = 1 <=> \E k \in 1 .. idx + 1 : LongestSuffixIn(BytesRead(k), Nodes) \in matches
  <2>1. CASE current' \in matches
    <3>1. res' = 1
      BY <1>4, <2>1
    <3>2. idx + 1 \in 1 .. idx + 1
      BY <1>3
    <3> QED
      BY <1>3, <2>1, <3>1, <3>2
  <2>2. CASE current' \notin matches
    <3>1. \A k : k \in 1 .. idx + 1 <=> k \in 1 .. idx \/ k = idx + 1
      BY <1>3
    <3>2. ~ (LongestSuffixIn(BytesRead(idx + 1), Nodes) \in matches)
      BY <1>3, <2>2
    <3> QED
      BY <1>4, <1>5, <2>2, <3>1, <3>2
  <2> QED
    BY <2>1, <2>2
<1>7. ScanInv'
  <2>1. packet' \in Seq(Alphabet) /\ idx' \in 0 .. Len(packet')
    BY <1>1, <1>3, <1>4, <1>5
  <2>2. LongestIn(current', SubSeq(packet', 1, idx'), Nodes')
    BY <1>1, <1>2, <1>3, <1>4 DEF BytesRead
  <2>3. res' \in {0, 1}
    BY <1>4, <1>5
  <2>4. res' = 1 <=> \E k \in 1 .. idx' : LongestSuffixIn(SubSeq(packet', 1, k), Nodes') \in matches'
    BY <1>1, <1>2, <1>4, <1>6 DEF BytesRead
  <2> QED
    BY <1>1, <2>1, <2>2, <2>3, <2>4 DEF ScanInv, TableScanning, BytesRead
<1> QED
  BY <1>2, <1>7 DEF MachineInv

(* The scan stops: the packet moves, is dropped or has been read.          *)
LEMMA StopKeeps ==
  ASSUME TableInputs, MachineInv, HandOver \/ DropPlainPacket \/ EndOfTableScan
  PROVE  MachineInv'
<1>1. /\ phase \in {"scan", "plain_scan"} /\ phase' \in {"handed_over", "dropped", "scanned"}
      /\ phase' = "handed_over" => last_idx_in_root' = idx - Len(current)
      /\ phase' = "scanned" => idx = Len(packet) /\ res' = res
  BY DEF HandOver, DropPlainPacket, EndOfTableScan, ResumeIndex, tableLocals
<1>2. /\ gotos' = gotos /\ message' = message /\ failure' = failure
      /\ hasFailInto' = hasFailInto /\ file' = file /\ queue' = queue
      /\ table' = table /\ matches' = matches /\ packet' = packet /\ idx' = idx
      /\ current' = current
  BY DEF HandOver, DropPlainPacket, EndOfTableScan, tree, tableMachine, tableArgs, tableLocals
<1>3. TreeInv' /\ TableInv' /\ Nodes' = Nodes
  BY <1>1, <1>2, ScanKeepsTree DEF TableScanning
<1>4. /\ packet \in Seq(Alphabet) /\ idx \in 0 .. Len(packet)
      /\ LongestIn(current, BytesRead(idx), Nodes)
      /\ res \in {0, 1}
      /\ res = 1 <=> \E k \in 1 .. idx : LongestSuffixIn(BytesRead(k), Nodes) \in matches
  BY <1>1 DEF MachineInv, ScanInv, TableScanning
<1>5. ScanInv'
  <2>1. packet' \in Seq(Alphabet) /\ idx' \in 0 .. Len(packet')
    BY <1>2, <1>4
  <2>2. LongestIn(current', SubSeq(packet', 1, idx'), Nodes')
    BY <1>2, <1>3, <1>4 DEF BytesRead
  <2>3. phase' = "scanned" =>
          /\ res' \in {0, 1} /\ idx' = Len(packet')
          /\ res' = 1 <=> \E k \in 1 .. idx' : LongestSuffixIn(SubSeq(packet', 1, k), Nodes') \in matches'
    BY <1>1, <1>2, <1>3, <1>4 DEF BytesRead
  <2>4. phase' = "handed_over" => last_idx_in_root' = idx' - Len(current')
    BY <1>1, <1>2
  <2> QED
    BY <1>1, <2>1, <2>2, <2>3, <2>4 DEF ScanInv, TableScanning, BytesRead
<1> QED
  BY <1>3, <1>5 DEF MachineInv

LEMMA MachineUnchanged ==
  ASSUME MachineInv, UNCHANGED tableVars
  PROVE  MachineInv'
<1>1. /\ UNCHANGED treeVars
      /\ gotos' = gotos /\ message' = message /\ queue' = queue /\ phase' = phase
      /\ table' = table /\ matches' = matches /\ packet' = packet /\ idx' = idx
      /\ current' = current /\ res' = res /\ last_idx_in_root' = last_idx_in_root
  BY DEF tableVars, treeVars, tree, tableMachine, tableArgs, tableLocals
<1>2. TreeInv' /\ Nodes' = Nodes
  BY <1>1, TreeUnchanged DEF MachineInv, Nodes
<1>3. TableInv'
  <2>1. matches' = {n \in DOMAIN table' : Match(n)'}
    BY <1>1 DEF MachineInv, TableInv, Match
  <2> QED
    BY <1>1, <1>2, <2>1 DEF MachineInv, TableInv, Building
<1>4. ScanInv'
  BY <1>1, <1>2 DEF MachineInv, ScanInv, TableScanning, BytesRead
<1> QED
  BY <1>2, <1>3, <1>4 DEF MachineInv

LEMMA MachineAlwaysInv ==
  ASSUME TableInputs
  PROVE  TableSpec => []MachineInv
<1>1. TableInit => MachineInv
  BY MachineStarts, TreeAssumption
<1>2. MachineInv /\ [TableNext]_tableVars => MachineInv'
  BY TableBuildKeeps, StartTableKeeps, PutStateKeeps, ReadyKeeps, ByteKeeps, StopKeeps,
     MachineUnchanged DEF TableNext
<1> QED
  BY <1>1, <1>2, PTL DEF TableSpec

-----------------------------------------------------------------------------
(* What the scans guarantee, for every patterns file and every packet.     *)

LEMMA ScanState ==
  ASSUME TableInputs, MachineInv
  PROVE  /\ Nodes \in SUBSET Strings /\ packet \in Seq(Alphabet) /\ Len(packet) \in Nat
         /\ idx \in 0 .. Len(packet) /\ BytesRead(idx) \in Strings /\ Len(BytesRead(idx)) = idx
         /\ phase \in TableScanning =>
              /\ LongestIn(current, BytesRead(idx), Nodes)
              /\ current = LongestSuffixIn(BytesRead(idx), Nodes)
              /\ current \in Strings /\ Len(current) \in 0 .. idx /\ IsSuffix(current, BytesRead(idx))
<1>1. Nodes \in SUBSET Strings
  BY DEF MachineInv, TreeInv, TrieInv, TrieShape
<1>2. packet \in Seq(Alphabet) /\ idx \in 0 .. Len(packet) /\ Len(packet) \in Nat
  BY DEF MachineInv, ScanInv
<1>3. BytesRead(idx) \in Strings /\ Len(BytesRead(idx)) = idx
  BY <1>2, ReadString
<1>4. ASSUME phase \in TableScanning
      PROVE  /\ LongestIn(current, BytesRead(idx), Nodes)
             /\ current = LongestSuffixIn(BytesRead(idx), Nodes)
             /\ current \in Strings /\ Len(current) \in 0 .. idx /\ IsSuffix(current, BytesRead(idx))
  <2>1. LongestIn(current, BytesRead(idx), Nodes)
    BY <1>4 DEF MachineInv, ScanInv
  <2>2. current = LongestSuffixIn(BytesRead(idx), Nodes)
    BY <1>1, <1>3, <2>1, LongestUnique
  <2>3. current \in Strings /\ IsSuffix(current, BytesRead(idx))
    BY <1>1, <2>1 DEF LongestIn
  <2>4. Len(current) \in Nat /\ Len(current) <= idx
    BY <1>3, <2>3, SuffixMeans DEF Strings
  <2>5. Len(current) \in 0 .. idx
    BY <1>2, <2>4
  <2> QED
    BY <2>1, <2>2, <2>3, <2>5
<1> QED
  BY <1>1, <1>2, <1>3, <1>4

(* Both scans of the table machine, whatever the patterns and the packet:  *)
(* the state is the longest node that the bytes read so far end with.      *)
THEOREM ScansFollowTheTree ==
  ASSUME TableInputs
  PROVE  TableSpec => []StateIsLongestSuffix
<1>1. MachineInv => StateIsLongestSuffix
  BY ScanState DEF StateIsLongestSuffix, TableScanning
<1> QED
  BY <1>1, MachineAlwaysInv, PTL

LEMMA AnswerRight ==
  ASSUME TableInputs, MachineInv, phase = "scanned", NoInnerPattern
  PROVE  res = 1 <=> \E k \in 1 .. Len(packet) : \E p \in Accepting : ReadEndsWith(k, p)
<1>1. /\ idx = Len(packet) /\ matches = Accepting
      /\ res = 1 <=> \E k \in 1 .. idx : LongestSuffixIn(BytesRead(k), Nodes) \in matches
  BY DEF MachineInv, ScanInv, TableInv, Building, Accepting
<1>2. Nodes \in SUBSET Strings /\ packet \in Seq(Alphabet) /\ Len(packet) \in Nat /\ <<>> \in Nodes
  BY ScanState DEF MachineInv, TreeInv, TrieInv, TrieShape, Root
<1>3. ASSUME NEW k \in 1 .. Len(packet)
      PROVE  LongestSuffixIn(BytesRead(k), Nodes) \in Accepting <=> \E p \in Accepting : ReadEndsWith(k, p)
  <2> DEFINE l == LongestSuffixIn(BytesRead(k), Nodes)
  <2>1. BytesRead(k) \in Strings /\ Len(BytesRead(k)) = k /\ k \in Nat
    <3>1. k \in 0 .. Len(packet) /\ k \in Nat
      BY <1>2
    <3> QED
      BY <1>2, <3>1, ReadString
  <2>2. LongestIn(l, BytesRead(k), Nodes)
    BY <1>2, <2>1, LongestExists
  <2>3. l \in Nodes /\ l \in Strings /\ IsSuffix(l, BytesRead(k)) /\ Len(l) <= k
    <3>1. l \in Nodes /\ l \in Strings /\ IsSuffix(l, BytesRead(k))
      BY <1>2, <2>2 DEF LongestIn
    <3> QED
      BY <2>1, <3>1, SuffixMeans
  <2>4. ASSUME l \in Accepting
        PROVE  ReadEndsWith(k, l)
    BY <2>3 DEF ReadEndsWith
  <2>5. ASSUME NEW p \in Accepting, ReadEndsWith(k, p)
        PROVE  l \in Accepting
    <3>1. p \in Nodes /\ p \in Strings /\ IsSuffix(p, BytesRead(k))
      BY <1>2, <2>5 DEF ReadEndsWith, Accepting
    <3>2. Len(p) <= Len(l)
      BY <2>2, <3>1 DEF LongestIn
    <3>3. IsSuffix(p, l)
      BY <2>1, <2>3, <3>1, <3>2, SuffixOfLonger
    <3>4. p = l
      BY <2>3, <2>5, <3>3 DEF NoInnerPattern
    <3> QED
      BY <2>5, <3>4
  <2> QED
    BY <2>4, <2>5
<1> QED
  BY <1>1, <1>3

(* Without patterns inside others, the answer for the whole packet is      *)
(* right, wherever the occurrences are and however they overlap.           *)
THEOREM ScansAreExact ==
  ASSUME TableInputs
  PROVE  TableSpec => []ExactWhenNotNested
<1>1. MachineInv => ExactWhenNotNested
  BY AnswerRight DEF ExactWhenNotNested
<1> QED
  BY <1>1, MachineAlwaysInv, PTL

(* The bytes from last_idx_in_root to the one where a scan stops are the   *)
(* label of its state.                                                     *)
LEMMA RestIsState ==
  ASSUME TableInputs, MachineInv, phase = "handed_over"
  PROVE  SubSeq(packet, last_idx_in_root + 1, idx) = current
<1> DEFINE d == Len(current)
           r == SubSeq(packet, last_idx_in_root + 1, idx)
<1>1. /\ packet \in Seq(Alphabet) /\ Len(packet) \in Nat /\ idx \in 0 .. Len(packet)
      /\ BytesRead(idx) \in Strings /\ Len(BytesRead(idx)) = idx
      /\ current \in Strings /\ d \in 0 .. idx /\ IsSuffix(current, BytesRead(idx))
  BY ScanState DEF TableScanning
<1>2. last_idx_in_root = idx - d
  BY DEF MachineInv, ScanInv
<1>3. packet \in Seq(Character)
  BY <1>1, SeqMonotonic DEF TableInputs
<1>4. /\ idx \in Nat /\ d \in Nat /\ idx - d + 1 \in 1 .. Len(packet) + 1
      /\ idx - d \in Nat
  BY <1>1
<1>5. r \in Seq(Character) /\ Len(r) = d /\ \A i \in 1 .. d : r[i] = packet[idx - d + i]
  <2>1. \A i \in idx - d + 1 .. idx : packet[i] \in Character
    <3>1. \A i \in idx - d + 1 .. idx : i \in 1 .. Len(packet)
      BY <1>1, <1>4
    <3> QED
      BY <1>3, <3>1
  <2>2. r = SubSeq(packet, idx - d + 1, idx)
    BY <1>2
  <2> HIDE DEF d, r
  <2>3. r \in Seq(Character)
    BY <1>4, <2>1, <2>2
  <2>4. Len(r) = d
    BY <1>4, <2>2
  <2>5. \A i \in 1 .. d : r[i] = packet[idx - d + i]
    BY <1>4, <2>2
  <2> QED
    BY <2>3, <2>4, <2>5
<1>6. \A i \in 1 .. d : current[i] = packet[idx - d + i]
  <2>1. \A i \in 1 .. d : current[i] = BytesRead(idx)[idx - d + i]
    BY <1>1, SuffixMeans
  <2>2. \A i \in 1 .. idx : BytesRead(idx)[i] = packet[i]
    BY <1>1, ReadString
  <2>3. \A i \in 1 .. d : idx - d + i \in 1 .. idx
    BY <1>4, <1>1
  <2> QED
    BY <2>1, <2>2, <2>3
<1> HIDE DEF d, r
<1>7. r \in Strings
  BY <1>5 DEF Strings
<1>8. r = current
  BY <1>1, <1>5, <1>6, <1>7, EqualStrings DEF d
<1> QED
  BY <1>8 DEF r

(* A pattern that goes on past the byte where a scan stops, and began      *)
(* before it, began within the label of the scan's state.                  *)
LEMMA OpenPatternIsInState ==
  ASSUME TableInputs, MachineInv, phase \in TableScanning,
         NEW k \in idx + 1 .. Len(packet), NEW p \in Nodes, ReadEndsWith(k, p), k - Len(p) < idx
  PROVE  k - Len(p) >= idx - Len(current)
<1> DEFINE b == k - Len(p)
           j == idx - b
           q == SubSeq(p, 1, j)
<1>1. /\ packet \in Seq(Alphabet) /\ Len(packet) \in Nat /\ idx \in 0 .. Len(packet)
      /\ BytesRead(idx) \in Strings /\ Len(BytesRead(idx)) = idx /\ Nodes \in SUBSET Strings
      /\ LongestIn(current, BytesRead(idx), Nodes) /\ Len(current) \in 0 .. idx
  BY ScanState
<1>2. p \in Strings /\ Len(p) \in Nat /\ idx \in Nat /\ k \in Nat /\ k \in 0 .. Len(packet)
  BY <1>1 DEF Strings
<1>3. b \in Nat /\ j \in 1 .. Len(p) /\ j \in 0 .. Len(p) /\ j <= idx /\ j \in Nat
  BY <1>1, <1>2 DEF ReadEndsWith
<1>4. /\ BytesRead(k) \in Strings /\ Len(BytesRead(k)) = k
      /\ \A i \in 1 .. k : BytesRead(k)[i] = packet[i]
      /\ \A i \in 1 .. idx : BytesRead(idx)[i] = packet[i]
  BY <1>1, <1>2, ReadString
<1>5. \A i \in 1 .. Len(p) : p[i] = BytesRead(k)[k - Len(p) + i]
  BY <1>2, <1>4, SuffixMeans DEF ReadEndsWith
<1>6. \A i \in 1 .. j : i \in 1 .. Len(p) /\ b + i \in 1 .. k /\ b + i \in 1 .. idx /\ idx - j + i = b + i
  BY <1>2, <1>3
<1>7. q \in Strings /\ Len(q) = j /\ \A i \in 1 .. j : q[i] = p[i]
  BY <1>2, <1>3, SubSeqString
<1>8. q \in Nodes
  BY <1>3, PrefixClosed DEF MachineInv, TreeInv, TrieInv
<1>9. \A i \in 1 .. j : q[i] = BytesRead(idx)[idx - j + i]
  <2>1. ASSUME NEW i \in 1 .. j PROVE q[i] = BytesRead(idx)[idx - j + i]
    <3>1. q[i] = BytesRead(k)[b + i]
      BY <1>5, <1>6, <1>7
    <3>2. BytesRead(k)[b + i] = packet[b + i] /\ BytesRead(idx)[b + i] = packet[b + i]
      BY <1>4, <1>6
    <3>3. idx - j + i = b + i
      BY <1>6
    <3> QED
      BY <3>1, <3>2, <3>3
  <2> QED
    BY <2>1
<1> HIDE DEF q, j
<1>10. IsSuffix(q, BytesRead(idx))
  BY <1>1, <1>3, <1>7, <1>9, SuffixMeans
<1>11. j <= Len(current)
  BY <1>1, <1>7, <1>8, <1>10 DEF LongestIn
<1> QED
  BY <1>1, <1>2, <1>11 DEF j

LEMMA HandOverRight ==
  ASSUME TableInputs, MachineInv
  PROVE  HandOverLosesNothing
<1>1. ASSUME phase = "handed_over"
      PROVE  /\ LongestSuffixIn(SubSeq(packet, last_idx_in_root + 1, idx), Nodes) = current
             /\ \A k \in idx + 1 .. Len(packet) : \A p \in Accepting :
                  ReadEndsWith(k, p) /\ k - Len(p) < idx => k - Len(p) >= last_idx_in_root
  <2>1. /\ Nodes \in SUBSET Strings /\ current \in Nodes /\ current \in Strings
    BY <1>1, ScanState DEF TableScanning, LongestIn
  <2>2. LongestIn(current, current, Nodes)
    <3>1. \A m \in Nodes : IsSuffix(m, current) => Len(m) <= Len(current)
      BY <2>1, SuffixMeans
    <3> QED
      BY <2>1, <3>1, SuffixSelf DEF LongestIn
  <2>3. LongestSuffixIn(current, Nodes) = current
    BY <2>1, <2>2, LongestUnique
  <2>4. SubSeq(packet, last_idx_in_root + 1, idx) = current
    BY <1>1, RestIsState
  <2>5. last_idx_in_root = idx - Len(current)
    BY <1>1 DEF MachineInv, ScanInv
  <2>6. \A p \in Accepting : p \in Nodes
    BY DEF Accepting
  <2>7. \A k \in idx + 1 .. Len(packet) : \A p \in Nodes :
          ReadEndsWith(k, p) /\ k - Len(p) < idx => k - Len(p) >= idx - Len(current)
    BY <1>1, OpenPatternIsInState DEF TableScanning
  <2> QED
    BY <2>3, <2>4, <2>5, <2>6, <2>7
<1> QED
  BY <1>1 DEF HandOverLosesNothing

(* Whoever takes a heavy packet over from last_idx_in_root, whatever its   *)
(* limits and the byte where it turned out to be heavy, comes to the same  *)
(* state there, and no later occurrence begins before that index.          *)
THEOREM HandOverIsSafe ==
  ASSUME TableInputs
  PROVE  TableSpec => []HandOverLosesNothing
<1>1. MachineInv => HandOverLosesNothing
  BY HandOverRight
<1> QED
  BY <1>1, MachineAlwaysInv, PTL

-----------------------------------------------------------------------------
(* The nodes that get a state. *)
StateNodes ==
  {n \in Nodes : ~ IsLeaf(n) /\ (n = Root \/ IsBranch(n) \/ Marked(n) \/ IsBranch(Front(n)))}

RoomFor(n) == IF IsBranch(n) THEN NumGotos(n) - Cardinality(GotosToL12(n))
              ELSE Len(Path(n)) - 1 - Cardinality(FailuresToL012(n))

DataOf(n) == IF IsBranch(n) THEN BranchData(n) ELSE PathData(n)

BuildPhases == {"enter", "failures", "avoid", "built"}
ScanPhases == {"scan", "scanned", "dropped"}

(* What has been generated when the nodes in W have still to be. *)
Generated(W) ==
  /\ id \in [Nodes -> {"none", "child", "path", "state"}]
  /\ \A n \in W : id[n] \in {"none", "child"}
  /\ \A n \in Nodes \ W : HasState(n) <=> n \in StateNodes
  /\ DOMAIN room = {n \in Nodes : HasState(n)}
  /\ \A n \in DOMAIN room : room[n] = RoomFor(n)
  /\ firstLevelNodes = IF BranchingRoot /\ Root \notin W THEN Children(Root) ELSE {}
  /\ \A n \in secondLevelNodes : BranchingRoot /\ n \in Nodes /\ Len(n) = 2
  /\ BranchingRoot => \A n \in StateNodes : Len(n) = 2 /\ Front(n) \notin W => n \in secondLevelNodes

(* The queue of generateStates: no node of it is below another.            *)
Apart(q) == \A i, j \in DOMAIN q : IsPrefix(q[i], q[j]) => i = j

GenQueue ==
  /\ queue \in Seq(Nodes) /\ Apart(queue)
  /\ \A i \in DOMAIN queue : IsLeaf(queue[i]) \/ queue[i] \in StateNodes

GenInv ==
  /\ phase \in BuildPhases => id = <<>> /\ room = <<>> /\ firstLevelNodes = {} /\ secondLevelNodes = {}
  /\ phase = "states" => Generated(Waiting) /\ GenQueue
  /\ phase \notin BuildPhases \cup {"states"} => Generated({})

Filled ==
  /\ DOMAIN data \subseteq StateNodes
  /\ \A n \in DOMAIN data : data[n] = DataOf(n)
  /\ DOMAIN firstLevelLookup = {n[1] : n \in DOMAIN data \cap firstLevelNodes}
  /\ \A c \in DOMAIN firstLevelLookup : firstLevelLookup[c] = <<c>>
  /\ DOMAIN secondLevelLookup = DOMAIN data \cap secondLevelNodes
  /\ \A n \in DOMAIN secondLevelLookup : secondLevelLookup[n] = n

DataInv ==
  /\ phase \in BuildPhases \cup {"states"} =>
       data = <<>> /\ firstLevelLookup = <<>> /\ secondLevelLookup = <<>>
  /\ phase \notin BuildPhases \cup {"states"} => Filled
  /\ phase = "data" =>
       /\ StateNodes \subseteq DOMAIN data \cup Waiting
       /\ IsLeaf(Root) => queue = <<Root>>
       /\ ~ IsLeaf(Root) => \A i \in DOMAIN queue : queue[i] \in StateNodes
  /\ phase \in {"ready"} \cup ScanPhases => DOMAIN data = StateNodes /\ Root \in StateNodes
  /\ phase \in Failed => ~ BranchingRoot

(* The bytes read before k hold a pattern; nothing longer than n that they *)
(* end with can go on; no pattern that they end with was missed.           *)
Evidence(k) == \E j \in init_idx + 1 .. k : \E p \in Patterns : EndsWith(j, p)
PendingAt(k, n) == \A m \in Nodes : EndsWith(k, m) /\ Len(m) > Len(n) => ~ HasGoto(m, Byte(k))
SeenBy(k, r) == \A j \in init_idx + 2 .. k :
                  LET n == LongestSuffixIn(Read(j), Nodes) IN Len(n) > 1 /\ Match(n) => r = 1

(* The scan is at k in the state n.                                        *)
ScanAt(k, n, m, r) ==
  /\ k \in Nat /\ init_idx <= k /\ (k <= Len(packet) \/ k = init_idx)
  /\ n \in StateNodes /\ (~ BranchingRoot => n = Root)
  /\ clean /\ (m \/ r = 1) => Evidence(k)
  /\ k < Len(packet) => EndsWith(k, n)

ExactAt(k, n, r) ==
  BranchingRoot /\ ~ GotoToRootInTable =>
    (k < Len(packet) => PendingAt(k, n)) /\ SeenBy(k, r)

CScanInv ==
  /\ phase \in BuildPhases \cup {"states", "data", "ready"} \cup ScanPhases \cup Failed
  /\ phase \notin ScanPhases => s = Root /\ idx = 0 /\ res = 0 /\ packet = <<>>
  /\ phase \in ScanPhases =>
       /\ packet \in Packets /\ init_idx \in 0 .. 1 /\ res \in {-1, 0, 1}
       /\ ScanAt(idx, s, match, res)
       /\ phase = "scanned" => Len(packet) <= idx
  /\ phase \in {"scan", "scanned"} => ExactAt(idx, s, res)

CompressedInv == TreeInv /\ MarkInv /\ GenInv /\ DataInv /\ CScanInv

LEMMA PrefixTransitive ==
  ASSUME NEW r \in Strings, NEW u \in Strings, NEW t \in Strings,
         IsPrefix(r, u), IsPrefix(u, t)
  PROVE  IsPrefix(r, t)
<1>1. Len(r) \in Nat /\ Len(u) \in Nat /\ Len(t) \in Nat
  BY DEF Strings
<1>2. Len(r) <= Len(u) /\ Len(u) <= Len(t) /\ (\A i \in 1 .. Len(r) : r[i] = u[i])
      /\ (\A i \in 1 .. Len(u) : u[i] = t[i])
  BY PrefixMeans
<1>3. Len(r) <= Len(t) /\ \A i \in 1 .. Len(r) : r[i] = t[i]
  BY <1>1, <1>2
<1> QED
  BY <1>3, PrefixMeans

LEMMA PrefixesCompare ==
  ASSUME NEW r \in Strings, NEW u \in Strings, NEW t \in Strings,
         IsPrefix(r, t), IsPrefix(u, t), Len(r) <= Len(u)
  PROVE  IsPrefix(r, u)
<1>1. Len(r) \in Nat /\ Len(u) \in Nat /\ Len(t) \in Nat
  BY DEF Strings
<1>2. (\A i \in 1 .. Len(r) : r[i] = t[i]) /\ (\A i \in 1 .. Len(u) : u[i] = t[i])
  BY PrefixMeans
<1>3. \A i \in 1 .. Len(r) : r[i] = u[i]
  BY <1>1, <1>2
<1> QED
  BY <1>3, PrefixMeans

-----------------------------------------------------------------------------
(* The tree the compressed machine is made of.                             *)
BuiltTree ==
  /\ TrieInv /\ FiniteInv /\ MovedInv /\ MarkedRight /\ AvoidFailToLeaves
  /\ \A n \in Nodes \ {Root} : failure[n] = Root \/ ~ IsLeaf(failure[n])

LEMMA TreeIsBuilt ==
  ASSUME TreeInv, MarkInv, AvoidFailToLeaves, phase \notin {"enter", "failures", "avoid"}
  PROVE  BuiltTree
  BY DEF TreeInv, MarkInv, BuiltInv, BuiltTree

LEMMA NodeFacts ==
  ASSUME BuiltTree
  PROVE  /\ Root \in Nodes /\ Root \in Strings /\ Len(Root) = 0 /\ IsFiniteSet(Nodes)
         /\ \A n \in Nodes : /\ n \in Strings /\ Len(n) \in Nat /\ (Len(n) = 0 => n = Root)
                             /\ gotos[n] \in Seq(Nodes) /\ NumGotos(n) \in Nat
                             /\ DOMAIN gotos[n] = 1 .. NumGotos(n)
                             /\ hasFailInto[n] \in Nat
                             /\ failure[n] \in Nodes /\ Children(n) \subseteq Nodes
                             /\ IsSuffix(failure[n], n)
                             /\ IsLeaf(n) <=> NumGotos(n) = 0
                             /\ IsLeaf(n) <=> Children(n) = {}
         /\ failure[Root] = Root
<1>1. Root \in Nodes /\ Root \in Strings /\ Len(Root) = 0 /\ IsFiniteSet(Nodes) /\ failure[Root] = Root
  BY SuffixSelf DEF BuiltTree, TrieInv, TrieShape, FiniteInv, MovedInv, Root
<1>2. ASSUME NEW n \in Nodes
      PROVE  /\ n \in Strings /\ Len(n) \in Nat /\ (Len(n) = 0 => n = Root)
             /\ gotos[n] \in Seq(Nodes) /\ NumGotos(n) \in Nat
             /\ DOMAIN gotos[n] = 1 .. NumGotos(n)
             /\ hasFailInto[n] \in Nat
             /\ failure[n] \in Nodes /\ Children(n) \subseteq Nodes
  BY <1>1 DEF BuiltTree, TrieInv, TrieShape, FiniteInv, MovedInv, Root, Strings, NumGotos
<1>3. ASSUME NEW n \in Nodes PROVE IsSuffix(failure[n], n)
  <2>1. CASE n = Root
    BY <1>1, <2>1, SuffixSelf
  <2>2. CASE n # Root
    BY <2>2 DEF BuiltTree, MovedInv
  <2> QED
    BY <2>1, <2>2
<1>4. ASSUME NEW n \in Nodes
      PROVE  (IsLeaf(n) <=> NumGotos(n) = 0) /\ (IsLeaf(n) <=> Children(n) = {})
  <2>1. gotos[n] \in Seq(Nodes) /\ (gotos[n] = <<>> <=> Len(gotos[n]) = 0)
    BY <1>2, EmptySeq
  <2>2. gotos[n] = <<>> => Children(n) = {}
    BY ToSetEmpty DEF Children
  <2>3. gotos[n] # <<>> => gotos[n][1] \in Children(n)
    BY <2>1 DEF Children, ToSet
  <2> QED
    BY <2>1, <2>2, <2>3 DEF IsLeaf, NumGotos
<1> QED
  BY <1>1, <1>2, <1>3, <1>4

LEMMA OneChild ==
  ASSUME BuiltTree, NEW m \in Nodes, NumGotos(m) = 1
  PROVE  /\ Head(gotos[m]) \in Nodes /\ Children(m) = {Head(gotos[m])}
         /\ Len(Head(gotos[m])) = Len(m) + 1
<1>1. /\ gotos[m] \in Seq(Nodes) /\ DOMAIN gotos[m] = {1} /\ Head(gotos[m]) = gotos[m][1]
      /\ gotos[m][1] \in Nodes
  BY NodeFacts DEF NumGotos
<1>2. Children(m) = {gotos[m][1]}
  BY <1>1 DEF Children, ToSet
<1>3. TrieInv
  BY DEF BuiltTree
<1> QED
  BY <1>1, <1>2, <1>3, ChildMeans

-----------------------------------------------------------------------------
(* A compressed path goes on along single gotos, so it ends.               *)
PathStep(h, n, m) == IF m # n /\ EndsPath(m) THEN <<m>> ELSE <<m>> \o h[Head(gotos[m])]

LEMMA PathStepUses ==
  ASSUME BuiltTree, NEW n \in Nodes, NumGotos(n) = 1, NEW m \in Nodes, NEW h, NEW k,
         \A c \in Nodes : Len(c) = Len(m) + 1 => h[c] = k[c]
  PROVE  PathStep(h, n, m) = PathStep(k, n, m)
<1>1. CASE m # n /\ EndsPath(m)
  BY <1>1 DEF PathStep
<1>2. CASE ~ (m # n /\ EndsPath(m))
  <2>1. NumGotos(m) = 1
    BY <1>2 DEF EndsPath
  <2>2. Head(gotos[m]) \in Nodes /\ Len(Head(gotos[m])) = Len(m) + 1
    BY <2>1, OneChild
  <2>3. h[Head(gotos[m])] = k[Head(gotos[m])]
    BY <2>2
  <2> QED
    BY <1>2, <2>3 DEF PathStep
<1> QED
  BY <1>1, <1>2

LEMMA PathExists ==
  ASSUME BuiltTree, NEW n \in Nodes, NumGotos(n) = 1
  PROVE  \E p : p = [m \in Nodes |-> PathStep(p, n, m)]
<1>1. PICK l \in Nodes : \A m \in Nodes : Len(m) <= Len(l)
  BY DEF BuiltTree, FiniteInv
<1> DEFINE b == Len(l)
           UpTo(h, k) == \A m \in Nodes : b - Len(m) < k => h[m] = PathStep(h, n, m)
           P == {k \in Nat : \E h : UpTo(h, k)}
<1>2. \A m \in Nodes : Len(m) \in Nat /\ Len(m) <= b
  BY <1>1, NodeFacts
<1> HIDE DEF b
<1>3. b \in Nat
  BY NodeFacts DEF b
<1>4. 0 \in P
  <2>1. UpTo(<<>>, 0)
    BY <1>2, <1>3
  <2> HIDE DEF UpTo
  <2> QED
    BY <2>1
<1>5. ASSUME NEW k \in Nat, k \in P PROVE k + 1 \in P
  <2>1. PICK h : UpTo(h, k)
    BY <1>5
  <2> DEFINE j == [m \in Nodes |-> IF b - Len(m) < k THEN h[m] ELSE PathStep(h, n, m)]
  <2>2. ASSUME NEW m \in Nodes, b - Len(m) < k + 1 PROVE j[m] = PathStep(j, n, m)
    <3>1. j[m] = PathStep(h, n, m)
      BY <2>1
    <3>2. \A c \in Nodes : Len(c) = Len(m) + 1 => h[c] = j[c]
      <4> SUFFICES ASSUME NEW c \in Nodes, Len(c) = Len(m) + 1 PROVE h[c] = j[c]
        OBVIOUS
      <4>1. b - Len(c) < k
        BY <1>2, <1>3, <2>2
      <4> QED
        BY <4>1
    <3> HIDE DEF j
    <3>3. PathStep(h, n, m) = PathStep(j, n, m)
      BY <3>2, PathStepUses
    <3> QED
      BY <3>1, <3>3
  <2> HIDE DEF j
  <2>3. UpTo(j, k + 1)
    BY <2>2
  <2> HIDE DEF UpTo
  <2> QED
    BY <2>3
<1> HIDE DEF P
<1>6. b + 1 \in P
  BY <1>3, <1>4, <1>5, Induction
<1>7. PICK h : \A m \in Nodes : b - Len(m) < b + 1 => h[m] = PathStep(h, n, m)
  BY <1>6 DEF P
<1> DEFINE p == [m \in Nodes |-> h[m]]
<1>8. ASSUME NEW m \in Nodes PROVE p[m] = PathStep(p, n, m)
  <2>1. p[m] = h[m] /\ \A c \in Nodes : h[c] = p[c]
    OBVIOUS
  <2>2. b - Len(m) < b + 1
    BY <1>2, <1>3
  <2>3. h[m] = PathStep(h, n, m)
    BY <1>7, <2>2
  <2> HIDE DEF p
  <2>4. PathStep(h, n, m) = PathStep(p, n, m)
    BY <2>1, PathStepUses
  <2> QED
    BY <2>1, <2>3, <2>4
<1>9. p = [m \in Nodes |-> PathStep(p, n, m)]
  BY <1>8
<1> QED
  BY <1>9

(* The path from m to its end.                                             *)
IsPathFrom(p, m) ==
  /\ p \in Seq(Nodes) /\ Len(p) \in Nat \ {0} /\ p[1] = m
  /\ \A i \in 1 .. Len(p) : Len(p[i]) = Len(m) + i - 1 /\ IsPrefix(m, p[i])
  /\ \A i \in 1 .. Len(p) - 1 : NumGotos(p[i]) = 1 /\ Children(p[i]) = {p[i + 1]}
  /\ \A i \in 2 .. Len(p) - 1 : ~ Marked(p[i])
  /\ EndsPath(p[Len(p)])
  /\ \A k \in Nodes : IsPrefix(m, k) =>
       (\E i \in 1 .. Len(p) - 1 : k = p[i]) \/ IsPrefix(p[Len(p)], k)

LEMMA PathGrows ==
  ASSUME BuiltTree, NEW m \in Nodes, NumGotos(m) = 1, NEW q,
         IsPathFrom(q, Head(gotos[m])), Len(q) > 1 => ~ Marked(Head(gotos[m]))
  PROVE  IsPathFrom(<<m>> \o q, m) /\ Len(<<m>> \o q) = Len(q) + 1
<1> DEFINE c == Head(gotos[m])
           p == <<m>> \o q
<1>1. c \in Nodes /\ Children(m) = {c} /\ Len(c) = Len(m) + 1 /\ Len(m) \in Nat
  BY OneChild, NodeFacts
<1>2. /\ q \in Seq(Nodes) /\ Len(q) \in Nat \ {0} /\ q[1] = c
      /\ \A i \in 1 .. Len(q) : Len(q[i]) = Len(c) + i - 1 /\ IsPrefix(c, q[i])
      /\ \A i \in 1 .. Len(q) - 1 : NumGotos(q[i]) = 1 /\ Children(q[i]) = {q[i + 1]}
      /\ \A i \in 2 .. Len(q) - 1 : ~ Marked(q[i])
      /\ EndsPath(q[Len(q)])
      /\ \A k \in Nodes : IsPrefix(c, k) =>
           (\E i \in 1 .. Len(q) - 1 : k = q[i]) \/ IsPrefix(q[Len(q)], k)
  BY DEF IsPathFrom
<1>3. /\ p \in Seq(Nodes) /\ Len(p) = Len(q) + 1 /\ p[1] = m
      /\ \A i \in 1 .. Len(q) : p[i + 1] = q[i]
  <2>1. <<m>> \in Seq(Nodes) /\ Len(<<m>>) = 1 /\ <<m>>[1] = m
    OBVIOUS
  <2>2. /\ p \in Seq(Nodes) /\ Len(p) = 1 + Len(q)
        /\ \A i \in 1 .. 1 + Len(q) : p[i] = IF i <= 1 THEN <<m>>[i] ELSE q[i - 1]
    BY <1>2, <2>1, ConcatProperties
  <2> HIDE DEF p
  <2>3. ASSUME NEW i \in 1 .. Len(q) PROVE p[i + 1] = q[i]
    <3>1. i + 1 \in 1 .. 1 + Len(q) /\ ~ (i + 1 <= 1) /\ (i + 1) - 1 = i
      BY <1>2
    <3> QED
      BY <2>2, <3>1
  <2>4. p[1] = m
    <3>1. 1 \in 1 .. 1 + Len(q)
      BY <1>2
    <3> QED
      BY <2>1, <2>2, <3>1
  <2> QED
    BY <1>2, <2>2, <2>3, <2>4
<1> HIDE DEF c, p
<1>4. \A i \in 1 .. Len(p) : i = 1 \/ (i - 1 \in 1 .. Len(q) /\ p[i] = q[i - 1])
  BY <1>2, <1>3
<1>5. ASSUME NEW i \in 1 .. Len(p) PROVE Len(p[i]) = Len(m) + i - 1 /\ IsPrefix(m, p[i])
  <2>1. CASE i = 1
    BY <1>1, <1>3, <2>1, NodeFacts, PrefixSelf
  <2>2. CASE i - 1 \in 1 .. Len(q) /\ p[i] = q[i - 1]
    <3>1. Len(p[i]) = Len(m) + i - 1 /\ IsPrefix(c, p[i]) /\ p[i] \in Nodes
      <4> DEFINE j == i - 1
                 a == Len(m)
      <4>1. j \in 1 .. Len(q) /\ p[i] = q[j] /\ q[j] \in Nodes
        BY <1>2, <2>2
      <4>2. Len(q[j]) = Len(c) + j - 1 /\ IsPrefix(c, q[j])
        BY <1>2, <4>1
      <4>3. Len(c) = a + 1 /\ a \in Nat /\ i = j + 1 /\ j \in Int
        BY <1>1, <1>2, <4>1
      <4> HIDE DEF j, a
      <4>4. Len(c) + j - 1 = a + i - 1
        BY <4>3
      <4> QED
        BY <4>1, <4>2, <4>4 DEF a
    <3>2. IsPrefix(m, c)
      BY <1>1, ChildMeans DEF BuiltTree
    <3>3. m \in Strings /\ c \in Strings /\ p[i] \in Strings
      BY <1>1, <3>1, NodeFacts
    <3> QED
      BY <3>1, <3>2, <3>3, PrefixTransitive
  <2> QED
    BY <1>4, <2>1, <2>2
<1>6. ASSUME NEW i \in 1 .. Len(p) - 1
      PROVE  NumGotos(p[i]) = 1 /\ Children(p[i]) = {p[i + 1]}
  <2>1. i \in 1 .. Len(q) /\ p[i + 1] = q[i] /\ i \in 1 .. Len(p)
    BY <1>2, <1>3
  <2>2. CASE i = 1
    BY <1>1, <1>2, <1>3, <2>1, <2>2
  <2>3. CASE i # 1
    <3>1. i - 1 \in 1 .. Len(q) - 1 /\ p[i] = q[i - 1] /\ (i - 1) + 1 = i
      BY <1>2, <1>4, <2>1, <2>3
    <3> QED
      BY <1>2, <2>1, <3>1
  <2> QED
    BY <2>2, <2>3
<1>7. ASSUME NEW i \in 2 .. Len(p) - 1 PROVE ~ Marked(p[i])
  <2>1. i - 1 \in 1 .. Len(q) - 1 /\ p[i] = q[i - 1]
    <3>1. i \in 1 .. Len(p) /\ i # 1 /\ i - 1 <= Len(q) - 1 /\ i - 1 >= 1 /\ i \in Nat
      BY <1>2, <1>3
    <3> QED
      BY <1>2, <1>4, <3>1
  <2>2. CASE i = 2
    <3>1. Len(q) > 1
      BY <1>2, <2>1
    <3> QED
      BY <1>2, <2>1, <2>2, <3>1 DEF c
  <2>3. CASE i # 2
    <3>1. i - 1 \in 2 .. Len(q) - 1
      BY <1>2, <2>1, <2>3
    <3> QED
      BY <1>2, <2>1, <3>1
  <2> QED
    BY <2>2, <2>3
<1>8. p[Len(p)] = q[Len(q)]
  BY <1>2, <1>3
<1>9. ASSUME NEW k \in Nodes, IsPrefix(m, k)
      PROVE  (\E i \in 1 .. Len(p) - 1 : k = p[i]) \/ IsPrefix(p[Len(p)], k)
  <2>1. CASE k = m
    <3>1. 1 \in 1 .. Len(p) - 1
      BY <1>2, <1>3
    <3> QED
      BY <1>3, <2>1, <3>1
  <2>2. CASE k # m
    <3>1. IsPrefix(c, k)
      BY <1>1, <1>9, <2>2, ChildBelow DEF BuiltTree
    <3>2. CASE \E i \in 1 .. Len(q) - 1 : k = q[i]
      <4>1. PICK i \in 1 .. Len(q) - 1 : k = q[i]
        BY <3>2
      <4>2. i \in 1 .. Len(q) /\ i + 1 \in 1 .. Len(p) - 1
        BY <1>2, <1>3
      <4> QED
        BY <1>3, <4>1, <4>2
    <3> QED
      BY <1>2, <1>8, <3>1, <3>2
  <2> QED
    BY <2>1, <2>2
<1>10. IsPathFrom(p, m)
  <2>1. EndsPath(p[Len(p)]) /\ Len(p) \in Nat \ {0}
    BY <1>2, <1>3, <1>8
  <2> QED
    BY <1>3, <1>5, <1>6, <1>7, <1>9, <2>1 DEF IsPathFrom
<1> QED
  BY <1>3, <1>10 DEF p

LEMMA PathShape ==
  ASSUME BuiltTree, NEW n \in Nodes, NumGotos(n) = 1
  PROVE  IsPathFrom(Path(n), n) /\ Len(Path(n)) >= 2
<1> DEFINE w == CHOOSE p : p = [m \in Nodes |-> PathStep(p, n, m)]
<1>1. w = [m \in Nodes |-> PathStep(w, n, m)]
  BY PathExists
<1>2. Path(n) = w[n]
  BY DEF Path, PathStep
<1> HIDE DEF w
<1>3. \A m \in Nodes : w[m] = PathStep(w, n, m)
  BY <1>1
<1>4. PICK l \in Nodes : \A m \in Nodes : Len(m) <= Len(l)
  BY DEF BuiltTree, FiniteInv
<1> DEFINE b == Len(l)
           Good(m) == /\ IsPathFrom(w[m], m)
                      /\ (m # n /\ EndsPath(m)) => Len(w[m]) = 1
                      /\ (m = n \/ ~ EndsPath(m)) => Len(w[m]) >= 2
           P == {k \in Nat : \A m \in Nodes : Len(n) <= Len(m) /\ b - Len(m) < k => Good(m)}
<1>5. b \in Nat /\ \A m \in Nodes : Len(m) \in Nat /\ Len(m) <= b
  BY <1>4, NodeFacts
<1> HIDE DEF b
<1>6. 0 \in P
  BY <1>5
<1>7. ASSUME NEW k \in Nat, k \in P PROVE k + 1 \in P
  <2> SUFFICES ASSUME NEW m \in Nodes, Len(n) <= Len(m), b - Len(m) < k + 1 PROVE Good(m)
    OBVIOUS
  <2>1. CASE m # n /\ EndsPath(m)
    <3>1. w[m] = <<m>> /\ Len(<<m>>) = 1 /\ <<m>>[1] = m /\ <<m>> \in Seq(Nodes)
      <4>1. w[m] = PathStep(w, n, m)
        BY <1>3
      <4>2. w[m] = <<m>>
        BY <2>1, <4>1, Zenon DEF PathStep
      <4> QED
        BY <4>2
    <3> DEFINE p == <<m>>
    <3>2. IsPathFrom(p, m)
      <4>1. /\ p \in Seq(Nodes) /\ Len(p) = 1 /\ p[1] = m /\ p[Len(p)] = m
        BY <3>1
      <4> HIDE DEF p
      <4>2. \A i \in 1 .. Len(p) : Len(p[i]) = Len(m) + i - 1 /\ IsPrefix(m, p[i])
        BY <1>5, <4>1, NodeFacts, PrefixSelf
      <4>3. 1 .. Len(p) - 1 = {} /\ 2 .. Len(p) - 1 = {}
        BY <4>1
      <4> QED
        BY <2>1, <4>1, <4>2, <4>3 DEF IsPathFrom
    <3> QED
      BY <2>1, <3>1, <3>2
  <2>2. CASE ~ (m # n /\ EndsPath(m))
    <3>1. NumGotos(m) = 1
      BY <2>2 DEF EndsPath
    <3> DEFINE c == Head(gotos[m])
    <3>2. c \in Nodes /\ Len(c) = Len(m) + 1
      BY <3>1, OneChild
    <3> HIDE DEF c
    <3>3. Good(c) /\ c # n
      <4>1. b - Len(c) < k /\ Len(n) <= Len(c) /\ Len(c) # Len(n)
        BY <1>5, <3>2
      <4> HIDE DEF Good
      <4> QED
        BY <1>7, <3>2, <4>1
    <3>4. w[m] = <<m>> \o w[c]
      BY <1>3, <2>2 DEF PathStep, c
    <3>5. Len(w[c]) > 1 => ~ Marked(c)
      <4>1. EndsPath(c) => Len(w[c]) = 1
        BY <3>3
      <4>2. Marked(c) => EndsPath(c)
        BY Zenon DEF EndsPath
      <4>3. Len(w[c]) = 1 => ~ (Len(w[c]) > 1)
        OBVIOUS
      <4> QED
        BY <4>1, <4>2, <4>3, Zenon
    <3>6. IsPathFrom(<<m>> \o w[c], m) /\ Len(<<m>> \o w[c]) = Len(w[c]) + 1
      BY <3>1, <3>3, <3>5, PathGrows DEF c
    <3>7. Len(w[c]) \in Nat \ {0}
      BY <3>3 DEF IsPathFrom
    <3> QED
      BY <2>2, <3>4, <3>6, <3>7
  <2> QED
    BY <2>1, <2>2
<1> HIDE DEF P
<1>8. b + 1 \in P
  BY <1>5, <1>6, <1>7, Induction
<1>9. Good(n)
  <2>1. b - Len(n) < b + 1 /\ Len(n) <= Len(n)
    BY <1>5
  <2> HIDE DEF Good
  <2> QED
    BY <1>8, <2>1 DEF P
<1> QED
  BY <1>2, <1>9

(* The nodes of a path are the one it starts from, which may have a state, *)
(* nodes that have none, and the one it ends with, which has one unless it *)
(* is a leaf.                                                              *)
PathIs(n, p, L) ==
  /\ p \in Seq(Nodes) /\ L \in Nat /\ L >= 2 /\ DOMAIN p = 1 .. L /\ p[1] = n
  /\ Last(p) = p[L] /\ p[L] \in Nodes /\ n \in Strings
  /\ \A i \in 1 .. L : /\ p[i] \in Nodes /\ p[i] \in Strings
                       /\ Len(p[i]) = Len(n) + i - 1 /\ IsPrefix(n, p[i])
  /\ \A i \in 1 .. L - 1 : NumGotos(p[i]) = 1 /\ Children(p[i]) = {p[i + 1]}
  /\ \A i \in 2 .. L : p[i] # Root /\ Front(p[i]) = p[i - 1] /\ NumGotos(p[i - 1]) = 1
  /\ \A i \in 2 .. L - 1 : p[i] \notin StateNodes
  /\ IsLeaf(p[L]) <=> ~ Continues(n)
  /\ ~ IsLeaf(p[L]) => p[L] \in StateNodes
  /\ \A k \in Nodes : IsPrefix(n, k) =>
       (\E i \in 1 .. L - 1 : k = p[i]) \/ IsPrefix(p[L], k)

LEMMA PathFacts ==
  ASSUME BuiltTree, NEW n \in Nodes, NumGotos(n) = 1, NEW p, p = Path(n), NEW L, L = Len(p)
  PROVE  PathIs(n, p, L)
<1>1. IsPathFrom(p, n) /\ L >= 2
  BY PathShape
<1>2. /\ p \in Seq(Nodes) /\ L \in Nat /\ L >= 2 /\ DOMAIN p = 1 .. L /\ p[1] = n
      /\ Last(p) = p[L] /\ p[L] \in Nodes /\ EndsPath(p[L])
  BY <1>1 DEF IsPathFrom, Last
<1>3. \A i \in 1 .. L : /\ p[i] \in Nodes /\ p[i] \in Strings
                         /\ Len(p[i]) = Len(n) + i - 1 /\ IsPrefix(n, p[i])
  BY <1>1, <1>2, NodeFacts DEF IsPathFrom
<1>4. \A i \in 1 .. L - 1 : NumGotos(p[i]) = 1 /\ Children(p[i]) = {p[i + 1]}
  BY <1>1 DEF IsPathFrom
<1>5. ASSUME NEW i \in 2 .. L
      PROVE  p[i] # Root /\ Front(p[i]) = p[i - 1] /\ NumGotos(p[i - 1]) = 1
  <2>1. i - 1 \in 1 .. L - 1 /\ (i - 1) + 1 = i /\ i - 1 \in 1 .. L
    BY <1>2
  <2>2. p[i] \in Children(p[i - 1]) /\ NumGotos(p[i - 1]) = 1 /\ p[i - 1] \in Nodes
    BY <1>3, <1>4, <2>1
  <2> QED
    BY <2>2, ChildMeans DEF BuiltTree
<1>6. ASSUME NEW i \in 2 .. L - 1 PROVE p[i] \notin StateNodes
  <2>1. i \in 2 .. L /\ i \in 1 .. L - 1
    BY <1>2
  <2>2. ~ Marked(p[i])
    BY <1>1 DEF IsPathFrom
  <2>3. ~ IsBranch(p[i]) /\ ~ IsBranch(Front(p[i])) /\ p[i] # Root
    BY <1>4, <1>5, <2>1 DEF IsBranch
  <2> QED
    BY <2>2, <2>3, Zenon DEF StateNodes
<1>7. p[L] # Root /\ NumGotos(p[L]) \in Nat /\ (IsLeaf(p[L]) <=> NumGotos(p[L]) = 0)
  BY <1>2, <1>5, NodeFacts
<1>8. IsLeaf(p[L]) => ~ Marked(p[L]) /\ ~ IsBranch(p[L])
  <2>1. IsLeaf(p[L]) => hasFailInto[p[L]] = 0
    BY <1>2, <1>7 DEF BuiltTree, MarkedRight
  <2> QED
    BY <1>7, <2>1 DEF Marked, IsBranch
<1>9. ~ IsLeaf(p[L]) => Marked(p[L]) \/ IsBranch(p[L])
  BY <1>2, <1>7 DEF EndsPath, IsBranch
<1>10. IsLeaf(p[L]) <=> ~ Continues(n)
  BY <1>2, <1>8, <1>9, Zenon DEF Continues
<1>11. ~ IsLeaf(p[L]) => p[L] \in StateNodes
  BY <1>2, <1>9, Zenon DEF StateNodes
<1>12. \A k \in Nodes : IsPrefix(n, k) =>
         (\E i \in 1 .. L - 1 : k = p[i]) \/ IsPrefix(p[L], k)
  BY <1>1 DEF IsPathFrom
<1>13. n \in Strings
  BY NodeFacts
<1> QED
  BY <1>2, <1>3, <1>4, <1>5, <1>6, <1>10, <1>11, <1>12, <1>13 DEF PathIs

-----------------------------------------------------------------------------
(* A pass over the tree: the head of the queue is replaced by nodes below  *)
(* it, and no node of the queue is ever below another.                     *)
Covers(q, k) == \E i \in DOMAIN q : IsPrefix(q[i], k)

Replaced(r, q, g, S) ==
  /\ r \in Seq(S) /\ Apart(r)
  /\ \A i \in DOMAIN r : r[i] \in S /\
       ((\E j \in DOMAIN q : j # 1 /\ r[i] = q[j]) \/ (\E j \in DOMAIN g : r[i] = g[j]))
  /\ \A k \in S : Covers(r, k) <=> Covers(q, k) /\ (IsPrefix(q[1], k) => Covers(g, k))

LEMMA HeadReplaced ==
  ASSUME NEW S \in SUBSET Strings, NEW q \in Seq(S), q # <<>>, NEW g \in Seq(S),
         Apart(q), Apart(g), \A i \in DOMAIN g : IsPrefix(q[1], g[i]),
         NEW r, r = Tail(q) \o g
  PROVE  Replaced(r, q, g, S)
<1>1. /\ r \in Seq(S) /\ DOMAIN r = 1 .. (Len(q) - 1) + Len(g)
      /\ Len(q) \in Nat \ {0} /\ Len(g) \in Nat
      /\ DOMAIN q = 1 .. Len(q) /\ DOMAIN g = 1 .. Len(g)
      /\ \A i \in 1 .. (Len(q) - 1) + Len(g) :
           r[i] = IF i < Len(q) THEN q[i + 1] ELSE g[i - (Len(q) - 1)]
  BY QueueMoves
<1>2. /\ \A i \in DOMAIN q : q[i] \in S /\ q[i] \in Strings /\ Len(q[i]) \in Nat
      /\ \A i \in DOMAIN g : g[i] \in S /\ g[i] \in Strings /\ Len(g[i]) \in Nat
      /\ 1 \in DOMAIN q /\ \A k \in S : k \in Strings
  BY <1>1 DEF Strings
<1>3. \A i \in DOMAIN r :
        \/ i + 1 \in DOMAIN q /\ i + 1 # 1 /\ r[i] = q[i + 1] /\ i < Len(q)
        \/ i - (Len(q) - 1) \in DOMAIN g /\ r[i] = g[i - (Len(q) - 1)] /\ i >= Len(q)
  <2> SUFFICES ASSUME NEW i \in DOMAIN r
               PROVE  \/ i + 1 \in DOMAIN q /\ i + 1 # 1 /\ r[i] = q[i + 1] /\ i < Len(q)
                      \/ i - (Len(q) - 1) \in DOMAIN g /\ r[i] = g[i - (Len(q) - 1)]
                         /\ i >= Len(q)
    OBVIOUS
  <2>1. CASE i < Len(q)
    BY <1>1, <2>1
  <2>2. CASE i >= Len(q)
    BY <1>1, <2>2
  <2> QED
    BY <1>1, <2>1, <2>2
<1>4. ASSUME NEW i \in DOMAIN q, i # 1 PROVE \E a \in DOMAIN r : r[a] = q[i]
  <2>1. i - 1 \in 1 .. (Len(q) - 1) + Len(g) /\ i - 1 < Len(q) /\ (i - 1) + 1 = i
    BY <1>1, <1>4
  <2> QED
    BY <1>1, <2>1
<1>5. ASSUME NEW i \in DOMAIN g PROVE \E a \in DOMAIN r : r[a] = g[i]
  <2> DEFINE a == (Len(q) - 1) + i
  <2>1. a \in 1 .. (Len(q) - 1) + Len(g) /\ ~ (a < Len(q)) /\ a - (Len(q) - 1) = i
    BY <1>1
  <2> HIDE DEF a
  <2> QED
    BY <1>1, <2>1
(* A node below the head is below no other node of the queue.              *)
<1>6. ASSUME NEW i \in DOMAIN q, i # 1, NEW k \in S, IsPrefix(q[i], k)
      PROVE  ~ IsPrefix(q[1], k)
  <2> SUFFICES ASSUME IsPrefix(q[1], k) PROVE FALSE
    OBVIOUS
  <2>1. CASE Len(q[i]) <= Len(q[1])
    <3>1. IsPrefix(q[i], q[1])
      BY <1>2, <1>6, <2>1, PrefixesCompare
    <3> QED
      BY <1>2, <1>6, <3>1 DEF Apart
  <2>2. CASE Len(q[1]) <= Len(q[i])
    <3>1. IsPrefix(q[1], q[i])
      BY <1>2, <1>6, <2>2, PrefixesCompare
    <3> QED
      BY <1>2, <1>6, <3>1 DEF Apart
  <2> QED
    BY <1>2, <2>1, <2>2
<1>7. ASSUME NEW i \in DOMAIN r, NEW j \in DOMAIN r, IsPrefix(r[i], r[j])
      PROVE  i = j
  <2>1. CASE i < Len(q) /\ j < Len(q)
    <3>1. i + 1 \in DOMAIN q /\ j + 1 \in DOMAIN q /\ r[i] = q[i + 1] /\ r[j] = q[j + 1]
      BY <1>1, <1>3, <2>1
    <3>2. i + 1 = j + 1
      BY <1>7, <3>1 DEF Apart
    <3> QED
      BY <1>1, <3>2
  <2>2. CASE i >= Len(q) /\ j >= Len(q)
    <3>1. /\ i - (Len(q) - 1) \in DOMAIN g /\ r[i] = g[i - (Len(q) - 1)]
          /\ j - (Len(q) - 1) \in DOMAIN g /\ r[j] = g[j - (Len(q) - 1)]
      BY <1>1, <1>3, <2>2
    <3>2. i - (Len(q) - 1) = j - (Len(q) - 1)
      BY <1>7, <3>1 DEF Apart
    <3> QED
      BY <1>1, <3>2
  <2>3. CASE i < Len(q) /\ j >= Len(q)
    <3>1. /\ i + 1 \in DOMAIN q /\ i + 1 # 1 /\ r[i] = q[i + 1]
          /\ j - (Len(q) - 1) \in DOMAIN g /\ r[j] = g[j - (Len(q) - 1)]
      BY <1>1, <1>3, <2>3
    <3> QED
      BY <1>2, <1>6, <1>7, <3>1
  <2>4. CASE i >= Len(q) /\ j < Len(q)
    <3>1. /\ j + 1 \in DOMAIN q /\ j + 1 # 1 /\ r[j] = q[j + 1] /\ r[j] \in S
          /\ i - (Len(q) - 1) \in DOMAIN g /\ r[i] = g[i - (Len(q) - 1)] /\ r[i] \in S
      BY <1>1, <1>2, <1>3, <2>4
    <3>2. IsPrefix(q[1], r[j])
      BY <1>2, <1>7, <3>1, PrefixTransitive
    <3>3. IsPrefix(q[j + 1], q[1]) \/ IsPrefix(q[1], q[j + 1])
      BY <3>1, <3>2
    <3>4. IsPrefix(q[1], q[j + 1])
      BY <3>1, <3>2
    <3> QED
      BY <1>2, <3>1, <3>4 DEF Apart
  <2> QED
    BY <1>1, <2>1, <2>2, <2>3, <2>4
<1>8. ASSUME NEW i \in DOMAIN r
      PROVE  r[i] \in S /\
               ((\E j \in DOMAIN q : j # 1 /\ r[i] = q[j]) \/ (\E j \in DOMAIN g : r[i] = g[j]))
  BY <1>2, <1>3
<1>9. ASSUME NEW k \in S, Covers(r, k)
      PROVE  Covers(q, k) /\ (IsPrefix(q[1], k) => Covers(g, k))
  <2>1. PICK i \in DOMAIN r : IsPrefix(r[i], k)
    BY <1>9 DEF Covers
  <2>2. CASE \E j \in DOMAIN q : j # 1 /\ r[i] = q[j]
    BY <1>6, <2>1, <2>2 DEF Covers
  <2>3. CASE \E j \in DOMAIN g : r[i] = g[j]
    <3>1. PICK j \in DOMAIN g : r[i] = g[j]
      BY <2>3
    <3>2. IsPrefix(q[1], g[j]) /\ IsPrefix(g[j], k)
      BY <2>1, <3>1
    <3>3. IsPrefix(q[1], k)
      BY <1>2, <3>2, PrefixTransitive
    <3> QED
      BY <1>2, <3>2, <3>3 DEF Covers
  <2> QED
    BY <1>8, <2>2, <2>3
<1>10. ASSUME NEW k \in S, Covers(q, k), IsPrefix(q[1], k) => Covers(g, k)
       PROVE  Covers(r, k)
  <2>1. CASE IsPrefix(q[1], k)
    BY <1>5, <1>10, <2>1 DEF Covers
  <2>2. CASE ~ IsPrefix(q[1], k)
    BY <1>4, <1>10, <2>2 DEF Covers
  <2> QED
    BY <2>1, <2>2
<1>11. Apart(r)
  BY <1>7 DEF Apart
<1> QED
  BY <1>1, <1>8, <1>9, <1>10, <1>11 DEF Replaced

(* The tree does not change any more.                                      *)
LEMMA SameTree ==
  ASSUME gotos' = gotos, message' = message, failure' = failure, hasFailInto' = hasFailInto
  PROVE  /\ Nodes' = Nodes /\ StateNodes' = StateNodes /\ (BranchingRoot' <=> BranchingRoot)
         /\ \A n : /\ Children(n)' = Children(n) /\ (IsLeaf(n)' <=> IsLeaf(n))
                   /\ NumGotos(n)' = NumGotos(n) /\ Path(n)' = Path(n)
                   /\ (IsBranch(n)' <=> IsBranch(n)) /\ (Continues(n)' <=> Continues(n))
                   /\ RoomFor(n)' = RoomFor(n)
<1>1. Nodes' = Nodes /\ (BranchingRoot' <=> BranchingRoot)
  BY DEF Nodes, BranchingRoot, IsBranch, NumGotos
<1>2. ASSUME NEW n
      PROVE  /\ Children(n)' = Children(n) /\ (IsLeaf(n)' <=> IsLeaf(n))
             /\ NumGotos(n)' = NumGotos(n) /\ (IsBranch(n)' <=> IsBranch(n))
             /\ (Marked(n)' <=> Marked(n)) /\ (EndsPath(n)' <=> EndsPath(n))
  BY DEF IsBranch, NumGotos, Children, IsLeaf, EndsPath, Marked
<1>3. StateNodes' = StateNodes
  BY <1>1 DEF StateNodes, IsLeaf, IsBranch, NumGotos, Marked
<1>4. ASSUME NEW n PROVE Path(n)' = Path(n)
  BY <1>1 DEF Path, EndsPath, Marked, NumGotos
<1>5. ASSUME NEW n PROVE Continues(n)' <=> Continues(n)
  BY <1>4 DEF Continues, IsBranch, NumGotos, Marked
<1>6. ASSUME NEW n PROVE Surviving(n)' = Surviving(n)
  BY <1>1 DEF Surviving, IsLeaf
<1>7. ASSUME NEW n PROVE GotosToL12(n)' = GotosToL12(n)
  BY <1>1 DEF GotosToL12, Surviving, Children, IsLeaf
<1>8. ASSUME NEW n PROVE FailuresToL012(n)' = FailuresToL012(n)
  BY <1>4 DEF FailuresToL012
<1>9. ASSUME NEW n PROVE RoomFor(n)' = RoomFor(n)
  <2>1. CASE IsBranch(n)
    BY <1>2, <1>7, <2>1 DEF RoomFor
  <2>2. CASE ~ IsBranch(n)
    BY <1>2, <1>4, <1>8, <2>2 DEF RoomFor
  <2> QED
    BY <2>1, <2>2
<1> QED
  BY <1>1, <1>2, <1>3, <1>4, <1>5, <1>9

AtHead(n) == queue # <<>> /\ n = Head(queue)

LEMMA QueueHead ==
  ASSUME BuiltTree, GenQueue, NEW n, AtHead(n)
  PROVE  /\ n \in Nodes /\ n = queue[1] /\ 1 \in DOMAIN queue /\ n \in Waiting
         /\ Root \in Waiting <=> n = Root
         /\ IsLeaf(n) \/ n \in StateNodes
<1>1. n \in Nodes /\ n = queue[1] /\ 1 \in DOMAIN queue
  BY DEF GenQueue, AtHead
<1>2. IsPrefix(n, n) /\ n \in Strings /\ Root \in Strings /\ Root \in Nodes /\ Len(Root) = 0
      /\ Len(n) \in Nat
  BY <1>1, NodeFacts, PrefixSelf
<1>3. n \in Waiting
  BY <1>1, <1>2 DEF Waiting
<1>4. ASSUME Root \in Waiting PROVE n = Root
  <2>1. PICK i \in DOMAIN queue : IsPrefix(queue[i], Root)
    BY <1>4 DEF Waiting
  <2>2. queue[i] \in Nodes
    BY DEF GenQueue
  <2>3. queue[i] = Root
    <3>1. queue[i] \in Strings /\ Len(queue[i]) \in Nat /\ (Len(queue[i]) = 0 => queue[i] = Root)
      BY <2>2, NodeFacts
    <3>2. Len(queue[i]) <= Len(Root)
      BY <1>2, <2>1, <3>1, PrefixMeans
    <3> QED
      BY <1>2, <3>1, <3>2
  <2>4. IsPrefix(Root, n)
    BY <1>2, PrefixMeans
  <2> QED
    BY <1>1, <2>3, <2>4 DEF GenQueue, Apart
<1> QED
  BY <1>1, <1>3, <1>4 DEF GenQueue

LEMMA ChildrenApart ==
  ASSUME BuiltTree, NEW n \in Nodes
  PROVE  /\ gotos[n] \in Seq(Nodes) /\ Apart(gotos[n])
         /\ \A i \in DOMAIN gotos[n] : IsPrefix(n, gotos[n][i]) /\ gotos[n][i] \in Children(n)
         /\ \A k \in Nodes : IsPrefix(n, k) => (Covers(gotos[n], k) <=> k # n)
<1>1. TrieInv /\ FiniteInv /\ gotos[n] \in Seq(Nodes) /\ IsInjective(gotos[n])
  BY NodeFacts DEF BuiltTree, FiniteInv
<1>2. \A i \in DOMAIN gotos[n] : gotos[n][i] \in Children(n)
  BY DEF Children, ToSet
<1>3. \A m \in Children(n) : /\ IsPrefix(n, m) /\ Len(m) = Len(n) + 1 /\ m \in Strings
                             /\ Len(n) \in Nat /\ m \in Nodes
  BY <1>1, ChildMeans
<1>4. ASSUME NEW i \in DOMAIN gotos[n], NEW j \in DOMAIN gotos[n],
             IsPrefix(gotos[n][i], gotos[n][j])
      PROVE  i = j
  <2> DEFINE a == gotos[n][i]
             b == gotos[n][j]
  <2>1. a \in Strings /\ b \in Strings /\ Len(a) = Len(b) /\ IsPrefix(a, b)
    BY <1>2, <1>3, <1>4
  <2> HIDE DEF a, b
  <2>2. \A x \in 1 .. Len(a) : a[x] = b[x]
    BY <2>1, PrefixMeans
  <2>3. a = b
    BY <2>1, <2>2, EqualStrings
  <2> QED
    BY <1>1, <2>3 DEF IsInjective, a, b
<1>5. ASSUME NEW k \in Nodes, IsPrefix(n, k)
      PROVE  Covers(gotos[n], k) <=> k # n
  <2>1. ASSUME k # n PROVE Covers(gotos[n], k)
    <3>1. PICK m \in Children(n) : IsPrefix(m, k)
      BY <1>1, <1>5, <2>1, ChildBelow
    <3>2. PICK i \in DOMAIN gotos[n] : gotos[n][i] = m
      BY <3>1, InToSet DEF Children
    <3> QED
      BY <3>1, <3>2 DEF Covers
  <2>2. ASSUME Covers(gotos[n], k) PROVE k # n
    <3>1. PICK i \in DOMAIN gotos[n] : IsPrefix(gotos[n][i], k)
      BY <2>2 DEF Covers
    <3>2. gotos[n][i] \in Strings /\ Len(gotos[n][i]) = Len(n) + 1 /\ k \in Strings /\ Len(n) \in Nat
      BY <1>2, <1>3, NodeFacts
    <3>3. Len(gotos[n][i]) <= Len(k)
      BY <3>1, <3>2, PrefixMeans
    <3> QED
      BY <3>2, <3>3
  <2> QED
    BY <2>1, <2>2
<1> QED
  BY <1>1, <1>2, <1>3, <1>4, <1>5 DEF Apart

TreeSame == gotos' = gotos /\ message' = message /\ failure' = failure /\ hasFailInto' = hasFailInto

(* A branch gets its state, the first and second level their nodes.        *)
LEMMA BranchGenerated ==
  ASSUME BuiltTree, GenQueue, NEW n, AtHead(n), IsBranch(n),
         Generated(Waiting), GenerateBranch(n), TreeSame
  PROVE  Generated(Waiting)' /\ GenQueue'
<1>1. /\ n \in Nodes /\ n = queue[1] /\ 1 \in DOMAIN queue /\ n \in Waiting
      /\ Root \in Waiting <=> n = Root
      /\ IsLeaf(n) \/ n \in StateNodes
  BY QueueHead
<1>2. /\ Nodes' = Nodes /\ StateNodes' = StateNodes /\ (BranchingRoot' <=> BranchingRoot)
      /\ \A k : /\ Children(k)' = Children(k) /\ (IsLeaf(k)' <=> IsLeaf(k))
                /\ RoomFor(k)' = RoomFor(k)
  BY SameTree DEF TreeSame
<1>3. /\ room' = [m \in DOMAIN room \cup {n} |-> IF m = n THEN RoomFor(n) ELSE room[m]]
      /\ firstLevelNodes' = firstLevelNodes \cup (IF n = Root THEN Children(n) ELSE {})
      /\ secondLevelNodes' = secondLevelNodes \cup
                               (IF n # Root /\ n \in firstLevelNodes THEN Children(n) ELSE {})
      /\ id' = [m \in Nodes |-> IF m = n THEN "state"
                                ELSE IF m \in Children(n) THEN "child" ELSE id[m]]
      /\ queue' = Tail(queue) \o gotos[n]
  BY DEF GenerateBranch, RoomFor
<1>4. /\ gotos[n] \in Seq(Nodes) /\ Apart(gotos[n])
      /\ \A i \in DOMAIN gotos[n] : IsPrefix(n, gotos[n][i]) /\ gotos[n][i] \in Children(n)
      /\ \A k \in Nodes : IsPrefix(n, k) => (Covers(gotos[n], k) <=> k # n)
  BY <1>1, ChildrenApart
<1>5. /\ ~ IsLeaf(n) /\ n \in StateNodes /\ n \in Strings /\ Nodes \in SUBSET Strings
      /\ Len(n) \in Nat /\ (Len(n) = 0 => n = Root) /\ IsPrefix(n, n)
      /\ \A m \in Children(n) : m \in Nodes
  <2>1. NumGotos(n) # 0
    BY DEF IsBranch
  <2> QED
    BY <1>1, <2>1, NodeFacts, PrefixSelf
<1>6. \A m \in Children(n) : /\ m \in Nodes /\ m # n /\ Front(m) = n /\ IsPrefix(n, m) /\ m # Root
                             /\ Len(m) = Len(n) + 1
  <2> TAKE m \in Children(n)
  <2>1. Len(m) = Len(n) + 1 /\ m \in Nodes /\ Front(m) = n /\ IsPrefix(n, m) /\ m # Root
    BY <1>1, ChildMeans DEF BuiltTree
  <2> QED
    BY <1>5, <2>1
<1>7. /\ queue' \in Seq(Nodes) /\ Apart(queue')
      /\ \A i \in DOMAIN queue' : queue'[i] \in Nodes /\
           ((\E j \in DOMAIN queue : j # 1 /\ queue'[i] = queue[j])
            \/ (\E j \in DOMAIN gotos[n] : queue'[i] = gotos[n][j]))
      /\ \A k \in Nodes : Covers(queue', k) <=>
           Covers(queue, k) /\ (IsPrefix(n, k) => Covers(gotos[n], k))
  <2>1. queue \in Seq(Nodes) /\ Apart(queue) /\ Nodes \in SUBSET Strings /\ queue # <<>>
    BY <1>5 DEF GenQueue, AtHead
  <2>2. \A i \in DOMAIN gotos[n] : IsPrefix(queue[1], gotos[n][i])
    BY <1>1, <1>4
  <2>3. Replaced(queue', queue, gotos[n], Nodes)
    BY <1>3, <1>4, <2>1, <2>2, HeadReplaced
  <2> QED
    BY <1>1, <2>3 DEF Replaced
<1>8. Waiting' = Waiting \ {n}
  <2>1. Waiting' = {m \in Nodes : Covers(queue', m)} /\ Waiting = {m \in Nodes : Covers(queue, m)}
    BY <1>2 DEF Waiting, Covers
  <2> QED
    BY <1>4, <1>5, <1>7, <2>1
<1>9. \A m \in Children(n) : m \in Waiting
  BY <1>1, <1>6 DEF Waiting
<1>10. GenQueue'
  <2>1. \A i \in DOMAIN queue' : IsLeaf(queue'[i]) \/ queue'[i] \in StateNodes
    <3> TAKE i \in DOMAIN queue'
    <3>1. CASE \E j \in DOMAIN queue : j # 1 /\ queue'[i] = queue[j]
      BY <3>1 DEF GenQueue
    <3>2. CASE \E j \in DOMAIN gotos[n] : queue'[i] = gotos[n][j]
      <4>1. queue'[i] \in Nodes /\ Front(queue'[i]) = n
        BY <1>4, <1>6, <3>2
      <4> QED
        BY <4>1, Zenon DEF StateNodes
    <3> QED
      BY <1>7, <3>1, <3>2
  <2> QED
    BY <1>2, <1>7, <2>1 DEF GenQueue, Apart
<1>11. /\ id \in [Nodes -> {"none", "child", "path", "state"}]
       /\ \A m \in Waiting : id[m] \in {"none", "child"}
       /\ \A m \in Nodes \ Waiting : HasState(m) <=> m \in StateNodes
       /\ DOMAIN room = {m \in Nodes : HasState(m)}
       /\ \A m \in DOMAIN room : room[m] = RoomFor(m)
       /\ firstLevelNodes = IF BranchingRoot /\ Root \notin Waiting THEN Children(Root) ELSE {}
       /\ \A m \in secondLevelNodes : BranchingRoot /\ m \in Nodes /\ Len(m) = 2
       /\ BranchingRoot =>
            \A m \in StateNodes : Len(m) = 2 /\ Front(m) \notin Waiting => m \in secondLevelNodes
  BY DEF Generated
<1>12. /\ id' \in [Nodes -> {"none", "child", "path", "state"}]
       /\ \A m \in Waiting \ {n} : id'[m] \in {"none", "child"}
       /\ \A m \in Nodes : HasState(m)' <=> m = n \/ HasState(m)
  <2>1. \A m \in Children(n) : ~ HasState(m)
    BY <1>9, <1>11 DEF HasState
  <2>2. id' \in [Nodes -> {"none", "child", "path", "state"}]
    BY <1>3, <1>11
  <2>3. \A m \in Waiting \ {n} : m \in Nodes /\ id'[m] \in {"none", "child"}
    BY <1>3, <1>11 DEF Waiting
  <2>4. ASSUME NEW m \in Nodes PROVE HasState(m)' <=> m = n \/ HasState(m)
    BY <1>3, <1>6, <2>1 DEF HasState
  <2> QED
    BY <2>2, <2>3, <2>4
<1>13. \A m \in Nodes \ (Waiting \ {n}) : HasState(m)' <=> m \in StateNodes
  BY <1>5, <1>11, <1>12
<1>14. DOMAIN room' = {m \in Nodes : HasState(m)'} /\ \A m \in DOMAIN room' : room'[m] = RoomFor(m)
  BY <1>1, <1>3, <1>11, <1>12
<1>15. firstLevelNodes' = IF BranchingRoot /\ Root \notin Waiting \ {n} THEN Children(Root) ELSE {}
  <2>1. CASE n = Root
    BY <1>1, <1>3, <1>11, <2>1 DEF BranchingRoot
  <2>2. CASE n # Root
    BY <1>1, <1>3, <1>11, <2>2
  <2> QED
    BY <2>1, <2>2
<1>16. \A m \in firstLevelNodes : BranchingRoot /\ m \in Children(Root)
  BY <1>11
<1>17. \A m \in Children(Root) : Len(m) = 1
  <2>1. Root \in Nodes /\ Len(Root) = 0
    BY NodeFacts
  <2>2. ASSUME NEW m \in Children(Root) PROVE Len(m) = Len(Root) + 1
    BY <2>1, ChildMeans DEF BuiltTree
  <2> QED
    BY <2>1, <2>2
<1>18. \A m \in secondLevelNodes' : BranchingRoot /\ m \in Nodes /\ Len(m) = 2
  <2> TAKE m \in secondLevelNodes'
  <2>1. CASE m \in secondLevelNodes
    BY <1>11, <2>1
  <2>2. CASE n # Root /\ n \in firstLevelNodes /\ m \in Children(n)
    <3>1. BranchingRoot /\ Len(n) = 1 /\ Len(m) = Len(n) + 1 /\ m \in Nodes
      BY <1>6, <1>16, <1>17, <2>2
    <3> QED
      BY <3>1
  <2> QED
    BY <1>3, <2>1, <2>2
<1>19. BranchingRoot => \A m \in StateNodes :
         Len(m) = 2 /\ Front(m) \notin Waiting \ {n} => m \in secondLevelNodes'
  <2>0. SUFFICES ASSUME BranchingRoot, NEW m \in StateNodes, Len(m) = 2,
                        Front(m) \notin Waiting \ {n}
                 PROVE  m \in secondLevelNodes'
    OBVIOUS
  <2>1. CASE Front(m) \notin Waiting
    BY <1>3, <1>11, <2>0, <2>1
  <2>2. CASE Front(m) = n
    <3>1. m \in Nodes /\ m # Root
      <4>1. Len(Root) = 0
        BY NodeFacts
      <4> QED
        BY <2>0, <4>1 DEF StateNodes
    <3>2. m \in Children(n)
      BY <1>1, <2>2, <3>1 DEF BuiltTree, TrieInv
    <3>3. Len(n) = 1
      <4>1. Len(m) = Len(n) + 1 /\ Len(n) \in Nat
        BY <1>5, <1>6, <3>2
      <4> DEFINE x == Len(n)
      <4>2. x + 1 = 2 /\ x \in Nat
        BY <2>0, <4>1
      <4> HIDE DEF x
      <4>3. x = 1
        BY <4>2
      <4> QED
        BY <4>3 DEF x
    <3>4. n # Root
      <4>1. Len(Root) = 0
        BY NodeFacts
      <4> QED
        BY <3>3, <4>1
    <3>5. Front(n) = Root
      <4>1. n # <<>>
        BY <3>4 DEF Root
      <4>2. Len(Front(n)) = Len(n) - 1
        BY <1>5, <4>1, FrontLast
      <4>3. Front(n) \in Nodes
        BY <1>1, <3>4 DEF BuiltTree, TrieInv, TrieShape
      <4> QED
        BY <3>3, <4>2, <4>3, NodeFacts
    <3>6. n \in Children(Root)
      BY <1>1, <3>4, <3>5, NodeFacts DEF BuiltTree, TrieInv
    <3>7. n \in firstLevelNodes
      BY <1>1, <1>11, <2>0, <3>4, <3>6
    <3> QED
      BY <1>3, <3>2, <3>4, <3>7
  <2> QED
    BY <2>0, <2>1, <2>2
<1>20. Generated(Waiting)'
  <2>1. /\ id' \in [Nodes' -> {"none", "child", "path", "state"}]
        /\ \A m \in Waiting' : id'[m] \in {"none", "child"}
        /\ \A m \in Nodes' \ Waiting' : HasState(m)' <=> m \in StateNodes'
    BY <1>2, <1>8, <1>12, <1>13
  <2>2. /\ DOMAIN room' = {m \in Nodes' : HasState(m)'}
        /\ \A m \in DOMAIN room' : room'[m] = RoomFor(m)'
    BY <1>2, <1>14
  <2>3. /\ firstLevelNodes' =
             IF BranchingRoot' /\ Root \notin Waiting' THEN Children(Root)' ELSE {}
        /\ \A m \in secondLevelNodes' : BranchingRoot' /\ m \in Nodes' /\ Len(m) = 2
        /\ BranchingRoot' => \A m \in StateNodes' :
             Len(m) = 2 /\ Front(m) \notin Waiting' => m \in secondLevelNodes'
    BY <1>2, <1>8, <1>15, <1>18, <1>19
  <2> QED
    BY <2>1, <2>2, <2>3 DEF Generated
<1> QED
  BY <1>10, <1>20

(* Where a path leaves the queue: at its end, if that is no leaf.          *)
LEMMA PathQueue ==
  ASSUME BuiltTree, GenQueue, NEW n, AtHead(n), NumGotos(n) = 1, GeneratePath(n), TreeSame,
         NEW p, p = Path(n), NEW L, L = Len(p)
  PROVE  /\ GenQueue' /\ Nodes' = Nodes
         /\ \A k \in Nodes : k \in Waiting' <=>
              k \in Waiting /\ (\A i \in 1 .. L - 1 : k # p[i]) /\ (k = p[L] => Continues(n))
<1>1. /\ n \in Nodes /\ n = queue[1] /\ 1 \in DOMAIN queue /\ n \in Waiting
      /\ Root \in Waiting <=> n = Root
      /\ IsLeaf(n) \/ n \in StateNodes
  BY QueueHead
<1>2. /\ p \in Seq(Nodes) /\ L \in Nat /\ L >= 2 /\ DOMAIN p = 1 .. L /\ p[1] = n
      /\ Last(p) = p[L] /\ p[L] \in Nodes /\ n \in Strings
      /\ \A i \in 1 .. L : /\ p[i] \in Nodes /\ p[i] \in Strings
                           /\ Len(p[i]) = Len(n) + i - 1 /\ IsPrefix(n, p[i])
      /\ IsLeaf(p[L]) <=> ~ Continues(n)
      /\ ~ IsLeaf(p[L]) => p[L] \in StateNodes
      /\ \A k \in Nodes : IsPrefix(n, k) =>
           (\E i \in 1 .. L - 1 : k = p[i]) \/ IsPrefix(p[L], k)
  <2>1. PathIs(n, p, L)
    BY <1>1, PathFacts
  <2> QED
    BY <2>1 DEF PathIs
<1>3. Nodes' = Nodes /\ StateNodes' = StateNodes /\ \A k : IsLeaf(k)' <=> IsLeaf(k)
  BY SameTree DEF TreeSame
<1> DEFINE g == IF Continues(n) THEN <<p[L]>> ELSE <<>>
<1>4. queue \in Seq(Nodes) /\ queue # <<>> /\ Apart(queue) /\ Nodes \in SUBSET Strings
      /\ Tail(queue) \in Seq(Nodes)
  <2>1. queue \in Seq(Nodes) /\ queue # <<>> /\ Apart(queue) /\ Nodes \in SUBSET Strings
    BY NodeFacts DEF GenQueue, AtHead
  <2> QED
    BY <2>1
<1>5. queue' = Tail(queue) \o g
  <2>1. CASE Continues(n)
    <3>1. queue' = Append(Tail(queue), p[L]) /\ g = <<p[L]>>
      BY <1>2, <2>1 DEF GeneratePath
    <3> QED
      BY <1>2, <1>4, <3>1
  <2>2. CASE ~ Continues(n)
    <3>1. queue' = Tail(queue) /\ g = <<>>
      BY <1>2, <2>2 DEF GeneratePath
    <3> QED
      BY <1>4, <3>1, ConcatEmptySeq
  <2> QED
    BY <2>1, <2>2
<1>6. /\ g \in Seq(Nodes) /\ Apart(g)
      /\ \A i \in DOMAIN g : g[i] = p[L] /\ Continues(n)
      /\ \A k : Covers(g, k) <=> Continues(n) /\ IsPrefix(p[L], k)
  <2>1. CASE Continues(n)
    <3>1. g = <<p[L]>>
      BY <2>1
    <3> HIDE DEF g
    <3>2. g \in Seq(Nodes) /\ DOMAIN g = {1} /\ g[1] = p[L]
      BY <1>2, <3>1
    <3> QED
      BY <2>1, <3>2 DEF Apart, Covers
  <2>2. CASE ~ Continues(n)
    <3>1. g = <<>>
      BY <2>2
    <3> HIDE DEF g
    <3>2. g \in Seq(Nodes) /\ DOMAIN g = {}
      BY <1>2, <3>1
    <3> QED
      BY <2>2, <3>2 DEF Apart, Covers
  <2> QED
    BY <2>1, <2>2
<1> HIDE DEF g
<1>7. \A i \in DOMAIN g : IsPrefix(queue[1], g[i])
  <2>1. L \in 1 .. L
    BY <1>2
  <2> QED
    BY <1>1, <1>2, <1>6, <2>1
<1>8. Replaced(queue', queue, g, Nodes)
  BY <1>4, <1>5, <1>6, <1>7, HeadReplaced
<1>9. GenQueue'
  <2>1. \A i \in DOMAIN queue' : IsLeaf(queue'[i]) \/ queue'[i] \in StateNodes
    <3> TAKE i \in DOMAIN queue'
    <3>1. CASE \E j \in DOMAIN queue : j # 1 /\ queue'[i] = queue[j]
      BY <3>1 DEF GenQueue
    <3>2. CASE \E j \in DOMAIN g : queue'[i] = g[j]
      BY <1>2, <1>6, <3>2
    <3> QED
      BY <1>8, <3>1, <3>2 DEF Replaced
  <2> QED
    BY <1>3, <1>8, <2>1 DEF GenQueue, Apart, Replaced
<1>10. ASSUME NEW k \in Nodes
       PROVE  k \in Waiting' <=>
                k \in Waiting /\ (\A i \in 1 .. L - 1 : k # p[i]) /\ (k = p[L] => Continues(n))
  <2>1. (k \in Waiting' <=> Covers(queue', k)) /\ (k \in Waiting <=> Covers(queue, k))
    BY <1>3 DEF Waiting, Covers
  <2>2. k \in Waiting' <=>
          k \in Waiting /\ (IsPrefix(n, k) => Continues(n) /\ IsPrefix(p[L], k))
    BY <1>1, <1>6, <1>8, <2>1 DEF Replaced
  <2>3. \A i \in 1 .. L - 1 : k = p[i] => IsPrefix(n, k) /\ ~ IsPrefix(p[L], k)
    <3> SUFFICES ASSUME NEW i \in 1 .. L - 1, k = p[i]
                 PROVE  IsPrefix(n, k) /\ ~ IsPrefix(p[L], k)
      OBVIOUS
    <3>1. i \in 1 .. L /\ L \in 1 .. L
      BY <1>2
    <3>2. /\ p[i] \in Strings /\ Len(p[i]) = Len(n) + i - 1 /\ IsPrefix(n, p[i])
          /\ p[L] \in Strings /\ Len(p[L]) = Len(n) + L - 1
      BY <1>2, <3>1
    <3>3. ~ (Len(p[L]) <= Len(p[i]))
      <4>1. Len(n) \in Nat
        BY <1>1, NodeFacts
      <4> QED
        BY <1>2, <3>1, <3>2, <4>1
    <3> QED
      BY <3>2, <3>3, PrefixMeans
  <2>4. k = p[L] => IsPrefix(n, k) /\ IsPrefix(p[L], k)
    <3>1. L \in 1 .. L
      BY <1>2
    <3> QED
      BY <1>2, <3>1, PrefixSelf
  <2>5. ASSUME IsPrefix(n, k), ~ Continues(n), IsPrefix(p[L], k) PROVE k = p[L]
    <3> SUFFICES ASSUME k # p[L] PROVE FALSE
      OBVIOUS
    <3>1. Children(p[L]) # {}
      BY <1>2, <2>5, ChildBelow DEF BuiltTree
    <3> QED
      BY <1>2, <2>5, <3>1, NodeFacts
  <2>6. IsPrefix(n, k) => (\E i \in 1 .. L - 1 : k = p[i]) \/ IsPrefix(p[L], k)
    BY <1>2
  <2> QED
    BY <2>2, <2>3, <2>4, <2>5, <2>6
<1> QED
  BY <1>3, <1>9, <1>10

(* A chain of single gotos becomes the state of its first node.            *)
LEMMA PathGenerated ==
  ASSUME BuiltTree, GenQueue, NEW n, AtHead(n), NumGotos(n) = 1,
         Generated(Waiting), GeneratePath(n), TreeSame
  PROVE  Generated(Waiting)' /\ GenQueue'
<1> DEFINE p == Path(n)
           L == Len(p)
<1>1. /\ n \in Nodes /\ n = queue[1] /\ 1 \in DOMAIN queue /\ n \in Waiting
      /\ Root \in Waiting <=> n = Root
      /\ IsLeaf(n) \/ n \in StateNodes
  BY QueueHead
<1>2. /\ p \in Seq(Nodes) /\ L \in Nat /\ L >= 2 /\ DOMAIN p = 1 .. L /\ p[1] = n
      /\ Last(p) = p[L] /\ p[L] \in Nodes /\ n \in Strings
      /\ \A i \in 1 .. L : /\ p[i] \in Nodes /\ p[i] \in Strings
                           /\ Len(p[i]) = Len(n) + i - 1 /\ IsPrefix(n, p[i])
      /\ \A i \in 1 .. L - 1 : NumGotos(p[i]) = 1 /\ Children(p[i]) = {p[i + 1]}
      /\ \A i \in 2 .. L : p[i] # Root
      /\ \A i \in 2 .. L - 1 : p[i] \notin StateNodes
      /\ IsLeaf(p[L]) <=> ~ Continues(n)
      /\ ~ IsLeaf(p[L]) => p[L] \in StateNodes
  <2>1. PathIs(n, p, L)
    BY <1>1, PathFacts
  <2> HIDE DEF p, L
  <2> QED
    BY <2>1 DEF PathIs
<1>3. /\ GenQueue' /\ Nodes' = Nodes
      /\ \A k \in Nodes : k \in Waiting' <=>
           k \in Waiting /\ (\A i \in 1 .. L - 1 : k # p[i]) /\ (k = p[L] => Continues(n))
  BY PathQueue
<1>4. /\ room' = [m \in DOMAIN room \cup {n} |-> IF m = n THEN RoomFor(n) ELSE room[m]]
      /\ firstLevelNodes' = firstLevelNodes
      /\ secondLevelNodes' = secondLevelNodes \cup
           (IF n \in firstLevelNodes /\ L = 2 /\ Continues(n) THEN {p[L]} ELSE {})
      /\ id' = [m \in Nodes |-> IF m = n THEN "state"
                                ELSE IF m = p[L] /\ Continues(n) THEN "child"
                                ELSE IF m \in Range(p) THEN "path" ELSE id[m]]
  BY <1>2 DEF GeneratePath, RoomFor, IsBranch
<1>5. /\ StateNodes' = StateNodes /\ (BranchingRoot' <=> BranchingRoot)
      /\ \A k : Children(k)' = Children(k) /\ RoomFor(k)' = RoomFor(k)
  BY SameTree DEF TreeSame
<1>50. L \in Nat /\ L >= 2
  BY <1>2
<1> HIDE DEF p, L
<1>6. /\ 1 \in 1 .. L /\ L \in 1 .. L /\ 1 \in 1 .. L - 1
      /\ \A i \in 1 .. L : i = 1 \/ i \in 2 .. L - 1 \/ i = L
      /\ \A i \in 1 .. L : i \in 1 .. L - 1 \/ i = L
  BY <1>50
<1>7. /\ ~ IsLeaf(n) /\ n \in StateNodes /\ NumGotos(n) = 1 /\ Len(n) \in Nat
      /\ Nodes \in SUBSET Strings
  BY <1>1, NodeFacts
<1>8. p[L] # n
  <2>1. Len(p[L]) = Len(n) + L - 1
    BY <1>2, <1>6
  <2> QED
    BY <1>2, <1>7, <2>1
<1>9. Range(p) = {p[i] : i \in 1 .. L}
  BY <1>2 DEF Range
<1>10. \A i \in 1 .. L : p[i] \in Waiting
  BY <1>1, <1>2 DEF Waiting
<1>11. /\ id \in [Nodes -> {"none", "child", "path", "state"}]
       /\ \A m \in Waiting : id[m] \in {"none", "child"}
       /\ \A m \in Nodes \ Waiting : HasState(m) <=> m \in StateNodes
       /\ DOMAIN room = {m \in Nodes : HasState(m)}
       /\ \A m \in DOMAIN room : room[m] = RoomFor(m)
       /\ firstLevelNodes = IF BranchingRoot /\ Root \notin Waiting THEN Children(Root) ELSE {}
       /\ \A m \in secondLevelNodes : BranchingRoot /\ m \in Nodes /\ Len(m) = 2
       /\ BranchingRoot =>
            \A m \in StateNodes : Len(m) = 2 /\ Front(m) \notin Waiting => m \in secondLevelNodes
  BY DEF Generated
<1>12. n \notin Waiting' /\ Waiting' \subseteq Waiting /\ Waiting \subseteq Nodes
  <2>1. n \notin Waiting'
    BY <1>1, <1>2, <1>3, <1>6
  <2>2. Waiting' \subseteq Nodes /\ Waiting \subseteq Nodes
    BY <1>3 DEF Waiting
  <2> QED
    BY <1>3, <2>1, <2>2
<1>13. \A m \in Nodes : HasState(m)' <=> m = n \/ HasState(m)
  <2>1. ASSUME NEW m \in Range(p) PROVE ~ HasState(m)
    <3>1. id[m] # "state"
      BY <1>9, <1>10, <1>11
    <3> QED
      BY <3>1 DEF HasState
  <2>2. p[L] \in Range(p)
    BY <1>6, <1>9
  <2> QED
    BY <1>4, <2>1, <2>2 DEF HasState
<1>14. id' \in [Nodes -> {"none", "child", "path", "state"}]
  BY <1>4, <1>11
<1>15. ASSUME NEW m \in Waiting' PROVE id'[m] \in {"none", "child"}
  <2>1. m \in Nodes /\ m \in Waiting /\ m # n
    BY <1>12
  <2>2. CASE m = p[L]
    BY <1>3, <1>4, <1>15, <2>1, <2>2
  <2>3. CASE m # p[L]
    <3>1. m \notin Range(p)
      BY <1>3, <1>6, <1>9, <1>15, <2>1, <2>3
    <3> QED
      BY <1>4, <1>11, <2>1, <2>3, <3>1
  <2> QED
    BY <2>2, <2>3
<1>16. ASSUME NEW m \in Nodes, m \notin Waiting'
       PROVE  HasState(m)' <=> m \in StateNodes
  <2>1. CASE m \notin Waiting
    BY <1>1, <1>11, <1>13, <2>1
  <2>2. CASE m \in Waiting
    <3>1. (\E i \in 1 .. L - 1 : m = p[i]) \/ (m = p[L] /\ ~ Continues(n))
      BY <1>3, <1>16, <2>2
    <3>2. ~ HasState(m)
      <4>1. id[m] # "state"
        BY <1>11, <2>2
      <4> QED
        BY <4>1 DEF HasState
    <3>3. CASE m = n
      BY <1>7, <1>13, <3>3
    <3>4. CASE m # n
      <4>1. m \notin StateNodes
        <5>1. CASE m = p[L] /\ ~ Continues(n)
          BY <1>2, <5>1 DEF StateNodes
        <5>2. CASE \E i \in 1 .. L - 1 : m = p[i]
          <6>1. PICK i \in 1 .. L - 1 : m = p[i]
            BY <5>2
          <6>2. i \in 2 .. L - 1
            BY <1>2, <3>4, <6>1
          <6> QED
            BY <1>2, <6>1, <6>2
        <5> QED
          BY <3>1, <5>1, <5>2
      <4> QED
        BY <1>13, <3>2, <3>4, <4>1
    <3> QED
      BY <3>3, <3>4
  <2> QED
    BY <2>1, <2>2
<1>17. DOMAIN room' = {m \in Nodes : HasState(m)'} /\ \A m \in DOMAIN room' : room'[m] = RoomFor(m)
  BY <1>1, <1>4, <1>11, <1>13
<1>18. firstLevelNodes' = IF BranchingRoot /\ Root \notin Waiting' THEN Children(Root) ELSE {}
  <2>1. CASE n = Root
    <3>1. ~ BranchingRoot
      BY <1>7, <2>1 DEF BranchingRoot, IsBranch
    <3> QED
      BY <1>4, <1>11, <3>1
  <2>2. CASE n # Root
    <3>1. Root \notin Waiting /\ Root \notin Waiting'
      BY <1>1, <1>12, <2>2
    <3> QED
      BY <1>4, <1>11, <3>1
  <2> QED
    BY <2>1, <2>2
<1>19. n \in firstLevelNodes => BranchingRoot /\ Len(n) = 1
  <2> SUFFICES ASSUME n \in firstLevelNodes PROVE BranchingRoot /\ Len(n) = 1
    OBVIOUS
  <2>1. BranchingRoot /\ n \in Children(Root)
    BY <1>11
  <2>2. Root \in Nodes /\ Len(Root) = 0
    BY NodeFacts
  <2>3. Len(n) = Len(Root) + 1
    BY <2>1, <2>2, ChildMeans DEF BuiltTree
  <2> QED
    BY <2>1, <2>2, <2>3
<1>20. ASSUME NEW m \in secondLevelNodes'
       PROVE  BranchingRoot /\ m \in Nodes /\ Len(m) = 2
  <2>1. CASE m \in secondLevelNodes
    BY <1>11, <2>1
  <2>2. CASE n \in firstLevelNodes /\ L = 2 /\ m = p[L]
    <3>1. Len(m) = Len(n) + L - 1 /\ Len(n) = 1 /\ L = 2 /\ m \in Nodes /\ BranchingRoot
      BY <1>2, <1>6, <1>19, <2>2
    <3> QED
      BY <3>1
  <2> QED
    BY <1>4, <1>20, <2>1, <2>2
<1>21. ASSUME BranchingRoot, NEW m \in StateNodes, Len(m) = 2, Front(m) \notin Waiting'
       PROVE  m \in secondLevelNodes'
  <2>1. CASE Front(m) \notin Waiting
    BY <1>4, <1>11, <1>21, <2>1
  <2>2. CASE Front(m) \in Waiting
    <3>1. Len(Root) = 0 /\ Root \in Nodes
      BY NodeFacts
    <3>2. m \in Nodes /\ ~ IsLeaf(m) /\ m # Root
      BY <1>21, <3>1 DEF StateNodes
    <3> DEFINE f == Front(m)
    <3>3. f \in Nodes /\ m \in Children(f) /\ f \notin Waiting' /\ f \in Waiting
      BY <1>21, <2>2, <3>2 DEF BuiltTree, TrieInv, TrieShape
    <3> HIDE DEF f
    <3>4. Len(f) = 1
      <4>1. Len(m) = Len(f) + 1 /\ Len(f) \in Nat
        BY <3>3, NodeFacts, ChildMeans DEF BuiltTree
      <4> DEFINE x == Len(f)
      <4>2. x + 1 = 2 /\ x \in Nat
        BY <1>21, <4>1
      <4> HIDE DEF x
      <4>3. x = 1
        BY <4>2
      <4> QED
        BY <4>3 DEF x
    <3>5. (\E i \in 1 .. L - 1 : f = p[i]) \/ (f = p[L] /\ ~ Continues(n))
      BY <1>3, <3>3
    <3>6. \E i \in 1 .. L - 1 : f = p[i]
      <4>1. IsLeaf(f) => Children(f) = {}
        BY <3>3, NodeFacts
      <4> QED
        BY <1>2, <3>3, <3>5, <4>1
    <3>7. PICK i \in 1 .. L - 1 : f = p[i]
      BY <3>6
    <3>8. n # Root
      BY <1>7, <1>21 DEF BranchingRoot, IsBranch
    <3>9. i = 1 /\ Len(n) = 1
      <4>1. Len(n) # 0
        BY <1>1, <3>8, NodeFacts
      <4>2. i \in 1 .. L
        BY <1>2
      <4>3. Len(f) = Len(n) + i - 1
        BY <1>2, <3>7, <4>2
      <4> DEFINE x == Len(n)
      <4>4. x + i - 1 = 1 /\ x \in Nat /\ x # 0
        BY <1>7, <3>4, <4>1, <4>3
      <4>40. i \in Nat /\ i >= 1
        BY <1>50
      <4> HIDE DEF x
      <4>5. i = 1 /\ x = 1
        BY <4>4, <4>40
      <4> QED
        BY <4>5 DEF x
    <3>10. f = n /\ Children(n) = {p[2]} /\ m = p[2]
      <4>1. f = n /\ 1 + 1 = 2 /\ 1 \in 1 .. L - 1
        BY <1>2, <1>6, <3>7, <3>9
      <4>2. Children(n) = {p[2]}
        BY <1>2, <4>1
      <4> QED
        BY <3>3, <4>1, <4>2
    <3>11. L = 2 /\ m = p[L]
      <4>1. L # 2 => 2 \in 2 .. L - 1
        BY <1>2
      <4> QED
        BY <1>2, <1>21, <3>10, <4>1
    <3>12. Continues(n)
      BY <1>2, <3>2, <3>11
    <3>13. n \in firstLevelNodes
      <4>1. n \in Nodes /\ n # Root /\ n \in Strings /\ n # <<>> /\ Len(n) = 1
        BY <1>1, <1>2, <3>8, <3>9 DEF Root
      <4>2. Len(Front(n)) = Len(n) - 1
        BY <4>1, FrontLast
      <4>3. Front(n) \in Nodes
        BY <4>1 DEF BuiltTree, TrieInv, TrieShape
      <4>4. Front(n) = Root
        BY <4>1, <4>2, <4>3, NodeFacts
      <4>5. n \in Children(Root)
        BY <3>1, <4>1, <4>4 DEF BuiltTree, TrieInv
      <4> QED
        BY <1>1, <1>11, <1>21, <3>8, <4>5
    <3> QED
      BY <1>4, <3>11, <3>12, <3>13
  <2> QED
    BY <2>1, <2>2
<1>22. Generated(Waiting)'
  <2>1. /\ id' \in [Nodes' -> {"none", "child", "path", "state"}]
        /\ \A m \in Waiting' : id'[m] \in {"none", "child"}
        /\ \A m \in Nodes' \ Waiting' : HasState(m)' <=> m \in StateNodes'
    BY <1>3, <1>5, <1>14, <1>15, <1>16
  <2>2. /\ DOMAIN room' = {m \in Nodes' : HasState(m)'}
        /\ \A m \in DOMAIN room' : room'[m] = RoomFor(m)'
    BY <1>3, <1>5, <1>17
  <2>3. /\ firstLevelNodes' =
             IF BranchingRoot' /\ Root \notin Waiting' THEN Children(Root)' ELSE {}
        /\ \A m \in secondLevelNodes' : BranchingRoot' /\ m \in Nodes' /\ Len(m) = 2
        /\ BranchingRoot' => \A m \in StateNodes' :
             Len(m) = 2 /\ Front(m) \notin Waiting' => m \in secondLevelNodes'
    BY <1>3, <1>5, <1>18, <1>20, <1>21
  <2> QED
    BY <2>1, <2>2, <2>3 DEF Generated
<1> QED
  BY <1>3, <1>22

(* A leaf has no state.                                                    *)
LEMMA LeafGenerated ==
  ASSUME BuiltTree, GenQueue, NEW n, AtHead(n), IsLeaf(n), Generated(Waiting),
         queue' = Tail(queue), TreeSame, id' = id, room' = room,
         firstLevelNodes' = firstLevelNodes, secondLevelNodes' = secondLevelNodes
  PROVE  Generated(Waiting)' /\ GenQueue'
<1>1. /\ n \in Nodes /\ n = queue[1] /\ 1 \in DOMAIN queue /\ n \in Waiting
      /\ Root \in Waiting <=> n = Root
  BY QueueHead
<1>2. /\ Nodes' = Nodes /\ StateNodes' = StateNodes /\ (BranchingRoot' <=> BranchingRoot)
      /\ \A k : /\ Children(k)' = Children(k) /\ (IsLeaf(k)' <=> IsLeaf(k))
                /\ RoomFor(k)' = RoomFor(k)
  BY SameTree DEF TreeSame
<1>3. queue \in Seq(Nodes) /\ queue # <<>> /\ Apart(queue) /\ Nodes \in SUBSET Strings
      /\ Tail(queue) \in Seq(Nodes)
  <2>1. queue \in Seq(Nodes) /\ queue # <<>> /\ Apart(queue) /\ Nodes \in SUBSET Strings
    BY NodeFacts DEF GenQueue, AtHead
  <2> QED
    BY <2>1
<1> DEFINE g == <<>>
<1>4. queue' = Tail(queue) \o g
  BY <1>3, ConcatEmptySeq
<1>5. g \in Seq(Nodes) /\ DOMAIN g = {}
  OBVIOUS
<1> HIDE DEF g
<1>6. Apart(g) /\ \A k : ~ Covers(g, k)
  BY <1>5 DEF Apart, Covers
<1>7. Replaced(queue', queue, g, Nodes)
  <2>1. \A i \in DOMAIN g : IsPrefix(queue[1], g[i])
    BY <1>5
  <2> QED
    BY <1>3, <1>4, <1>5, <1>6, <2>1, HeadReplaced
<1>8. Children(n) = {} /\ ~ IsBranch(n) /\ IsPrefix(n, n)
  <2>1. Children(n) = {} /\ NumGotos(n) = 0
    BY <1>1, NodeFacts
  <2>2. ~ IsBranch(n)
    BY <2>1 DEF IsBranch
  <2> QED
    BY <1>1, <1>3, <2>1, <2>2, PrefixSelf
<1>9. \A k \in Nodes : IsPrefix(n, k) <=> k = n
  BY <1>1, <1>8, ChildBelow DEF BuiltTree
<1>10. Waiting' = Waiting \ {n}
  <2>1. Waiting' = {m \in Nodes : Covers(queue', m)} /\ Waiting = {m \in Nodes : Covers(queue, m)}
    BY <1>2 DEF Waiting, Covers
  <2> QED
    BY <1>1, <1>6, <1>7, <1>9, <2>1 DEF Replaced
<1>11. GenQueue'
  <2>1. \A i \in DOMAIN queue' : IsLeaf(queue'[i]) \/ queue'[i] \in StateNodes
    <3> TAKE i \in DOMAIN queue'
    <3>1. \E j \in DOMAIN queue : j # 1 /\ queue'[i] = queue[j]
      BY <1>5, <1>7 DEF Replaced
    <3> QED
      BY <3>1 DEF GenQueue
  <2> QED
    BY <1>2, <1>7, <2>1 DEF GenQueue, Apart, Replaced
<1>12. /\ id \in [Nodes -> {"none", "child", "path", "state"}]
       /\ \A m \in Waiting : id[m] \in {"none", "child"}
       /\ \A m \in Nodes \ Waiting : HasState(m) <=> m \in StateNodes
       /\ DOMAIN room = {m \in Nodes : HasState(m)}
       /\ \A m \in DOMAIN room : room[m] = RoomFor(m)
       /\ firstLevelNodes = IF BranchingRoot /\ Root \notin Waiting THEN Children(Root) ELSE {}
       /\ \A m \in secondLevelNodes : BranchingRoot /\ m \in Nodes /\ Len(m) = 2
       /\ BranchingRoot =>
            \A m \in StateNodes : Len(m) = 2 /\ Front(m) \notin Waiting => m \in secondLevelNodes
  BY DEF Generated
<1>13. \A m : HasState(m)' <=> HasState(m)
  BY DEF HasState
<1>14. \A m \in Nodes \ (Waiting \ {n}) : HasState(m) <=> m \in StateNodes
  <2>1. ~ HasState(n) /\ n \notin StateNodes
    <3>1. id[n] # "state"
      BY <1>1, <1>12
    <3> QED
      BY <3>1 DEF HasState, StateNodes
  <2> QED
    BY <1>12, <2>1
<1>15. firstLevelNodes =
         IF BranchingRoot /\ Root \notin Waiting \ {n} THEN Children(Root) ELSE {}
  <2>1. CASE n = Root
    BY <1>8, <1>12, <2>1 DEF BranchingRoot
  <2>2. CASE n # Root
    BY <1>12, <2>2
  <2> QED
    BY <2>1, <2>2
<1>16. BranchingRoot => \A m \in StateNodes :
         Len(m) = 2 /\ Front(m) \notin Waiting \ {n} => m \in secondLevelNodes
  <2>1. ASSUME NEW m \in StateNodes, Len(m) = 2 PROVE Front(m) # n
    <3>1. Len(Root) = 0
      BY NodeFacts
    <3>2. m \in Nodes /\ m # Root
      BY <2>1, <3>1 DEF StateNodes
    <3> QED
      BY <1>1, <1>8, <3>2 DEF BuiltTree, TrieInv
  <2> QED
    BY <1>12, <2>1
<1>17. Generated(Waiting)'
  <2>1. /\ id' \in [Nodes' -> {"none", "child", "path", "state"}]
        /\ \A m \in Waiting' : id'[m] \in {"none", "child"}
        /\ \A m \in Nodes' \ Waiting' : HasState(m)' <=> m \in StateNodes'
    BY <1>2, <1>10, <1>12, <1>13, <1>14
  <2>2. /\ DOMAIN room' = {m \in Nodes' : HasState(m)'}
        /\ \A m \in DOMAIN room' : room'[m] = RoomFor(m)'
    BY <1>2, <1>12, <1>13
  <2>3. /\ firstLevelNodes' =
             IF BranchingRoot' /\ Root \notin Waiting' THEN Children(Root)' ELSE {}
        /\ \A m \in secondLevelNodes' : BranchingRoot' /\ m \in Nodes' /\ Len(m) = 2
        /\ BranchingRoot' => \A m \in StateNodes' :
             Len(m) = 2 /\ Front(m) \notin Waiting' => m \in secondLevelNodes'
    BY <1>2, <1>10, <1>12, <1>15, <1>16
  <2> QED
    BY <2>1, <2>2, <2>3 DEF Generated
<1> QED
  BY <1>11, <1>17

LEMMA GeneratedKept ==
  ASSUME TreeSame, id' = id, room' = room,
         firstLevelNodes' = firstLevelNodes, secondLevelNodes' = secondLevelNodes
  PROVE  /\ Generated({}) => Generated({})'
         /\ queue' = queue => (Generated(Waiting) => Generated(Waiting)') /\ (GenQueue => GenQueue')
<1>1. /\ Nodes' = Nodes /\ StateNodes' = StateNodes /\ (BranchingRoot' <=> BranchingRoot)
      /\ \A k : /\ Children(k)' = Children(k) /\ (IsLeaf(k)' <=> IsLeaf(k))
                /\ RoomFor(k)' = RoomFor(k)
  BY SameTree DEF TreeSame
<1>2. \A m : HasState(m)' <=> HasState(m)
  BY DEF HasState
<1>3. queue' = queue => Waiting' = Waiting
  BY <1>1 DEF Waiting
<1>4. Generated({}) => Generated({})'
  BY <1>1, <1>2 DEF Generated
<1>5. queue' = queue => (Generated(Waiting) => Generated(Waiting)')
  BY <1>1, <1>2, <1>3 DEF Generated
<1>6. queue' = queue => (GenQueue => GenQueue')
  BY <1>1 DEF GenQueue, Apart
<1> QED
  BY <1>4, <1>5, <1>6

(* setStatesData queues the children that have a state.                    *)
LEMMA WithStateMeans ==
  ASSUME NEW S, NEW g \in Seq(S)
  PROVE  WithState(g) \in Seq(S) /\ ToSet(WithState(g)) = {x \in ToSet(g) : HasState(x)}
<1>1. Len(g) \in Nat /\ DOMAIN g = 1 .. Len(g) /\ \A i \in 1 .. Len(g) : g[i] \in S
  OBVIOUS
<1> DEFINE b == Len(g)
           Step(h, i) == IF i = 0 THEN <<>>
                         ELSE IF HasState(g[i]) THEN Append(h[i - 1], g[i]) ELSE h[i - 1]
           f == CHOOSE f : f = [i \in 0 .. b |-> Step(f, i)]
           UpTo(h, k) == \A i \in 0 .. k : h[i] = Step(h, i)
           P == {k \in Nat : \E h : UpTo(h, k)}
<1>2. WithState(g) = f[b]
  BY DEF WithState
<1> HIDE DEF b, f
<1>3. b \in Nat
  BY <1>1 DEF b
<1>4. 0 \in P
  <2> DEFINE h == [i \in {0} |-> <<>>]
  <2>1. UpTo(h, 0)
    OBVIOUS
  <2> HIDE DEF UpTo, h
  <2> QED
    BY <2>1
<1>5. ASSUME NEW k \in Nat, k \in P PROVE k + 1 \in P
  <2>1. PICK h : UpTo(h, k)
    BY <1>5
  <2> DEFINE j == [i \in 0 .. k + 1 |-> IF i <= k THEN h[i] ELSE Step(h, i)]
  <2>2. ASSUME NEW i \in 0 .. k + 1 PROVE j[i] = Step(j, i)
    <3>1. j[i] = Step(h, i)
      BY <2>1
    <3>2. i # 0 => i - 1 \in 0 .. k + 1 /\ i - 1 <= k
      OBVIOUS
    <3>3. i # 0 => h[i - 1] = j[i - 1]
      BY <3>2
    <3> HIDE DEF j
    <3>4. CASE i = 0
      BY <3>1, <3>4
    <3>5. CASE i # 0
      BY <3>1, <3>3, <3>5
    <3> QED
      BY <3>4, <3>5
  <2> HIDE DEF j
  <2>3. UpTo(j, k + 1)
    BY <2>2
  <2> HIDE DEF UpTo
  <2> QED
    BY <2>3
<1> HIDE DEF P
<1>6. b \in P
  BY <1>3, <1>4, <1>5, Induction
<1>7. PICK h : \A i \in 0 .. b : h[i] = Step(h, i)
  BY <1>6 DEF P
<1> DEFINE e == [i \in 0 .. b |-> h[i]]
<1>8. ASSUME NEW i \in 0 .. b PROVE e[i] = Step(e, i)
  <2>1. h[i] = Step(h, i) /\ e[i] = h[i]
    BY <1>7
  <2>2. i # 0 => i - 1 \in 0 .. b
    BY <1>3
  <2>3. i # 0 => h[i - 1] = e[i - 1]
    BY <2>2
  <2> HIDE DEF e
  <2>4. CASE i = 0
    BY <2>1, <2>4
  <2>5. CASE i # 0
    BY <2>1, <2>3, <2>5
  <2> QED
    BY <2>4, <2>5
<1>9. e = [i \in 0 .. b |-> Step(e, i)]
  BY <1>8
<1>10. f = [i \in 0 .. b |-> Step(f, i)]
  BY <1>9, Zenon DEF f
<1>11. \A i \in 0 .. b : f[i] = Step(f, i)
  BY <1>10
<1> DEFINE Good(k) == /\ f[k] \in Seq(S)
                      /\ \A x : x \in ToSet(f[k]) <=>
                           \E i \in 1 .. k : x = g[i] /\ HasState(x)
           Q == {k \in Nat : k <= b => Good(k)}
<1>12. 0 \in Q
  <2>1. f[0] = <<>>
    BY <1>3, <1>11
  <2>2. f[0] \in Seq(S) /\ ToSet(f[0]) = {} /\ 1 .. 0 = {}
    BY <2>1, ToSetEmpty
  <2> QED
    BY <2>2
<1>13. ASSUME NEW k \in Nat, k \in Q PROVE k + 1 \in Q
  <2> SUFFICES ASSUME k + 1 <= b PROVE Good(k + 1)
    OBVIOUS
  <2>1. Good(k) /\ k + 1 \in 0 .. b /\ k + 1 # 0 /\ (k + 1) - 1 = k /\ k + 1 \in 1 .. Len(g)
    BY <1>3, <1>13 DEF b
  <2>2. g[k + 1] \in S
    BY <1>1, <2>1
  <2>3. CASE HasState(g[k + 1])
    <3>1. f[k + 1] = Append(f[k], g[k + 1])
      BY <1>11, <2>1, <2>3
    <3>2. f[k + 1] \in Seq(S)
      BY <2>1, <2>2, <3>1
    <3>3. ToSet(f[k + 1]) = ToSet(f[k]) \cup {g[k + 1]}
      <4> DEFINE t == f[k]
      <4>1. t \in Seq(S) /\ f[k + 1] = Append(t, g[k + 1])
        BY <2>1, <3>1
      <4> HIDE DEF t
      <4>2. <<g[k + 1]>> \in Seq(S) /\ f[k + 1] = t \o <<g[k + 1]>>
        BY <2>2, <4>1
      <4>3. ToSet(f[k + 1]) = ToSet(t) \cup ToSet(<<g[k + 1]>>)
        BY <4>1, <4>2, ToSetConcat
      <4> QED
        BY <4>3, ToSetSingle DEF t
    <3>4. \A x : x \in ToSet(f[k + 1]) <=> \E i \in 1 .. k + 1 : x = g[i] /\ HasState(x)
      BY <2>1, <2>3, <3>3
    <3> QED
      BY <3>2, <3>4
  <2>4. CASE ~ HasState(g[k + 1])
    <3>1. f[k + 1] = f[k]
      BY <1>11, <2>1, <2>4
    <3>2. \A i \in 1 .. k + 1 : i \in 1 .. k \/ i = k + 1
      OBVIOUS
    <3> QED
      BY <2>1, <2>4, <3>1, <3>2
  <2> QED
    BY <2>3, <2>4
<1> HIDE DEF Q
<1>14. b \in Q
  BY <1>3, <1>12, <1>13, Induction
<1>15. Good(b)
  BY <1>14, <1>3 DEF Q
<1> QED
  BY <1>2, <1>15, <1>1 DEF b, ToSet

LEMMA LaterKeeps ==
  ASSUME SetData \/ MachineReady \/ StartScan \/ ScanStep
  PROVE  /\ TreeSame /\ file' = file
         /\ id' = id /\ room' = room /\ maxGotos' = maxGotos
         /\ firstLevelNodes' = firstLevelNodes /\ secondLevelNodes' = secondLevelNodes
         /\ phase \notin BuildPhases \cup {"states"}
         /\ phase' \notin BuildPhases \cup {"states"}
<1>1. CASE SetData
  BY <1>1 DEF SetData, TreeSame, tree, BuildPhases
<1>2. CASE MachineReady
  BY <1>2 DEF MachineReady, TreeSame, tree, machine, BuildPhases
<1>3. CASE StartScan
  BY <1>3 DEF StartScan, TreeSame, tree, machine, BuildPhases
<1>4. CASE ScanStep
  <2>1. CASE RootByte
    BY <2>1 DEF RootByte, Scanning, TreeSame, treeVars, tree, machine, BuildPhases
  <2>2. CASE DropPacket
    BY <2>2 DEF DropPacket, Scanning, TreeSame, tree, machine, BuildPhases
  <2>3. CASE BranchByte
    <3>1. phase' = "scan" \/ phase' = "lookup_miss"
      BY <2>3 DEF BranchByte, Scanning, Take, Advance
    <3> QED
      BY <2>3, <3>1 DEF BranchByte, Scanning, TreeSame, tree, machine, BuildPhases
  <2>4. CASE PathBytes
    <3>1. phase' = "scan" \/ phase' = "lookup_miss"
      BY <2>4 DEF PathBytes, Scanning, Take, Advance
    <3> QED
      BY <2>4, <3>1 DEF PathBytes, Scanning, TreeSame, tree, machine, BuildPhases
  <2>5. CASE EndOfPacket
    BY <2>5 DEF EndOfPacket, TreeSame, tree, machine, BuildPhases
  <2> QED
    BY <1>4, <2>1, <2>2, <2>3, <2>4, <2>5 DEF ScanStep
<1> QED
  BY <1>1, <1>2, <1>3, <1>4

LEMMA BuildKeeps ==
  ASSUME Build
  PROVE  /\ phase \in BuildPhases /\ phase' \in BuildPhases /\ BuildTree
         /\ id' = id /\ room' = room /\ maxGotos' = maxGotos /\ data' = data
         /\ firstLevelNodes' = firstLevelNodes /\ secondLevelNodes' = secondLevelNodes
         /\ firstLevelLookup' = firstLevelLookup /\ secondLevelLookup' = secondLevelLookup
         /\ UNCHANGED <<args, locals>>
<1>1. BuildTree /\ UNCHANGED <<machine, args, locals>>
  BY DEF Build
<1>2. phase \in BuildPhases /\ phase' \in BuildPhases
  BY <1>1 DEF BuildTree, Enter, StartFailures, FailStep, FailuresDone, AvoidStep, AvoidDone,
              BuildPhases
<1> QED
  BY <1>1, <1>2 DEF machine

(* When no node waits any more, generateStates has made every state.       *)
LEMMA AllGenerated ==
  ASSUME Generated(Waiting), queue = <<>>
  PROVE  Generated({})
<1>1. DOMAIN queue = {}
  OBVIOUS
<1>2. Waiting = {}
  BY <1>1 DEF Waiting
<1> QED
  BY <1>2

LEMMA StartGenerates ==
  ASSUME BuiltTree, room = <<>>, firstLevelNodes = {}, secondLevelNodes = {}, StartStates
  PROVE  Generated(Waiting)' /\ GenQueue' /\ TreeSame
<1>1. /\ TreeSame /\ id' = [n \in Nodes |-> "none"] /\ queue' = <<Root>>
      /\ room' = room /\ firstLevelNodes' = {} /\ secondLevelNodes' = {}
  BY DEF StartStates, TreeSame, tree
<1>2. /\ Nodes' = Nodes /\ StateNodes' = StateNodes
      /\ \A k : (IsLeaf(k)' <=> IsLeaf(k))
  BY <1>1, SameTree DEF TreeSame
<1>3. Root \in Nodes /\ Root \in Strings /\ Len(Root) = 0
  BY NodeFacts
<1>4. DOMAIN queue' = {1} /\ queue'[1] = Root /\ queue' \in Seq(Nodes)
  BY <1>1, <1>3
<1>5. \A n \in Nodes : IsPrefix(Root, n)
  <2> TAKE n \in Nodes
  <2>1. n \in Strings /\ Len(n) \in Nat
    BY NodeFacts
  <2> QED
    BY <1>3, <2>1, PrefixMeans
<1>6. Waiting' = Nodes
  BY <1>2, <1>4, <1>5 DEF Waiting
<1>7. IsLeaf(Root) \/ Root \in StateNodes
  BY <1>3 DEF StateNodes
<1>8. GenQueue'
  <2>1. \A i, j \in DOMAIN queue' : i = j
    BY <1>4
  <2>2. \A i \in DOMAIN queue' : queue'[i] = Root
    BY <1>4
  <2>3. IsLeaf(Root)' \/ Root \in StateNodes'
    BY <1>2, <1>7
  <2>4. \A i \in DOMAIN queue' : gotos'[queue'[i]] = <<>> \/ queue'[i] \in StateNodes'
    BY <2>2, <2>3 DEF IsLeaf
  <2> QED
    BY <1>2, <1>4, <2>1, <2>4 DEF GenQueue, Apart, IsLeaf
<1>9. \A m \in Nodes : ~ HasState(m)'
  BY <1>1 DEF HasState
<1>10. DOMAIN room' = {}
  BY <1>1
<1>11. \A m \in StateNodes : Len(m) = 2 => Front(m) \in Nodes
  <2> TAKE m \in StateNodes
  <2>1. m \in Nodes /\ (Len(m) = 2 => m # Root)
    BY <1>3 DEF StateNodes
  <2> QED
    BY <2>1 DEF BuiltTree, TrieInv, TrieShape
<1>12. Generated(Waiting)'
  <2>1. /\ id' \in [Nodes' -> {"none", "child", "path", "state"}]
        /\ \A m \in Waiting' : id'[m] \in {"none", "child"}
        /\ \A m \in Nodes' \ Waiting' : HasState(m)' <=> m \in StateNodes'
    BY <1>1, <1>2, <1>6
  <2>2. /\ DOMAIN room' = {m \in Nodes' : HasState(m)'}
        /\ \A m \in DOMAIN room' : room'[m] = RoomFor(m)'
    BY <1>2, <1>9, <1>10
  <2>3. /\ firstLevelNodes' =
             IF BranchingRoot' /\ Root \notin Waiting' THEN Children(Root)' ELSE {}
        /\ \A m \in secondLevelNodes' : BranchingRoot' /\ m \in Nodes' /\ Len(m) = 2
        /\ BranchingRoot' => \A m \in StateNodes' :
             Len(m) = 2 /\ Front(m) \notin Waiting' => m \in secondLevelNodes'
    BY <1>1, <1>2, <1>3, <1>6, <1>11
  <2> QED
    BY <2>1, <2>2, <2>3 DEF Generated
<1> QED
  BY <1>1, <1>8, <1>12

LEMMA StateGenerated ==
  ASSUME BuiltTree, GenQueue, Generated(Waiting), GenerateState
  PROVE  /\ Generated(Waiting)' /\ GenQueue' /\ TreeSame /\ file' = file
         /\ phase = "states" /\ phase' = "states"
<1>1. /\ TreeSame /\ phase = "states" /\ phase' = "states" /\ file' = file /\ AtHead(Head(queue))
  BY DEF GenerateState, TreeSame, tree, AtHead
<1> DEFINE n == Head(queue)
<1>2. \/ IsBranch(n) /\ GenerateBranch(n)
      \/ NumGotos(n) = 1 /\ GeneratePath(n)
      \/ /\ IsLeaf(n) /\ queue' = Tail(queue)
         /\ UNCHANGED <<room, firstLevelNodes, secondLevelNodes, id>>
  BY DEF GenerateState
<1> HIDE DEF n
<1>3. AtHead(n)
  BY <1>1 DEF n
<1> QED
  BY <1>1, <1>2, <1>3, BranchGenerated, PathGenerated, LeafGenerated

(* The states and their memory are made by generateStates and then stay.   *)
LEMMA GenStays ==
  ASSUME TreeInv, MarkInv, GenInv, AvoidFailToLeaves, Next
  PROVE  GenInv'
<1>1. CASE Build
  <2>1. phase \in BuildPhases /\ phase' \in BuildPhases /\ phase' # "states"
        /\ id' = id /\ room' = room
        /\ firstLevelNodes' = firstLevelNodes /\ secondLevelNodes' = secondLevelNodes
    BY <1>1, BuildKeeps DEF BuildPhases
  <2> QED
    BY <2>1 DEF GenInv
<1>2. CASE StartStates
  <2>1. phase = "built" /\ phase' = "states"
    BY <1>2 DEF StartStates
  <2>2. BuiltTree
    BY <2>1, TreeIsBuilt
  <2>3. room = <<>> /\ firstLevelNodes = {} /\ secondLevelNodes = {}
    BY <2>1 DEF GenInv, BuildPhases
  <2>4. Generated(Waiting)' /\ GenQueue'
    BY <1>2, <2>2, <2>3, StartGenerates
  <2> QED
    BY <2>1, <2>4 DEF GenInv, BuildPhases
<1>3. CASE GenerateState
  <2>1. phase = "states"
    BY <1>3 DEF GenerateState
  <2>2. BuiltTree /\ Generated(Waiting) /\ GenQueue
    BY <2>1, TreeIsBuilt DEF GenInv
  <2>3. Generated(Waiting)' /\ GenQueue' /\ phase' = "states"
    BY <1>3, <2>2, StateGenerated
  <2> QED
    BY <2>3 DEF GenInv, BuildPhases
<1>4. CASE StatesDone
  <2>1. /\ phase = "states" /\ phase' = "data" /\ queue = <<>> /\ TreeSame
        /\ id' = id /\ room' = room
        /\ firstLevelNodes' = firstLevelNodes /\ secondLevelNodes' = secondLevelNodes
    BY <1>4 DEF StatesDone, TreeSame, tree, machine
  <2>2. Generated({})
    BY <2>1, AllGenerated DEF GenInv
  <2>3. Generated({})'
    BY <2>1, <2>2, GeneratedKept
  <2> QED
    BY <2>1, <2>3 DEF GenInv, BuildPhases
<1>5. CASE SetData \/ MachineReady \/ StartScan \/ ScanStep
  <2>1. /\ TreeSame /\ id' = id /\ room' = room
        /\ firstLevelNodes' = firstLevelNodes /\ secondLevelNodes' = secondLevelNodes
        /\ phase \notin BuildPhases \cup {"states"}
        /\ phase' \notin BuildPhases \cup {"states"}
    BY <1>5, LaterKeeps
  <2>2. Generated({})
    BY <2>1 DEF GenInv
  <2>3. Generated({})'
    BY <2>1, <2>2, GeneratedKept
  <2> QED
    BY <2>1, <2>3 DEF GenInv
<1> QED
  BY <1>1, <1>2, <1>3, <1>4, <1>5 DEF Next

LEMMA GenUnchanged ==
  ASSUME GenInv, UNCHANGED vars
  PROVE  GenInv'
<1>1. /\ TreeSame /\ id' = id /\ room' = room /\ queue' = queue /\ phase' = phase
      /\ firstLevelNodes' = firstLevelNodes /\ secondLevelNodes' = secondLevelNodes
  BY DEF vars, treeVars, tree, machine, TreeSame
<1>2. /\ Generated({}) => Generated({})'
      /\ Generated(Waiting) => Generated(Waiting)'
      /\ GenQueue => GenQueue'
  BY <1>1, GeneratedKept
<1> QED
  BY <1>1, <1>2 DEF GenInv

(* What the machine puts into the queue are nodes: the tree stays what     *)
(* acBuildTree made it.                                                    *)
LEMMA TreeStays ==
  ASSUME TreeInv, MarkInv, GenInv, AvoidFailToLeaves, Next
  PROVE  TreeInv' /\ MarkInv'
<1>1. CASE Build
  BY <1>1, TreeGrows, MarkGrows DEF Build
<1> SUFFICES ASSUME ~ Build PROVE TreeInv' /\ MarkInv'
  BY <1>1
<1>2. /\ TreeSame /\ file' = file /\ phase \notin {"enter", "failures", "avoid"}
      /\ phase' \notin {"enter", "failures", "avoid"}
  <2>1. CASE StartStates
    BY <2>1 DEF StartStates, TreeSame, tree
  <2>2. CASE GenerateState
    BY <2>2 DEF GenerateState, TreeSame, tree
  <2>3. CASE StatesDone
    BY <2>3 DEF StatesDone, TreeSame, tree
  <2>4. CASE SetData \/ MachineReady \/ StartScan \/ ScanStep
    BY <2>4, LaterKeeps DEF BuildPhases
  <2> QED
    BY <2>1, <2>2, <2>3, <2>4 DEF Next
<1>3. BuiltTree
  BY <1>2, TreeIsBuilt
<1>4. queue \in Seq(Nodes) /\ Root \in Nodes
  BY <1>3, NodeFacts DEF TreeInv
<1>5. queue' \in Seq(Nodes)
  <2>1. CASE StartStates \/ StatesDone
    <3>1. queue' = <<Root>>
      BY <2>1 DEF StartStates, StatesDone
    <3> QED
      BY <1>4, <3>1
  <2>2. CASE GenerateState
    <3>1. GenQueue' /\ Nodes' = Nodes
      <4>1. phase = "states"
        BY <2>2 DEF GenerateState
      <4>2. Generated(Waiting) /\ GenQueue
        BY <4>1 DEF GenInv
      <4> QED
        BY <1>2, <1>3, <2>2, <4>2, StateGenerated, SameTree DEF TreeSame
    <3> QED
      BY <3>1 DEF GenQueue
  <2>3. CASE SetData
    <3> DEFINE n == Head(queue)
               next == IF IsBranch(n) THEN WithState(gotos[n])
                       ELSE IF Continues(n) THEN <<PathEnd(n)>> ELSE <<>>
    <3>1. /\ phase = "data" /\ queue # <<>>
          /\ queue' = queue \/ (HasState(n) /\ queue' = Tail(queue) \o next)
      BY <2>3 DEF SetData
    <3>2. n \in Nodes /\ Tail(queue) \in Seq(Nodes)
      BY <1>4, <3>1
    <3>3. HasState(n) => n \in StateNodes
      BY <3>1, <3>2 DEF GenInv, Generated, BuildPhases
    <3> HIDE DEF n
    <3>4. ASSUME HasState(n) PROVE next \in Seq(Nodes)
      <4>1. gotos[n] \in Seq(Nodes) /\ NumGotos(n) \in Nat /\ NumGotos(n) # 0
        BY <3>2, <3>3, <3>4, <1>3, NodeFacts DEF StateNodes
      <4>2. CASE IsBranch(n)
        BY <4>1, <4>2, WithStateMeans
      <4>3. CASE ~ IsBranch(n) /\ Continues(n)
        <5>1. NumGotos(n) = 1
          BY <4>1, <4>3 DEF IsBranch
        <5>2. PathIs(n, Path(n), Len(Path(n)))
          BY <1>3, <3>2, <5>1, PathFacts
        <5>3. PathEnd(n) \in Nodes
          BY <4>3, <5>2 DEF PathIs, PathEnd
        <5> QED
          BY <4>3, <5>3
      <4>4. CASE ~ IsBranch(n) /\ ~ Continues(n)
        BY <4>4, EmptySeq
      <4> QED
        BY <4>2, <4>3, <4>4
    <3> HIDE DEF next
    <3> QED
      BY <1>4, <3>1, <3>2, <3>4, ConcatProperties
  <2>4. CASE MachineReady \/ StartScan \/ ScanStep
    <3>1. queue' = queue
      <4>1. CASE MachineReady \/ StartScan
        BY <4>1 DEF MachineReady, StartScan
      <4>2. CASE ScanStep
        BY <4>2 DEF ScanStep, RootByte, DropPacket, BranchByte, PathBytes, EndOfPacket, treeVars
      <4> QED
        BY <2>4, <4>1, <4>2
    <3> QED
      BY <1>4, <3>1
  <2> QED
    BY <2>1, <2>2, <2>3, <2>4 DEF Next
<1> QED
  BY <1>2, <1>5, TreeKept, MarkKept DEF TreeSame

-----------------------------------------------------------------------------
(* A failure leads to the root or to a node with a state.                  *)
LEMMA TargetHasState ==
  ASSUME BuiltTree, NEW n \in Nodes
  PROVE  /\ failure[n] = Root \/ (failure[n] \in StateNodes /\ Marked(failure[n]))
         /\ failure[n] \in Nodes
         /\ ~ IsLeaf(Root) => failure[n] \in StateNodes
<1>1. failure[n] \in Nodes /\ Root \in Nodes /\ failure[Root] = Root
  BY NodeFacts
<1>2. ASSUME failure[n] # Root
      PROVE  failure[n] \in StateNodes /\ Marked(failure[n])
  <2>1. n # Root /\ ~ IsLeaf(failure[n])
    BY <1>1, <1>2 DEF BuiltTree
  <2>2. n \in Failing(failure[n])
    BY DEF Failing, BuiltTree, MovedInv
  <2>3. Marked(failure[n])
    BY <1>1, <1>2, <2>2 DEF BuiltTree, MarkedRight, Marked
  <2> QED
    BY <1>1, <2>1, <2>3, Zenon DEF StateNodes
<1>3. ~ IsLeaf(Root) => Root \in StateNodes
  BY <1>1 DEF StateNodes
<1> QED
  BY <1>1, <1>2, <1>3

(* The states are known: what the recursions of setStatesData come to.     *)
StatesKnown == BuiltTree /\ ~ IsLeaf(Root) /\ \A n \in Nodes : HasState(n) <=> n \in StateNodes

LEMMA RealNodeMeans ==
  ASSUME StatesKnown, NEW n \in Nodes
  PROVE  RealNode(n) = IF n \in StateNodes THEN n ELSE failure[n]
<1> DEFINE Step(h, m) == IF HasState(m) THEN m ELSE h[failure[m]]
           w == CHOOSE w : w = [m \in Nodes |-> Step(w, m)]
           e == [m \in Nodes |-> IF HasState(m) THEN m ELSE failure[m]]
<1>1. \A m \in Nodes : failure[m] \in Nodes /\ HasState(failure[m])
  BY TargetHasState DEF StatesKnown
<1>2. e = [m \in Nodes |-> Step(e, m)]
  <2>1. \A m \in Nodes : e[m] = IF HasState(m) THEN m ELSE failure[m]
    OBVIOUS
  <2>2. \A m \in Nodes : e[failure[m]] = failure[m]
    BY <1>1
  <2>3. \A m \in Nodes : e[m] = Step(e, m)
    BY <2>1, <2>2
  <2> QED
    BY <2>3
<1>3. w = [m \in Nodes |-> Step(w, m)]
  <2> HIDE DEF e
  <2> QED
    BY <1>2, Zenon
<1>4. RealNode(n) = w[n]
  BY DEF RealNode
<1> HIDE DEF w
<1>5. \A m \in Nodes : w[m] = IF HasState(m) THEN m ELSE w[failure[m]]
  BY <1>3
<1> QED
  BY <1>1, <1>4, <1>5 DEF StatesKnown

LEMMA RealMatchMeans ==
  ASSUME StatesKnown, NEW n \in Nodes
  PROVE  RealMatch(n) <=> Match(n) \/ (n \notin StateNodes /\ Match(failure[n]))
<1> DEFINE Step(h, m) == Match(m) \/ (~ HasState(m) /\ h[failure[m]])
           w == CHOOSE w : w = [m \in Nodes |-> Step(w, m)]
           e == [m \in Nodes |-> Match(m) \/ (~ HasState(m) /\ Match(failure[m]))]
<1>1. \A m \in Nodes : failure[m] \in Nodes /\ HasState(failure[m])
  BY TargetHasState DEF StatesKnown
<1>2. e = [m \in Nodes |-> Step(e, m)]
  <2>1. \A m \in Nodes : e[failure[m]] = Match(failure[m])
    <3>1. \A m \in Nodes : e[m] = (Match(m) \/ (~ HasState(m) /\ Match(failure[m])))
      BY Zenon
    <3> HIDE DEF e
    <3>2. ASSUME NEW m \in Nodes
          PROVE  e[failure[m]] = Match(failure[m])
      <4>1. e[failure[m]] =
              (Match(failure[m]) \/ (~ HasState(failure[m]) /\ Match(failure[failure[m]])))
        BY <1>1, <3>1
      <4>2. HasState(failure[m]) /\ Match(failure[m]) \in BOOLEAN
        BY <1>1 DEF Match
      <4> QED
        BY <4>1, <4>2, Zenon
    <3> QED
      BY <3>2
  <2>2. \A m \in Nodes : Step(e, m) = (Match(m) \/ (~ HasState(m) /\ Match(failure[m])))
    <3> HIDE DEF e
    <3> QED
      BY <2>1, Zenon
  <2> QED
    BY <2>2, Zenon
<1>3. w = [m \in Nodes |-> Step(w, m)]
  <2> HIDE DEF e
  <2> QED
    BY <1>2, Zenon
<1>4. RealMatch(n) = w[n]
  BY DEF RealMatch
<1> HIDE DEF w
<1>5. ASSUME NEW m \in Nodes PROVE w[m] = (Match(m) \/ (~ HasState(m) /\ w[failure[m]]))
  BY <1>3, Zenon
<1>6. w[failure[n]] <=> Match(failure[n])
  <2>1. w[failure[n]] = (Match(failure[n]) \/ (~ HasState(failure[n]) /\ w[failure[failure[n]]]))
    BY <1>1, <1>5
  <2> QED
    BY <1>1, <2>1, Zenon
<1>7. w[n] = (Match(n) \/ (~ HasState(n) /\ w[failure[n]]))
  BY <1>5
<1> QED
  BY <1>4, <1>6, <1>7, Zenon DEF StatesKnown

(* No failure passes a leaf: what setRealPointers reports does not happen. *)
LEMMA NoLeafPassed ==
  ASSUME StatesKnown, NEW n \in Nodes
  PROVE  ~ PassesLeaf(failure[n])
<1> DEFINE Step(h, m) == ~ HasState(m) /\ (Match(m) \/ h[failure[m]])
           w == CHOOSE w : w = [m \in Nodes |-> Step(w, m)]
           e == [m \in Nodes |-> ~ HasState(m) /\ Match(m)]
<1>1. \A m \in Nodes : failure[m] \in Nodes /\ HasState(failure[m])
  BY TargetHasState DEF StatesKnown
<1>2. e = [m \in Nodes |-> Step(e, m)]
  <2>1. \A m \in Nodes : e[m] = (~ HasState(m) /\ Match(m))
    BY Zenon
  <2>2. ASSUME NEW m \in Nodes PROVE ~ e[failure[m]]
    <3> HIDE DEF e
    <3>1. e[failure[m]] = (~ HasState(failure[m]) /\ Match(failure[m]))
      BY <1>1, <2>1
    <3> QED
      BY <1>1, <3>1, Zenon
  <2>3. \A m \in Nodes : Step(e, m) = (~ HasState(m) /\ Match(m))
    <3> HIDE DEF e
    <3> QED
      BY <2>2, Zenon
  <2> QED
    BY <2>3, Zenon
<1>3. w = [m \in Nodes |-> Step(w, m)]
  <2> HIDE DEF e
  <2> QED
    BY <1>2, Zenon
<1>4. PassesLeaf(failure[n]) = w[failure[n]]
  BY DEF PassesLeaf
<1> HIDE DEF w
<1>5. ASSUME NEW m \in Nodes PROVE w[m] = (~ HasState(m) /\ (Match(m) \/ w[failure[m]]))
  BY <1>3, Zenon
<1>6. w[failure[n]] = (~ HasState(failure[n]) /\ (Match(failure[n]) \/ w[failure[failure[n]]]))
  BY <1>1, <1>5
<1> QED
  BY <1>1, <1>4, <1>6, Zenon

LEMMA SurvivingMeans ==
  ASSUME BuiltTree, NEW n \in Nodes
  PROVE  Surviving(failure[n]) = failure[n]
<1> DEFINE Step(h, m) == IF m = Root \/ ~ IsLeaf(m) THEN m ELSE h[failure[m]]
           w == CHOOSE w : w = [m \in Nodes |-> Step(w, m)]
           e == [m \in Nodes |-> IF m = Root \/ ~ IsLeaf(m) THEN m ELSE failure[m]]
<1>1. \A m \in Nodes : failure[m] \in Nodes /\ (failure[m] = Root \/ ~ IsLeaf(failure[m]))
  <2>1. failure[Root] = Root
    BY NodeFacts
  <2> QED
    BY <2>1, NodeFacts DEF BuiltTree
<1>2. e = [m \in Nodes |-> Step(e, m)]
  <2>1. \A m \in Nodes : e[m] = IF m = Root \/ ~ IsLeaf(m) THEN m ELSE failure[m]
    OBVIOUS
  <2>2. \A m \in Nodes : e[failure[m]] = failure[m]
    BY <1>1
  <2>3. \A m \in Nodes : e[m] = Step(e, m)
    BY <2>1, <2>2
  <2> QED
    BY <2>3
<1>3. w = [m \in Nodes |-> Step(w, m)]
  <2> HIDE DEF e
  <2> QED
    BY <1>2, Zenon
<1>4. Surviving(failure[n]) = w[failure[n]]
  BY DEF Surviving
<1> HIDE DEF w
<1>5. \A m \in Nodes : w[m] = IF m = Root \/ ~ IsLeaf(m) THEN m ELSE w[failure[m]]
  BY <1>3
<1> QED
  BY <1>1, <1>4, <1>5

-----------------------------------------------------------------------------
(* Counting: of N pointers in a row, those outside G are at most as many   *)
(* as N and the size of G leave.                                           *)
Counted(N, f, G, J, h, Y) ==
  /\ N \in Nat /\ \A x \in G : \E i \in 1 .. N : x = f[i]
  /\ J \in SUBSET (1 .. N) /\ \A i \in J : f[i] \notin G
  /\ \A i \in J : h[i] \in Y
  /\ \A y \in Y : \E i \in J : y = h[i]

LEMMA Leftover ==
  ASSUME NEW N, NEW f, NEW G, NEW J, NEW h, NEW Y, Counted(N, f, G, J, h, Y)
  PROVE  N - Cardinality(G) \in Nat /\ ~ (Cardinality(Y) > N - Cardinality(G))
<1>0. /\ N \in Nat /\ \A x \in G : \E i \in 1 .. N : x = f[i]
      /\ J \in SUBSET (1 .. N) /\ \A i \in J : f[i] \notin G
      /\ \A i \in J : h[i] \in Y
      /\ \A y \in Y : \E i \in J : y = h[i]
  BY DEF Counted
<1> DEFINE I == {i \in 1 .. N : f[i] \in G}
           g == [i \in I |-> f[i]]
           k == [i \in J |-> h[i]]
           R == (1 .. N) \ I
<1>1. IsFiniteSet(1 .. N) /\ Cardinality(1 .. N) = N
  BY <1>0, FS_Interval
<1>2. IsFiniteSet(I) /\ Cardinality(I) <= N /\ Cardinality(I) \in Nat
  <2>1. I \in SUBSET (1 .. N)
    OBVIOUS
  <2> QED
    BY <1>0, <1>1, <2>1, FS_Subset, FS_CardinalityType
<1>3. g \in Surjection(I, G)
  BY <1>0 DEF Surjection
<1>4. IsFiniteSet(G) /\ Cardinality(G) <= Cardinality(I) /\ Cardinality(G) \in Nat
  BY <1>2, <1>3, FS_Surjection, FS_CardinalityType
<1> HIDE DEF g
<1>5. J \in SUBSET R /\ R \in SUBSET (1 .. N) /\ (1 .. N) \cap I = I
  BY <1>0
<1> HIDE DEF I
<1>6. IsFiniteSet(R) /\ Cardinality(R) = N - Cardinality(I)
  <2>1. Cardinality(R) = Cardinality(1 .. N) - Cardinality((1 .. N) \cap I)
    BY <1>1, FS_Difference
  <2> QED
    BY <1>1, <1>5, <2>1, FS_Subset
<1> HIDE DEF R
<1>7. IsFiniteSet(J) /\ Cardinality(J) <= Cardinality(R) /\ Cardinality(J) \in Nat
  BY <1>5, <1>6, FS_Subset, FS_CardinalityType
<1>8. k \in Surjection(J, Y)
  BY <1>0 DEF Surjection
<1> HIDE DEF k
<1>9. Cardinality(Y) <= Cardinality(J) /\ Cardinality(Y) \in Nat
  BY <1>7, <1>8, FS_Surjection, FS_CardinalityType
<1> QED
  BY <1>0, <1>2, <1>4, <1>6, <1>7, <1>9

LEMMA RoomLeft ==
  ASSUME NEW N \in Nat, NEW f, NEW G, \A x \in G : \E i \in 1 .. N : x = f[i]
  PROVE  N - Cardinality(G) \in Nat
<1>1. Counted(N, f, G, {}, f, {})
  BY DEF Counted
<1> QED
  BY <1>1, Leftover, Zenon

LEMMA ChildIsGoto ==
  ASSUME BuiltTree, NEW n \in Nodes
  PROVE  Children(n) = {gotos[n][i] : i \in 1 .. NumGotos(n)} /\ NumGotos(n) \in Nat
<1>1. DOMAIN gotos[n] = 1 .. NumGotos(n) /\ NumGotos(n) \in Nat
  BY NodeFacts
<1> QED
  BY <1>1 DEF Children, ToSet

LEMMA StateShape ==
  ASSUME BuiltTree, NEW n \in StateNodes
  PROVE  /\ n \in Nodes /\ n \in Strings /\ Len(n) \in Nat /\ ~ IsLeaf(n)
         /\ IsBranch(n) \/ (~ IsBranch(n) /\ NumGotos(n) = 1)
<1>1. n \in Nodes /\ ~ IsLeaf(n)
  BY DEF StateNodes
<1>2. NumGotos(n) \in Nat /\ NumGotos(n) # 0 /\ n \in Strings /\ Len(n) \in Nat
  BY <1>1, NodeFacts
<1> DEFINE N == NumGotos(n)
<1>3. N \in Nat /\ N # 0
  BY <1>2
<1> HIDE DEF N
<1>4. N > 1 \/ (~ (N > 1) /\ N = 1)
  BY <1>3
<1> QED
  BY <1>1, <1>2, <1>4 DEF N, IsBranch

(* The memory of a state: a path of L nodes has L - 1 pointers.            *)
LEMMA PathPointers ==
  ASSUME BuiltTree, NEW n \in Nodes, NumGotos(n) = 1, NEW p, p = Path(n), NEW L, L = Len(p)
  PROVE  /\ Range(Front(p)) = {p[i] : i \in 1 .. L - 1} /\ L - 1 \in Nat
         /\ L \in Nat /\ L >= 2 /\ \A i \in 1 .. L : p[i] \in Nodes
<1>1. p \in Seq(Nodes) /\ L \in Nat /\ L >= 2 /\ \A i \in 1 .. L : p[i] \in Nodes
  <2>1. PathIs(n, p, L)
    BY PathFacts
  <2> QED
    BY <2>1 DEF PathIs
<1>2. Front(p) = [i \in 1 .. L - 1 |-> p[i]]
  BY <1>1 DEF Front
<1>3. DOMAIN Front(p) = 1 .. L - 1 /\ \A i \in 1 .. L - 1 : Front(p)[i] = p[i]
  BY <1>2
<1>4. L - 1 \in Nat
  BY <1>1
<1> QED
  BY <1>1, <1>3, <1>4 DEF Range

LEMMA RoomIsNat ==
  ASSUME BuiltTree, NEW n \in StateNodes
  PROVE  RoomFor(n) \in Nat
<1>1. n \in Nodes /\ (IsBranch(n) \/ (~ IsBranch(n) /\ NumGotos(n) = 1))
  BY StateShape
<1>2. CASE IsBranch(n)
  <2> DEFINE G == GotosToL12(n)
             f == gotos[n]
             N == NumGotos(n)
  <2>1. N \in Nat /\ \A x \in G : \E i \in 1 .. N : x = f[i]
    BY <1>1, ChildIsGoto DEF GotosToL12
  <2> HIDE DEF G, f, N
  <2>2. N - Cardinality(G) \in Nat
    BY <2>1, RoomLeft
  <2> QED
    BY <1>2, <2>2 DEF RoomFor, G, N
<1>3. CASE ~ IsBranch(n) /\ NumGotos(n) = 1
  <2> DEFINE G == FailuresToL012(n)
             f == Path(n)
             N == Len(Path(n)) - 1
  <2>1. N \in Nat /\ \A x \in G : \E i \in 1 .. N : x = f[i]
    <3>1. Range(Front(f)) = {f[i] : i \in 1 .. N} /\ N \in Nat
      BY <1>1, <1>3, PathPointers
    <3>2. G \subseteq Range(Front(f))
      BY DEF FailuresToL012
    <3> HIDE DEF G, f, N
    <3> QED
      BY <3>1, <3>2
  <2> HIDE DEF G, f, N
  <2>2. N - Cardinality(G) \in Nat
    BY <2>1, RoomLeft
  <2> QED
    BY <1>3, <2>2 DEF RoomFor, G, N
<1> QED
  BY <1>1, <1>2, <1>3

(* The first two levels, if the root is a branch.                          *)
LEMMA Levels ==
  ASSUME BuiltTree, Generated({}), BranchingRoot
  PROVE  /\ StatesKnown /\ Root \in StateNodes /\ IsBranch(Root)
         /\ firstLevelNodes = Children(Root) /\ \A m \in Children(Root) : Len(m) = 1
         /\ \A m \in secondLevelNodes : Len(m) = 2
         /\ \A n \in StateNodes : PtrType(n) = IF Len(n) = 1 THEN "level1"
                                               ELSE IF Len(n) = 2 THEN "level2" ELSE "regular"
<1>1. /\ \A n \in Nodes : HasState(n) <=> n \in StateNodes
      /\ firstLevelNodes = Children(Root)
      /\ \A n \in secondLevelNodes : n \in Nodes /\ Len(n) = 2
      /\ \A n \in StateNodes : Len(n) = 2 => n \in secondLevelNodes
  BY DEF Generated
<1>2. Root \in Nodes /\ Len(Root) = 0 /\ IsBranch(Root) /\ ~ IsLeaf(Root) /\ Root \in StateNodes
  <2>1. Root \in Nodes /\ Len(Root) = 0 /\ (IsLeaf(Root) <=> NumGotos(Root) = 0)
    BY NodeFacts
  <2>2. NumGotos(Root) > 1
    BY DEF BranchingRoot, IsBranch
  <2> QED
    BY <2>1, <2>2 DEF StateNodes, IsBranch
<1>3. \A m \in Children(Root) : Len(m) = 1
  <2> TAKE m \in Children(Root)
  <2>1. Len(m) = Len(Root) + 1
    BY <1>2, ChildMeans DEF BuiltTree
  <2> QED
    BY <1>2, <2>1
<1>4. ASSUME NEW n \in StateNodes, Len(n) = 1 PROVE n \in Children(Root)
  <2>0. n \in Nodes /\ n \in Strings
    BY StateShape
  <2>00. n # Root
    <3>1. Len(Root) = 0
      BY <1>2
    <3> QED
      BY <1>4, <3>1
  <2>1. n \in Nodes /\ n # Root /\ n \in Strings /\ n # <<>>
    BY <2>0, <2>00 DEF Root
  <2>2. Len(Front(n)) = Len(n) - 1 /\ Front(n) \in Nodes
    BY <2>1, FrontLast DEF BuiltTree, TrieInv, TrieShape
  <2>3. Front(n) = Root
    BY <1>4, <2>2, NodeFacts
  <2> QED
    BY <1>2, <2>1, <2>3 DEF BuiltTree, TrieInv
<1>5. ASSUME NEW n \in StateNodes
      PROVE  PtrType(n) = IF Len(n) = 1 THEN "level1"
                          ELSE IF Len(n) = 2 THEN "level2" ELSE "regular"
  <2>1. CASE Len(n) = 1
    BY <1>1, <1>4, <2>1 DEF PtrType
  <2>2. CASE Len(n) = 2
    BY <1>1, <1>3, <2>2 DEF PtrType
  <2>3. CASE Len(n) # 1 /\ Len(n) # 2
    BY <1>1, <1>3, <2>3 DEF PtrType
  <2> QED
    BY <2>1, <2>2, <2>3
<1>6. StatesKnown
  BY <1>1, <1>2 DEF StatesKnown
<1>7. \A m \in secondLevelNodes : Len(m) = 2
  BY <1>1
<1> QED
  BY <1>1, <1>2, <1>3, <1>5, <1>6, <1>7

(* The pointers of a branch, as it stores them unless it is a lookup table. *)
LEMMA BranchFits ==
  ASSUME BuiltTree, Generated({}), BranchingRoot, NEW n \in StateNodes, IsBranch(n),
         StateType(n) # "LT"
  PROVE  ~ (Stored(BranchData(n)) > RoomFor(n))
<1> DEFINE d == BranchData(n)
           f == gotos[n]
           N == NumGotos(n)
           G == GotosToL12(n)
           J == {i \in 1 .. N : PtrType(RealNode(f[i])) = "regular"}
           h == [i \in 1 .. N |-> Last(f[i])]
           Y == {h[i] : i \in J}
           D == {c \in DOMAIN d.gotos : d.gotos[c].type = "regular"}
<1>1. /\ StatesKnown /\ Root \in StateNodes
      /\ \A k \in StateNodes : PtrType(k) = IF Len(k) = 1 THEN "level1"
                                            ELSE IF Len(k) = 2 THEN "level2" ELSE "regular"
  BY Levels
<1>2. n \in Nodes /\ Children(n) = {f[i] : i \in 1 .. N} /\ N \in Nat
  BY StateShape, ChildIsGoto
<1>3. \A m \in Children(n) : /\ m \in Nodes /\ Append(n, Last(m)) = m /\ Front(m) = n
                             /\ Len(m) = Len(n) + 1 /\ Len(n) \in Nat
  BY <1>2, ChildMeans DEF BuiltTree
<1>4. ASSUME NEW i \in J PROVE f[i] \notin G
  <2> DEFINE m == f[i]
  <2> SUFFICES ASSUME m \in G PROVE FALSE
    OBVIOUS
  <2>1. m \in Children(n) /\ Len(m) <= 2 /\ (IsLeaf(m) => Len(Surviving(failure[m])) \in 1 .. 2)
        /\ PtrType(RealNode(m)) = "regular"
    BY <1>4 DEF GotosToL12
  <2> HIDE DEF m
  <2>2. m \in Nodes /\ Front(m) = n /\ Len(m) = Len(n) + 1 /\ Len(n) \in Nat
    BY <1>3, <2>1
  <2>3. CASE ~ IsLeaf(m)
    <3>1. m \in StateNodes
      BY <2>2, <2>3, Zenon DEF StateNodes
    <3>2. RealNode(m) = m
      BY <1>1, <2>2, <3>1, RealNodeMeans
    <3>3. Len(m) = 1 \/ Len(m) = 2
      <4> DEFINE x == Len(m)
                 y == Len(n)
      <4>1. x <= 2 /\ x = y + 1 /\ y \in Nat
        BY <2>1, <2>2
      <4> HIDE DEF x, y
      <4>2. x = 1 \/ x = 2
        BY <4>1
      <4> QED
        BY <4>2 DEF x
    <3> QED
      BY <1>1, <2>1, <3>1, <3>2, <3>3
  <2>4. CASE IsLeaf(m)
    <3>1. m \notin StateNodes
      BY <2>4 DEF StateNodes
    <3>2. RealNode(m) = failure[m]
      BY <1>1, <2>2, <3>1, RealNodeMeans
    <3>3. failure[m] \in StateNodes
      BY <1>1, <2>2, TargetHasState DEF StatesKnown
    <3>4. Len(failure[m]) \in 1 .. 2
      BY <2>1, <2>2, <2>4, SurvivingMeans
    <3>5. Len(failure[m]) = 1 \/ Len(failure[m]) = 2
      BY <3>4
    <3> QED
      BY <1>1, <2>1, <3>2, <3>3, <3>5
  <2> QED
    BY <2>3, <2>4
<1>5. d.type # "PC" /\ DOMAIN d.gotos = {Last(m) : m \in Children(n)}
      /\ \A c \in DOMAIN d.gotos : d.gotos[c] = Pointer(Append(n, c))
  <2>1. d.type = StateType(n)
    BY DEF BranchData
  <2>2. StateType(n) # "PC"
    BY DEF StateType
  <2>3. d.gotos = [c \in {Last(m) : m \in Children(n)} |-> GotoPointer(n, Pointer(Append(n, c)))]
    BY DEF BranchData
  <2>4. \A q : GotoPointer(n, q) = q
    BY DEF GotoPointer
  <2> HIDE DEF d
  <2> QED
    BY <2>1, <2>2, <2>3, <2>4
<1>6. \A q : Pointer(q).type = PtrType(RealNode(q))
  BY DEF Pointer
<1> HIDE DEF d
<1>7. D = Y
  <2>1. ASSUME NEW c \in D PROVE c \in Y
    <3>1. PICK m \in Children(n) : c = Last(m)
      BY <1>5
    <3>2. PICK i \in 1 .. N : m = f[i]
      BY <1>2
    <3>3. i \in J /\ h[i] = c
      BY <1>3, <1>5, <1>6, <3>1, <3>2
    <3> QED
      BY <3>3
  <2>2. ASSUME NEW i \in J PROVE h[i] \in D
    <3>1. f[i] \in Children(n) /\ h[i] = Last(f[i]) /\ PtrType(RealNode(f[i])) = "regular"
      BY <1>2
    <3>2. Append(n, h[i]) = f[i]
      BY <1>3, <3>1
    <3> QED
      BY <1>5, <1>6, <3>1, <3>2
  <2> HIDE DEF h, J
  <2> QED
    BY <2>1, <2>2
<1>8. Stored(d) = Cardinality(D)
  BY <1>5 DEF Stored
<1>9. \A x \in G : \E i \in 1 .. N : x = f[i]
  BY <1>2 DEF GotosToL12
<1>10. RoomFor(n) = N - Cardinality(G)
  BY DEF RoomFor
<1>11. J \in SUBSET (1 .. N)
  OBVIOUS
<1>13. (\A i \in J : h[i] \in Y) /\ \A y \in Y : \E i \in J : y = h[i]
  OBVIOUS
<1>14. N \in Nat /\ \A i \in J : f[i] \notin G
  BY <1>2, <1>4
<1> HIDE DEF J, h, f, N, G, D, Y
<1>15. Counted(N, f, G, J, h, Y)
  BY <1>9, <1>11, <1>13, <1>14, Zenon DEF Counted
<1>12. ~ (Cardinality(Y) > N - Cardinality(G))
  BY <1>15, Leftover, Zenon
<1> QED
  BY <1>7, <1>8, <1>10, <1>12 DEF d

LEMMA PathFits ==
  ASSUME BuiltTree, Generated({}), BranchingRoot, NEW n \in StateNodes, ~ IsBranch(n)
  PROVE  ~ (Stored(PathData(n)) > RoomFor(n))
<1> DEFINE d == PathData(n)
           f == Path(n)
           N == Len(f) - 1
           G == FailuresToL012(n)
           J == {i \in 1 .. N : FailPointer(failure[f[i]]).type = "regular"}
           h == [i \in 1 .. N |-> i]
           Y == {h[i] : i \in J}
           D == {i \in DOMAIN d.fails : d.fails[i].type = "regular"}
<1>1. /\ StatesKnown /\ Root \in StateNodes
      /\ \A k \in StateNodes : PtrType(k) = IF Len(k) = 1 THEN "level1"
                                            ELSE IF Len(k) = 2 THEN "level2" ELSE "regular"
  BY Levels
<1>2. NumGotos(n) = 1 /\ n \in Nodes
  BY StateShape
<1>3. /\ Range(Front(f)) = {f[i] : i \in 1 .. N} /\ N \in Nat
      /\ \A i \in 1 .. N : f[i] \in Nodes
  <2> DEFINE L == Len(f)
  <2>1. Range(Front(f)) = {f[i] : i \in 1 .. L - 1} /\ L - 1 \in Nat
         /\ L \in Nat /\ \A i \in 1 .. L : f[i] \in Nodes
    BY <1>2, PathPointers
  <2> HIDE DEF L, f
  <2>2. \A i \in 1 .. L - 1 : i \in 1 .. L
    BY <2>1
  <2> QED
    BY <2>1, <2>2 DEF L
<1>4. ASSUME NEW i \in J PROVE f[i] \notin G
  <2> DEFINE t == failure[f[i]]
  <2> SUFFICES ASSUME f[i] \in G PROVE FALSE
    OBVIOUS
  <2>1. FailPointer(t).type = "regular" /\ Len(t) <= 2
    BY <1>4 DEF FailuresToL012
  <2>2. t \in StateNodes
    BY <1>1, <1>3, TargetHasState DEF StatesKnown
  <2> HIDE DEF t
  <2>3. t \in Nodes /\ Len(t) \in Nat /\ (Len(t) = 0 => t = Root)
    BY <2>2, NodeFacts DEF StateNodes
  <2>4. RealNode(t) = t
    BY <1>1, <2>2, <2>3, RealNodeMeans
  <2>5. Pointer(t) = [state |-> t, type |-> PtrType(t), match |-> RealMatch(t)]
    BY <2>4 DEF Pointer
  <2>6. t = Root => FailPointer(t).type = "level0"
    BY <2>4, <2>5 DEF FailPointer
  <2>7. t # Root => FailPointer(t).type = PtrType(t)
    BY <2>4, <2>5 DEF FailPointer
  <2>8. t = Root \/ Len(t) = 1 \/ Len(t) = 2
    <3> DEFINE x == Len(t)
    <3>1. x \in Nat /\ x <= 2
      BY <2>1, <2>3
    <3> HIDE DEF x
    <3>2. x = 0 \/ x = 1 \/ x = 2
      BY <3>1
    <3> QED
      BY <2>3, <3>2 DEF x
  <2> QED
    BY <1>1, <2>1, <2>2, <2>6, <2>7, <2>8
<1>5. d.type = "PC" /\ d.fails = [i \in 1 .. N |-> FailPointer(failure[f[i]])]
  BY DEF PathData
<1> HIDE DEF d
<1>7. D = Y
  BY <1>5
<1>8. Stored(d) = Cardinality(D)
  BY <1>5 DEF Stored
<1>9. \A x \in G : \E i \in 1 .. N : x = f[i]
  <2>1. G \subseteq Range(Front(f))
    BY DEF FailuresToL012
  <2> HIDE DEF G, f, N
  <2> QED
    BY <1>3, <2>1
<1>10. RoomFor(n) = N - Cardinality(G)
  BY DEF RoomFor
<1>11. J \in SUBSET (1 .. N)
  OBVIOUS
<1>13. (\A i \in J : h[i] \in Y) /\ \A y \in Y : \E i \in J : y = h[i]
  OBVIOUS
<1>14. N \in Nat /\ \A i \in J : f[i] \notin G
  BY <1>3, <1>4
<1> HIDE DEF J, h, f, N, G, D, Y
<1>15. Counted(N, f, G, J, h, Y)
  BY <1>9, <1>11, <1>13, <1>14, Zenon DEF Counted
<1>12. ~ (Cardinality(Y) > N - Cardinality(G))
  BY <1>15, Leftover, Zenon
<1> QED
  BY <1>7, <1>8, <1>10, <1>12 DEF d

-----------------------------------------------------------------------------
(* What is filled in stays as the tree and the states do.                  *)
MachineSame ==
  /\ TreeSame /\ id' = id /\ room' = room /\ maxGotos' = maxGotos
  /\ firstLevelNodes' = firstLevelNodes /\ secondLevelNodes' = secondLevelNodes

LEMMA DataKept ==
  ASSUME MachineSame, NEW n
  PROVE  DataOf(n)' = DataOf(n) /\ (IsBranch(n)' <=> IsBranch(n))
<1>1. /\ gotos' = gotos /\ message' = message /\ failure' = failure /\ hasFailInto' = hasFailInto
      /\ id' = id /\ maxGotos' = maxGotos
      /\ firstLevelNodes' = firstLevelNodes /\ secondLevelNodes' = secondLevelNodes
  BY DEF MachineSame, TreeSame
<1>2. Nodes' = Nodes
  BY <1>1 DEF Nodes
<1>3. \A m : /\ HasState(m)' = HasState(m) /\ Match(m)' = Match(m) /\ NumGotos(m)' = NumGotos(m)
             /\ Marked(m)' = Marked(m) /\ Children(m)' = Children(m) /\ IsBranch(m)' = IsBranch(m)
  BY <1>1 DEF HasState, Match, NumGotos, Marked, Children, IsBranch
<1>4. \A m : RealNode(m)' = RealNode(m)
  BY <1>1, <1>2, <1>3 DEF RealNode
<1>5. \A m : RealMatch(m)' = RealMatch(m)
  BY <1>1, <1>2, <1>3 DEF RealMatch
<1>6. \A m : Path(m)' = Path(m)
  BY <1>1, <1>2, <1>3 DEF Path, EndsPath
<1>7. \A m : PtrType(m)' = PtrType(m) /\ StateType(m)' = StateType(m)
  BY <1>1, <1>3 DEF PtrType, StateType
<1>8. \A m : Pointer(m)' = Pointer(m)
  BY <1>4, <1>5, <1>7 DEF Pointer
<1>9. \A m : FailPointer(m)' = FailPointer(m) /\ Continues(m)' = Continues(m)
  BY <1>3, <1>4, <1>6, <1>8 DEF FailPointer, Continues
<1>10. \A m : PathEnd(m)' = PathEnd(m)
  BY <1>1, <1>6, <1>9 DEF PathEnd
<1>11. \A m, q : GotoPointer(m, q)' = GotoPointer(m, q)
  BY <1>7 DEF GotoPointer
<1>12. BranchData(n)' = BranchData(n)
  BY <1>1, <1>3, <1>4, <1>7, <1>8, <1>11 DEF BranchData
<1>13. PathData(n)' = PathData(n)
  BY <1>1, <1>3, <1>4, <1>5, <1>6, <1>9, <1>10 DEF PathData
<1> QED
  BY <1>3, <1>12, <1>13 DEF DataOf

LEMMA FilledKept ==
  ASSUME MachineSame, data' = data,
         firstLevelLookup' = firstLevelLookup, secondLevelLookup' = secondLevelLookup
  PROVE  /\ Filled => Filled'
         /\ StateNodes' = StateNodes /\ (BranchingRoot' <=> BranchingRoot)
         /\ Nodes' = Nodes /\ (IsLeaf(Root)' <=> IsLeaf(Root))
<1>1. /\ StateNodes' = StateNodes /\ (BranchingRoot' <=> BranchingRoot)
      /\ Nodes' = Nodes /\ (IsLeaf(Root)' <=> IsLeaf(Root))
  BY SameTree DEF MachineSame, TreeSame
<1>2. \A n : DataOf(n)' = DataOf(n)
  BY DataKept
<1>3. firstLevelNodes' = firstLevelNodes /\ secondLevelNodes' = secondLevelNodes
  BY DEF MachineSame
<1>4. Filled => Filled'
  BY <1>1, <1>2, <1>3 DEF Filled
<1> QED
  BY <1>1, <1>4

(* The head of the queue is filled and gives way to the nodes of g.        *)
Moved(r, q, g) ==
  /\ \A i \in DOMAIN r : (\E j \in DOMAIN q : r[i] = q[j]) \/ (\E j \in DOMAIN g : r[i] = g[j])
  /\ \A j \in DOMAIN q : j = 1 \/ \E i \in DOMAIN r : r[i] = q[j]
  /\ \A j \in DOMAIN g : \E i \in DOMAIN r : r[i] = g[j]

LEMMA Requeued ==
  ASSUME NEW S, NEW q \in Seq(S), q # <<>>, NEW g \in Seq(S), NEW r, r = Tail(q) \o g
  PROVE  Moved(r, q, g)
<1>1. /\ r \in Seq(S) /\ DOMAIN r = 1 .. (Len(q) - 1) + Len(g)
      /\ Len(q) \in Nat \ {0} /\ Len(g) \in Nat
      /\ DOMAIN q = 1 .. Len(q) /\ DOMAIN g = 1 .. Len(g)
      /\ \A i \in 1 .. (Len(q) - 1) + Len(g) :
           r[i] = IF i < Len(q) THEN q[i + 1] ELSE g[i - (Len(q) - 1)]
  BY QueueMoves
<1> DEFINE a == Len(q)
           b == Len(g)
<1>2. /\ DOMAIN r = 1 .. (a - 1) + b /\ a \in Nat \ {0} /\ b \in Nat
      /\ DOMAIN q = 1 .. a /\ DOMAIN g = 1 .. b
      /\ \A i \in 1 .. (a - 1) + b : r[i] = IF i < a THEN q[i + 1] ELSE g[i - (a - 1)]
  BY <1>1
<1> HIDE DEF a, b
<1>3. ASSUME NEW i \in DOMAIN r
      PROVE  (\E j \in DOMAIN q : r[i] = q[j]) \/ (\E j \in DOMAIN g : r[i] = g[j])
  <2>1. CASE i < a
    <3>1. i + 1 \in DOMAIN q /\ r[i] = q[i + 1]
      BY <1>2, <2>1
    <3> QED
      BY <3>1
  <2>2. CASE ~ (i < a)
    <3>1. i - (a - 1) \in DOMAIN g /\ r[i] = g[i - (a - 1)]
      BY <1>2, <2>2
    <3> QED
      BY <3>1
  <2> QED
    BY <2>1, <2>2
<1>4. ASSUME NEW j \in DOMAIN q, j # 1 PROVE \E i \in DOMAIN r : r[i] = q[j]
  <2>1. j - 1 \in DOMAIN r /\ j - 1 < a /\ (j - 1) + 1 = j
    BY <1>2, <1>4
  <2>2. r[j - 1] = q[j]
    BY <1>2, <2>1
  <2> QED
    BY <2>1, <2>2
<1>5. ASSUME NEW j \in DOMAIN g PROVE \E i \in DOMAIN r : r[i] = g[j]
  <2>1. j + (a - 1) \in DOMAIN r /\ ~ (j + (a - 1) < a) /\ (j + (a - 1)) - (a - 1) = j
    BY <1>2
  <2>2. r[j + (a - 1)] = g[j]
    BY <1>2, <2>1
  <2> QED
    BY <2>1, <2>2
<1> QED
  BY <1>3, <1>4, <1>5 DEF Moved

LEMMA LeafEnds ==
  ASSUME BuiltTree, NEW m \in Nodes, IsLeaf(m), NEW k \in Nodes, IsPrefix(m, k)
  PROVE  k = m
<1>1. Children(m) = {} /\ TrieInv
  BY NodeFacts DEF BuiltTree
<1> QED
  BY <1>1, ChildBelow

(* What is queued after n: the states right below it.                      *)
NextStates(n) == IF IsBranch(n) THEN WithState(gotos[n])
                 ELSE IF Continues(n) THEN <<PathEnd(n)>> ELSE <<>>

LEMMA NextAreStates ==
  ASSUME StatesKnown, NEW n \in StateNodes
  PROVE  /\ NextStates(n) \in Seq(Nodes)
         /\ \A i \in DOMAIN NextStates(n) : NextStates(n)[i] \in StateNodes
         /\ \A k \in StateNodes : IsPrefix(n, k) => k = n \/ Covers(NextStates(n), k)
<1> DEFINE g == NextStates(n)
<1>1. BuiltTree /\ n \in Nodes /\ gotos[n] \in Seq(Nodes) /\ Children(n) \subseteq Nodes
      /\ (IsBranch(n) \/ (~ IsBranch(n) /\ NumGotos(n) = 1))
  BY StateShape, NodeFacts DEF StatesKnown
<1>2. CASE IsBranch(n)
  <2>1. g \in Seq(Nodes) /\ ToSet(g) = {x \in Children(n) : HasState(x)}
    BY <1>1, <1>2, WithStateMeans DEF NextStates, Children
  <2> HIDE DEF g
  <2>2. ASSUME NEW i \in DOMAIN g PROVE g[i] \in StateNodes
    <3>1. g[i] \in ToSet(g)
      BY DEF ToSet
    <3> QED
      BY <1>1, <2>1, <3>1 DEF StatesKnown
  <2>3. ASSUME NEW k \in StateNodes, IsPrefix(n, k), k # n PROVE Covers(g, k)
    <3>1. k \in Nodes /\ ~ IsLeaf(k)
      BY StateShape, <1>1
    <3>2. PICK m \in Children(n) : IsPrefix(m, k)
      BY <1>1, <2>3, <3>1, ChildBelow DEF BuiltTree
    <3>3. m \in Nodes /\ Front(m) = n
      BY <1>1, ChildMeans DEF BuiltTree
    <3>4. ~ IsLeaf(m)
      BY <1>1, <3>1, <3>2, <3>3, LeafEnds
    <3>5. m \in StateNodes
      BY <1>2, <3>3, <3>4, Zenon DEF StateNodes
    <3>6. m \in ToSet(g)
      BY <2>1, <3>3, <3>5 DEF StatesKnown
    <3>7. PICK i \in DOMAIN g : g[i] = m
      BY <3>6 DEF ToSet
    <3> QED
      BY <3>2, <3>7 DEF Covers
  <2> QED
    BY <2>1, <2>2, <2>3 DEF g
<1>3. CASE ~ IsBranch(n) /\ NumGotos(n) = 1
  <2> DEFINE p == Path(n)
             L == Len(p)
  <2>1. PathIs(n, p, L)
    BY <1>1, <1>3, PathFacts
  <2>2. PathEnd(n) = IF Continues(n) THEN Last(p) ELSE failure[Last(p)]
    BY DEF PathEnd
  <2> HIDE DEF p, L
  <2>3. /\ p[1] = n /\ Last(p) = p[L] /\ p[L] \in Nodes /\ L \in Nat /\ L >= 2
        /\ \A i \in 2 .. L - 1 : p[i] \notin StateNodes
        /\ (IsLeaf(p[L]) <=> ~ Continues(n))
        /\ (~ IsLeaf(p[L]) => p[L] \in StateNodes)
        /\ \A k \in Nodes : IsPrefix(n, k) => (\E i \in 1 .. L - 1 : k = p[i]) \/ IsPrefix(p[L], k)
    BY <2>1 DEF PathIs
  <2>4. ASSUME NEW k \in StateNodes, IsPrefix(n, k), k # n
        PROVE  IsPrefix(p[L], k) /\ ~ IsLeaf(p[L])
    <3>1. k \in Nodes /\ ~ IsLeaf(k)
      BY StateShape, <1>1
    <3>2. ASSUME NEW i \in 1 .. L - 1 PROVE k # p[i]
      <4>1. i = 1 \/ i \in 2 .. L - 1
        BY <2>3
      <4> QED
        BY <2>3, <2>4, <4>1
    <3>3. IsPrefix(p[L], k)
      BY <2>3, <2>4, <3>1, <3>2
    <3> QED
      BY <1>1, <2>3, <3>1, <3>3, LeafEnds
  <2>5. CASE Continues(n)
    <3>1. g = <<p[L]>> /\ p[L] \in StateNodes
      BY <1>3, <2>2, <2>3, <2>5 DEF NextStates
    <3> HIDE DEF g
    <3>2. g \in Seq(Nodes) /\ DOMAIN g = {1} /\ g[1] = p[L]
      BY <2>3, <3>1
    <3> QED
      BY <2>4, <3>1, <3>2 DEF Covers, g
  <2>6. CASE ~ Continues(n)
    <3>1. g = <<>>
      BY <1>3, <2>6 DEF NextStates
    <3> HIDE DEF g
    <3>2. g \in Seq(Nodes) /\ DOMAIN g = {}
      BY <3>1
    <3> QED
      BY <2>3, <2>4, <2>6, <3>2 DEF g
  <2> QED
    BY <2>5, <2>6
<1> QED
  BY <1>1, <1>2, <1>3

(* One state is filled: nothing goes wrong if the root is a branch.        *)
FillState(n) ==
  /\ data' = [m \in DOMAIN data \cup {n} |-> IF m = n THEN DataOf(n) ELSE data[m]]
  /\ FillLookups(n)
  /\ queue' = Tail(queue) \o NextStates(n)
  /\ phase' = "data"

LEMMA SetDataMeans ==
  ASSUME BuiltTree, Generated({}), SetData, NEW n, AtHead(n), n \in Nodes,
         IsLeaf(Root) => n = Root, ~ IsLeaf(Root) => n \in StateNodes
  PROVE  \/ /\ UNCHANGED <<queue, data, firstLevelLookup, secondLevelLookup>>
            /\ phase' \in Failed /\ ~ BranchingRoot
         \/ /\ StatesKnown /\ n \in StateNodes /\ FillState(n)
<1> DEFINE d == DataOf(n)
           failures == IF IsBranch(n) THEN {n} ELSE Range(Front(Path(n)))
           same == UNCHANGED <<queue, data, firstLevelLookup, secondLevelLookup>>
           runs == ~ IsBranch(n) /\ ~ Marked(PathEnd(n)) /\ ~ IsBranch(PathEnd(n))
           much == d.type # "LT" /\ Stored(d) > room[n]
<1>1. IF ~ HasState(n) THEN phase' = "no_state" /\ same
      ELSE IF \E m \in failures : PassesLeaf(failure[m]) THEN phase' = "leaf_failure" /\ same
      ELSE IF runs THEN phase' = "runaway" /\ same
      ELSE IF much THEN phase' = "memory_error" /\ same
      ELSE FillState(n)
  BY DEF SetData, AtHead, FillState, DataOf, NextStates
<1> HIDE DEF failures, same, runs, much, d
<1>2. CASE IsLeaf(Root)
  <2>1. ~ BranchingRoot /\ ~ HasState(n)
    <3>1. Root \notin StateNodes /\ NumGotos(Root) = 0
      BY <1>2, NodeFacts DEF StateNodes
    <3> QED
      BY <1>2, <3>1 DEF BranchingRoot, IsBranch, Generated
  <2> QED
    BY <1>1, <2>1 DEF Failed, same
<1>3. CASE ~ IsLeaf(Root)
  <2>1. StatesKnown /\ n \in StateNodes /\ HasState(n)
    BY <1>3 DEF StatesKnown, Generated
  <2>2. ~ \E m \in failures : PassesLeaf(failure[m])
    <3>1. failures \subseteq Nodes
      <4>1. CASE IsBranch(n)
        BY <4>1 DEF failures
      <4>2. CASE ~ IsBranch(n) /\ NumGotos(n) = 1
        <5> DEFINE p == Path(n)
                   L == Len(p)
        <5>1. Range(Front(p)) = {p[i] : i \in 1 .. L - 1} /\ L \in Nat /\ \A i \in 1 .. L : p[i] \in Nodes
          BY <4>2, PathPointers
        <5>2. failures = Range(Front(p))
          BY <4>2 DEF failures
        <5> HIDE DEF p, L
        <5>3. \A i \in 1 .. L - 1 : i \in 1 .. L
          BY <5>1
        <5> QED
          BY <5>1, <5>2, <5>3
      <4> QED
        BY <2>1, <4>1, <4>2, StateShape
    <3> QED
      BY <2>1, <3>1, NoLeafPassed
  <2>3. BranchingRoot => ~ runs
    <3> SUFFICES ASSUME BranchingRoot, ~ IsBranch(n)
                 PROVE  Marked(PathEnd(n)) \/ IsBranch(PathEnd(n))
      BY DEF runs
    <3>1. NumGotos(n) = 1
      BY <2>1, StateShape
    <3>2. PathIs(n, Path(n), Len(Path(n)))
      BY <3>1, PathFacts
    <3>3. Last(Path(n)) \in Nodes
      BY <3>2 DEF PathIs
    <3>4. CASE Continues(n)
      BY <3>4 DEF PathEnd, Continues
    <3>5. CASE ~ Continues(n)
      <4>1. PathEnd(n) = failure[Last(Path(n))]
        BY <3>5 DEF PathEnd
      <4>2. PathEnd(n) = Root \/ Marked(PathEnd(n))
        BY <3>3, <4>1, TargetHasState
      <4>3. IsBranch(Root)
        BY DEF BranchingRoot
      <4> QED
        BY <4>2, <4>3, Zenon
    <3> QED
      BY <3>4, <3>5
  <2>4. BranchingRoot => ~ much
    <3> SUFFICES ASSUME BranchingRoot, d.type # "LT" PROVE ~ (Stored(d) > room[n])
      BY DEF much
    <3>1. room[n] = RoomFor(n)
      BY <2>1 DEF Generated
    <3>2. CASE IsBranch(n)
      <4>1. d = BranchData(n)
        BY <3>2 DEF d, DataOf
      <4>2. StateType(n) # "LT"
        BY <4>1 DEF BranchData
      <4> QED
        BY <2>1, <3>1, <3>2, <4>1, <4>2, BranchFits
    <3>3. CASE ~ IsBranch(n)
      <4>1. d = PathData(n)
        BY <3>3 DEF d, DataOf
      <4> QED
        BY <2>1, <3>1, <3>3, <4>1, PathFits
    <3> QED
      BY <3>2, <3>3
  <2>5. (phase' \in Failed /\ same /\ ~ BranchingRoot) \/ FillState(n)
    <3>1. CASE runs
      BY <1>1, <2>1, <2>2, <2>3, <3>1 DEF Failed
    <3>2. CASE ~ runs /\ much
      BY <1>1, <2>1, <2>2, <2>4, <3>2 DEF Failed
    <3>3. CASE ~ runs /\ ~ much
      BY <1>1, <2>1, <2>2, <3>3
    <3> QED
      BY <3>1, <3>2, <3>3
  <2> QED
    BY <2>1, <2>5 DEF same
<1> QED
  BY <1>2, <1>3

LEMMA StateFilled ==
  ASSUME StatesKnown, Generated({}), Filled, MachineSame, NEW n \in StateNodes, FillState(n)
  PROVE  Filled' /\ DOMAIN data' = DOMAIN data \cup {n}
<1>1. /\ firstLevelNodes = IF BranchingRoot THEN Children(Root) ELSE {}
      /\ \A k \in secondLevelNodes : Len(k) = 2
  BY DEF Generated
<1>2. \A k \in firstLevelNodes : Len(k) = 1 /\ k = <<k[1]>>
  <2> SUFFICES ASSUME NEW k \in Children(Root) PROVE Len(k) = 1 /\ k = <<k[1]>>
    BY <1>1
  <2>1. /\ k \in Strings /\ Len(k) = Len(Root) + 1
    BY ChildMeans, NodeFacts DEF StatesKnown, BuiltTree
  <2>2. k \in Strings /\ Len(k) = 1
    BY <2>1, NodeFacts DEF StatesKnown
  <2>3. k \in Seq(Character) /\ Len(k) = 1
    BY <2>2 DEF Strings
  <2> QED
    BY <2>3
<1>3. /\ data' = [m \in DOMAIN data \cup {n} |-> IF m = n THEN DataOf(n) ELSE data[m]]
      /\ FillLookups(n)
  BY DEF FillState
<1>4. /\ StateNodes' = StateNodes
      /\ firstLevelNodes' = firstLevelNodes /\ secondLevelNodes' = secondLevelNodes
      /\ \A k : DataOf(k)' = DataOf(k)
  BY SameTree, DataKept DEF MachineSame, TreeSame
<1>5. DOMAIN data' = DOMAIN data \cup {n}
      /\ \A m \in DOMAIN data' : data'[m] = IF m = n THEN DataOf(n) ELSE data[m]
  BY <1>3
<1>6. /\ DOMAIN data' \subseteq StateNodes /\ \A m \in DOMAIN data' : data'[m] = DataOf(m)
  BY <1>5 DEF Filled
<1>7. /\ DOMAIN firstLevelLookup = {m[1] : m \in DOMAIN data \cap firstLevelNodes}
      /\ \A c \in DOMAIN firstLevelLookup : firstLevelLookup[c] = <<c>>
      /\ DOMAIN secondLevelLookup = DOMAIN data \cap secondLevelNodes
      /\ \A m \in DOMAIN secondLevelLookup : secondLevelLookup[m] = m
  BY DEF Filled
<1>8. /\ DOMAIN firstLevelLookup' = {m[1] : m \in DOMAIN data' \cap firstLevelNodes}
      /\ \A c \in DOMAIN firstLevelLookup' : firstLevelLookup'[c] = <<c>>
  <2>1. CASE n \in firstLevelNodes
    <3>1. firstLevelLookup' = [c \in DOMAIN firstLevelLookup \cup {n[1]} |->
                                 IF c = n[1] THEN n ELSE firstLevelLookup[c]]
      BY <1>3, <2>1 DEF FillLookups
    <3>2. {m[1] : m \in DOMAIN data' \cap firstLevelNodes}
            = {m[1] : m \in DOMAIN data \cap firstLevelNodes} \cup {n[1]}
      BY <1>5, <2>1
    <3>3. n = <<n[1]>>
      BY <1>2, <2>1
    <3> QED
      BY <1>7, <3>1, <3>2, <3>3
  <2>2. CASE n \notin firstLevelNodes
    <3>1. firstLevelLookup' = firstLevelLookup
      BY <1>3, <2>2 DEF FillLookups
    <3>2. DOMAIN data' \cap firstLevelNodes = DOMAIN data \cap firstLevelNodes
      BY <1>5, <2>2
    <3> QED
      BY <1>7, <3>1, <3>2
  <2> QED
    BY <2>1, <2>2
<1>9. /\ DOMAIN secondLevelLookup' = DOMAIN data' \cap secondLevelNodes
      /\ \A m \in DOMAIN secondLevelLookup' : secondLevelLookup'[m] = m
  <2>1. CASE n \in secondLevelNodes
    <3>1. n \in secondLevelNodes \ firstLevelNodes
      BY <1>1, <1>2, <2>1
    <3>2. secondLevelLookup' = [m \in DOMAIN secondLevelLookup \cup {n} |-> m]
      BY <1>3, <3>1 DEF FillLookups
    <3> QED
      BY <1>5, <1>7, <2>1, <3>2
  <2>2. CASE n \notin secondLevelNodes
    <3>1. secondLevelLookup' = secondLevelLookup
      BY <1>3, <2>2 DEF FillLookups
    <3> QED
      BY <1>5, <1>7, <2>2, <3>1
  <2> QED
    BY <2>1, <2>2
<1>10. Filled'
  BY <1>4, <1>6, <1>8, <1>9 DEF Filled
<1> QED
  BY <1>5, <1>10

(* What is still to be filled is in the queue or below it.                 *)
ToFill ==
  /\ StateNodes \subseteq DOMAIN data \cup Waiting
  /\ IsLeaf(Root) => queue = <<Root>>
  /\ ~ IsLeaf(Root) => \A i \in DOMAIN queue : queue[i] \in StateNodes

LEMMA DataFilled ==
  ASSUME BuiltTree, Generated({}), Filled, ToFill, queue \in Seq(Nodes), SetData
  PROVE  /\ Filled'
         /\ phase' = "data" => ToFill'
         /\ phase' = "data" \/ (phase' \in Failed /\ ~ BranchingRoot')
<1>1. /\ MachineSame /\ queue # <<>>
  BY LaterKeeps DEF MachineSame, SetData
<1> DEFINE n == Head(queue)
<1>2. AtHead(n) /\ n = queue[1] /\ 1 \in DOMAIN queue /\ n \in Nodes
  BY <1>1 DEF AtHead
<1> HIDE DEF n
<1>3. (IsLeaf(Root) => n = Root) /\ (~ IsLeaf(Root) => n \in StateNodes)
  <2>1. IsLeaf(Root) => queue[1] = Root
    BY DEF ToFill
  <2> QED
    BY <1>2, <2>1 DEF ToFill
<1>4. /\ StateNodes' = StateNodes /\ (BranchingRoot' <=> BranchingRoot)
      /\ Nodes' = Nodes /\ (IsLeaf(Root)' <=> IsLeaf(Root))
  BY <1>1, SameTree DEF MachineSame, TreeSame
<1>5. CASE /\ UNCHANGED <<queue, data, firstLevelLookup, secondLevelLookup>>
           /\ phase' \in Failed /\ ~ BranchingRoot
  <2>1. Filled'
    BY <1>1, <1>5, FilledKept
  <2>2. phase' # "data"
    BY <1>5 DEF Failed
  <2> QED
    BY <1>4, <1>5, <2>1, <2>2
<1>6. CASE StatesKnown /\ n \in StateNodes /\ FillState(n)
  <2> DEFINE g == NextStates(n)
  <2>1. Filled' /\ DOMAIN data' = DOMAIN data \cup {n} /\ phase' = "data"
    BY <1>1, <1>6, StateFilled DEF FillState
  <2>2. /\ g \in Seq(Nodes) /\ \A i \in DOMAIN g : g[i] \in StateNodes
        /\ \A k \in StateNodes : IsPrefix(n, k) => k = n \/ Covers(g, k)
    BY <1>6, NextAreStates
  <2>3. queue' = Tail(queue) \o g
    BY <1>2, <1>6 DEF FillState
  <2> HIDE DEF g
  <2> DEFINE r == queue'
  <2>4. /\ \A i \in DOMAIN r : (\E j \in DOMAIN queue : r[i] = queue[j]) \/ (\E j \in DOMAIN g : r[i] = g[j])
        /\ \A j \in DOMAIN queue : j = 1 \/ \E i \in DOMAIN r : r[i] = queue[j]
        /\ \A j \in DOMAIN g : \E i \in DOMAIN r : r[i] = g[j]
    <3>1. Moved(queue', queue, g)
      BY <1>1, <2>2, <2>3, Requeued
    <3> QED
      BY <3>1 DEF Moved
  <2>5. ~ IsLeaf(Root) /\ \A i \in DOMAIN queue : queue[i] \in StateNodes
    BY <1>6 DEF StatesKnown, ToFill
  <2>6. \A i \in DOMAIN r : r[i] \in StateNodes
    BY <2>2, <2>4, <2>5
  <2>7. ASSUME NEW k \in StateNodes, k \notin DOMAIN data, k # n
        PROVE  \E i \in DOMAIN r : IsPrefix(r[i], k)
    <3>1. PICK j \in DOMAIN queue : IsPrefix(queue[j], k)
      BY <2>7 DEF ToFill, Waiting
    <3>2. CASE j = 1
      <4>1. Covers(g, k)
        BY <1>2, <2>2, <2>7, <3>1, <3>2
      <4>2. PICK l \in DOMAIN g : IsPrefix(g[l], k)
        BY <4>1 DEF Covers
      <4> HIDE DEF r
      <4>3. PICK i \in DOMAIN r : r[i] = g[l]
        BY <2>4
      <4>4. IsPrefix(r[i], k)
        BY <4>2, <4>3
      <4> QED
        BY <4>4
    <3>3. CASE j # 1
      <4> HIDE DEF r
      <4>1. PICK i \in DOMAIN r : r[i] = queue[j]
        BY <2>4, <3>3
      <4>2. IsPrefix(r[i], k)
        BY <3>1, <4>1
      <4> QED
        BY <4>2
    <3> QED
      BY <3>2, <3>3
  <2>8. StateNodes' \subseteq DOMAIN data' \cup Waiting'
    <3>1. ASSUME NEW k \in StateNodes PROVE k \in DOMAIN data' \/ k \in Waiting'
      <4>1. k \in Nodes'
        BY <1>4 DEF StateNodes
      <4> QED
        BY <2>1, <2>7, <4>1 DEF Waiting
    <3> QED
      BY <1>4, <3>1
  <2>9. ToFill'
    BY <1>4, <2>5, <2>6, <2>8 DEF ToFill
  <2> QED
    BY <2>1, <2>9
<1>7. \/ /\ UNCHANGED <<queue, data, firstLevelLookup, secondLevelLookup>>
         /\ phase' \in Failed /\ ~ BranchingRoot
      \/ /\ StatesKnown /\ n \in StateNodes /\ FillState(n)
  BY <1>2, <1>3, SetDataMeans
<1> QED
  BY <1>5, <1>6, <1>7

(* The states are filled by setStatesData and then stay.                   *)
LEMMA DataStays ==
  ASSUME TreeInv, MarkInv, GenInv, DataInv, AvoidFailToLeaves, Next
  PROVE  DataInv'
<1>1. CASE Build
  <2>1. phase \in BuildPhases /\ phase' \in BuildPhases /\ data' = data
        /\ firstLevelLookup' = firstLevelLookup /\ secondLevelLookup' = secondLevelLookup
    BY <1>1, BuildKeeps
  <2>2. /\ BuildPhases \cap Failed = {} /\ "data" \notin BuildPhases /\ "ready" \notin BuildPhases
        /\ BuildPhases \cap ScanPhases = {}
    BY DEF BuildPhases, ScanPhases, Failed
  <2> QED
    BY <2>1, <2>2 DEF DataInv
<1>2. CASE StartStates \/ GenerateState
  <2>1. /\ phase \in BuildPhases \cup {"states"} /\ phase' = "states" /\ data' = data
        /\ firstLevelLookup' = firstLevelLookup /\ secondLevelLookup' = secondLevelLookup
    BY <1>2 DEF StartStates, GenerateState, BuildPhases
  <2> QED
    BY <2>1 DEF DataInv, BuildPhases, ScanPhases, Failed
<1>3. CASE StatesDone
  <2>1. /\ phase = "states" /\ phase' = "data" /\ queue' = <<Root>> /\ MachineSame /\ data' = data
        /\ firstLevelLookup' = firstLevelLookup /\ secondLevelLookup' = secondLevelLookup
    BY <1>3 DEF StatesDone, MachineSame, TreeSame, tree, machine
  <2>2. data = <<>> /\ firstLevelLookup = <<>> /\ secondLevelLookup = <<>>
    BY <2>1 DEF DataInv
  <2>3. Filled
    BY <2>2 DEF Filled
  <2>4. /\ Filled' /\ StateNodes' = StateNodes /\ Nodes' = Nodes /\ (IsLeaf(Root)' <=> IsLeaf(Root))
    BY <2>1, <2>3, FilledKept
  <2>5. BuiltTree
    BY <2>1, TreeIsBuilt
  <2>6. DOMAIN queue' = {1} /\ queue'[1] = Root
    BY <2>1
  <2>7. StateNodes' \subseteq Waiting'
    <3>1. ASSUME NEW n \in StateNodes PROVE n \in Nodes /\ IsPrefix(Root, n)
      <4>1. n \in Nodes /\ n \in Strings /\ Root \in Strings /\ Len(Root) = 0 /\ Len(n) \in Nat
        BY <2>5, NodeFacts, StateShape
      <4> QED
        BY <4>1, PrefixMeans
    <3> QED
      BY <2>4, <2>6, <3>1 DEF Waiting
  <2>8. ~ IsLeaf(Root) => Root \in StateNodes
    BY <2>5, NodeFacts DEF StateNodes
  <2>9. ToFill'
    BY <2>1, <2>4, <2>6, <2>7, <2>8 DEF ToFill
  <2> QED
    BY <2>1, <2>4, <2>9 DEF DataInv, ToFill, BuildPhases, ScanPhases, Failed
<1>4. CASE SetData
  <2>1. phase = "data"
    BY <1>4 DEF SetData
  <2>2. BuiltTree /\ Generated({}) /\ queue \in Seq(Nodes)
    BY <2>1, TreeIsBuilt DEF GenInv, BuildPhases, TreeInv
  <2>3. Filled /\ ToFill
    BY <2>1 DEF DataInv, ToFill, BuildPhases
  <2>4. /\ Filled'
        /\ phase' = "data" => ToFill'
        /\ phase' = "data" \/ (phase' \in Failed /\ ~ BranchingRoot')
    BY <1>4, <2>2, <2>3, DataFilled
  <2>5. CASE phase' = "data"
    BY <2>4, <2>5 DEF DataInv, ToFill, BuildPhases, ScanPhases, Failed
  <2>6. CASE phase' \in Failed /\ ~ BranchingRoot'
    <3>1. phase' # "data" /\ phase' \notin {"ready"} \cup ScanPhases
      BY <2>6 DEF ScanPhases, Failed
    <3> QED
      BY <1>4, <2>4, <2>6, <3>1, LaterKeeps DEF DataInv
  <2> QED
    BY <2>4, <2>5, <2>6
<1>5. CASE MachineReady \/ StartScan \/ ScanStep
  <2>1. /\ MachineSame /\ phase \notin BuildPhases \cup {"states"}
        /\ phase' \notin BuildPhases \cup {"states"}
    BY <1>5, LaterKeeps DEF MachineSame
  <2>2. /\ data' = data /\ firstLevelLookup' = firstLevelLookup
        /\ secondLevelLookup' = secondLevelLookup /\ phase \in {"data", "ready", "scan"}
        /\ phase' \in {"ready", "lookup_miss"} \cup ScanPhases
        /\ (phase = "data" => queue = <<>>)
    <3>1. CASE MachineReady
      BY <3>1 DEF MachineReady, machine
    <3>2. CASE StartScan
      BY <3>2 DEF StartScan, machine, ScanPhases
    <3>3. CASE ScanStep
      <4>1. CASE RootByte
        BY <4>1 DEF RootByte, Scanning, treeVars, machine, ScanPhases
      <4>2. CASE DropPacket
        BY <4>2 DEF DropPacket, Scanning, machine, ScanPhases
      <4>3. CASE BranchByte
        <5>1. phase' = phase \/ phase' = "lookup_miss"
          BY <4>3 DEF BranchByte, Take, Advance
        <5> QED
          BY <4>3, <5>1 DEF BranchByte, Scanning, machine, ScanPhases
      <4>4. CASE PathBytes
        <5>1. phase' = phase \/ phase' = "lookup_miss"
          BY <4>4 DEF PathBytes, Take, Advance
        <5> QED
          BY <4>4, <5>1 DEF PathBytes, Scanning, machine, ScanPhases
      <4>5. CASE EndOfPacket
        BY <4>5 DEF EndOfPacket, machine, ScanPhases
      <4> QED
        BY <3>3, <4>1, <4>2, <4>3, <4>4, <4>5 DEF ScanStep
    <3> QED
      BY <1>5, <3>1, <3>2, <3>3
  <2>3. Filled
    BY <2>1 DEF DataInv
  <2>4. Filled' /\ StateNodes' = StateNodes
    BY <2>1, <2>2, <2>3, FilledKept
  <2>5. DOMAIN data = StateNodes /\ Root \in StateNodes
    <3>1. CASE phase = "data"
      <4>1. DOMAIN queue = {} /\ queue # <<Root>>
        BY <2>2, <3>1
      <4>2. Waiting = {}
        BY <4>1 DEF Waiting
      <4>3. ~ IsLeaf(Root) /\ StateNodes \subseteq DOMAIN data
        BY <3>1, <4>1, <4>2 DEF DataInv
      <4>4. Root \in StateNodes
        <5>1. BuiltTree
          BY <3>1, TreeIsBuilt
        <5> QED
          BY <4>3, <5>1, NodeFacts DEF StateNodes
      <4> QED
        BY <2>3, <4>3, <4>4 DEF Filled
    <3>2. CASE phase # "data"
      BY <2>2, <3>2 DEF DataInv, ScanPhases
    <3> QED
      BY <3>1, <3>2
  <2>6. phase' # "data" /\ phase' \notin Failed
    BY <2>2 DEF ScanPhases, Failed
  <2> QED
    BY <2>1, <2>2, <2>4, <2>5, <2>6 DEF DataInv
<1> QED
  BY <1>1, <1>2, <1>3, <1>4, <1>5 DEF Next

LEMMA DataUnchanged ==
  ASSUME DataInv, UNCHANGED vars
  PROVE  DataInv'
<1>1. /\ MachineSame /\ queue' = queue /\ phase' = phase /\ data' = data
      /\ firstLevelLookup' = firstLevelLookup /\ secondLevelLookup' = secondLevelLookup
  BY DEF vars, treeVars, tree, machine, MachineSame, TreeSame
<1>2. /\ StateNodes' = StateNodes /\ (Filled => Filled') /\ (BranchingRoot' <=> BranchingRoot)
      /\ Nodes' = Nodes /\ (IsLeaf(Root)' <=> IsLeaf(Root))
  BY <1>1, FilledKept
<1>3. Waiting' = Waiting
  BY <1>1, <1>2 DEF Waiting
<1> QED
  BY <1>1, <1>2, <1>3 DEF DataInv

-----------------------------------------------------------------------------
(* The scan: the machine is filled and reads a packet of bytes.            *)
Reading ==
  /\ StatesKnown /\ Generated({}) /\ Filled /\ DOMAIN data = StateNodes /\ Root \in StateNodes
  /\ packet \in Strings /\ init_idx \in Nat

(* The bytes before k have been read, and there are more.                  *)
MoreAt(k) == k \in Nat /\ init_idx <= k /\ k < Len(packet)

LEMMA ReadBytes ==
  ASSUME packet \in Strings, init_idx \in Nat, NEW k \in Nat, init_idx <= k, k <= Len(packet)
  PROVE  /\ Read(k) \in Strings /\ Len(Read(k)) = k - init_idx /\ Len(packet) \in Nat
         /\ \A i \in 1 .. k - init_idx : Read(k)[i] = packet[init_idx + i]
<1> DEFINE b == init_idx
<1>1. Len(packet) \in Nat /\ packet \in Seq(Character) /\ b \in Nat /\ b <= k
  BY DEF Strings
<1>2. \A i \in b + 1 .. k : packet[i] \in Character
  BY <1>1
<1>3. Read(k) = [i \in 1 .. k - b |-> packet[b + i]]
  BY <1>1 DEF Read
<1> HIDE DEF b
<1>4. \A i \in 1 .. k - b : b + i \in b + 1 .. k
  BY <1>1
<1>5. k - b \in Nat
  BY <1>1
<1>6. Read(k) \in Seq(Character) /\ Len(Read(k)) = k - b
      /\ \A i \in 1 .. k - b : Read(k)[i] = packet[b + i]
  BY <1>2, <1>3, <1>4, <1>5
<1> QED
  BY <1>1, <1>6 DEF Strings, b

LEMMA ReadNext ==
  ASSUME packet \in Strings, init_idx \in Nat, NEW k, MoreAt(k)
  PROVE  /\ Read(k) \in Strings /\ Byte(k) \in Character /\ Read(k + 1) \in Strings
         /\ Read(k + 1) = Append(Read(k), Byte(k)) /\ k + 1 \in Nat
         /\ init_idx <= k + 1 /\ k + 1 <= Len(packet) /\ Len(packet) \in Nat
<1> DEFINE b == init_idx
           c == Byte(k)
           r == Read(k)
           t == Read(k + 1)
<1>1. k \in Nat /\ b <= k /\ k < Len(packet) /\ Len(packet) \in Nat /\ b \in Nat
  BY DEF MoreAt, Strings
<1>2. k + 1 \in Nat /\ b <= k + 1 /\ k + 1 <= Len(packet) /\ k <= Len(packet)
      /\ k + 1 \in 1 .. Len(packet)
  BY <1>1
<1>3. c \in Character /\ c = packet[k + 1]
  BY <1>2 DEF Byte, Strings
<1>4. r \in Strings /\ Len(r) = k - b /\ \A i \in 1 .. k - b : r[i] = packet[b + i]
  BY <1>1, <1>2, ReadBytes
<1>5. t \in Strings /\ Len(t) = (k + 1) - b /\ \A i \in 1 .. (k + 1) - b : t[i] = packet[b + i]
  BY <1>1, <1>2, ReadBytes
<1> HIDE DEF b, c, r, t
<1>6. /\ Append(r, c) \in Strings /\ Len(Append(r, c)) = Len(r) + 1
      /\ \A i \in 1 .. Len(r) : Append(r, c)[i] = r[i]
      /\ Append(r, c)[Len(r) + 1] = c
  BY <1>3, <1>4, AppendString
<1> DEFINE n == k - b
<1>7. n \in Nat /\ (k + 1) - b = n + 1 /\ b + (n + 1) = k + 1
  BY <1>1
<1>8. /\ Len(r) = n /\ Len(t) = n + 1 /\ \A i \in 1 .. n : r[i] = packet[b + i]
      /\ \A i \in 1 .. n + 1 : t[i] = packet[b + i]
  BY <1>4, <1>5, <1>7
<1> HIDE DEF n
<1>9. \A i \in 1 .. n + 1 : t[i] = Append(r, c)[i]
  <2> TAKE i \in 1 .. n + 1
  <2>1. CASE i = n + 1
    BY <1>3, <1>6, <1>7, <1>8, <2>1
  <2>2. CASE i # n + 1
    <3>1. i \in 1 .. n /\ i \in 1 .. n + 1
      BY <1>7, <2>2
    <3> QED
      BY <1>6, <1>8, <3>1
  <2> QED
    BY <2>1, <2>2
<1>10. t = Append(r, c)
  BY <1>5, <1>6, <1>8, <1>9, EqualStrings
<1> QED
  BY <1>1, <1>2, <1>3, <1>4, <1>5, <1>10 DEF b, c, r, t

(* What the bytes end with when one more is read.                          *)
LEMMA EndsNext ==
  ASSUME Reading, NEW k, MoreAt(k), NEW n \in Nodes
  PROVE  /\ EndsWith(k, n) => /\ EndsWith(k + 1, Append(n, Byte(k))) /\ Append(n, Byte(k)) \in Strings
                              /\ Len(Append(n, Byte(k))) = Len(n) + 1
         /\ n # Root /\ EndsWith(k + 1, n) =>
              /\ Front(n) \in Nodes /\ EndsWith(k, Front(n)) /\ HasGoto(Front(n), Byte(k))
              /\ n = Append(Front(n), Byte(k)) /\ Len(Front(n)) \in Nat
              /\ Len(n) = Len(Front(n)) + 1
<1>1. /\ Read(k) \in Strings /\ Byte(k) \in Character /\ Read(k + 1) = Append(Read(k), Byte(k))
      /\ n \in Strings /\ TrieInv
  BY ReadNext, NodeFacts DEF Reading, StatesKnown, BuiltTree
<1>2. EndsWith(k, n) => /\ EndsWith(k + 1, Append(n, Byte(k))) /\ Append(n, Byte(k)) \in Strings
                        /\ Len(Append(n, Byte(k))) = Len(n) + 1
  BY <1>1, SuffixAppend, AppendString DEF EndsWith
<1>3. ASSUME n # Root, EndsWith(k + 1, n)
      PROVE  /\ Front(n) \in Nodes /\ EndsWith(k, Front(n)) /\ HasGoto(Front(n), Byte(k))
             /\ n = Append(Front(n), Byte(k)) /\ Len(Front(n)) \in Nat
             /\ Len(n) = Len(Front(n)) + 1
  <2>1. n # <<>> /\ Front(n) \in Nodes
    BY <1>1, <1>3 DEF TrieInv, TrieShape, Root
  <2>2. IsSuffix(Front(n), Read(k)) /\ n = Append(Front(n), Byte(k))
    <3>1. IsSuffix(n, Append(Read(k), Byte(k)))
      BY <1>1, <1>3 DEF EndsWith
    <3> QED
      BY <1>1, <2>1, <3>1, SuffixOfAppend
  <2>3. Len(n) \in Nat \ {0} /\ Len(Front(n)) = Len(n) - 1
    BY <1>1, <2>1, FrontLast
  <2>4. Len(Front(n)) \in Nat /\ Len(n) = Len(Front(n)) + 1
    <3> DEFINE a == Len(n)
               b == Len(Front(n))
    <3>1. a \in Nat \ {0} /\ b = a - 1
      BY <2>3
    <3> HIDE DEF a, b
    <3>2. b \in Nat /\ a = b + 1
      BY <3>1
    <3> QED
      BY <3>2 DEF a, b
  <2>5. HasGoto(Front(n), Byte(k))
    <3>1. Append(Front(n), Byte(k)) \in Nodes
      BY <2>2, Zenon
    <3> QED
      BY <3>1 DEF HasGoto
  <2> QED
    BY <2>1, <2>2, <2>4, <2>5 DEF EndsWith
<1> QED
  BY <1>2, <1>3

(* No node that the bytes end with grows by more than the state does.      *)
LEMMA StepUp ==
  ASSUME Reading, NEW k, MoreAt(k), NEW x \in Nodes, PendingAt(k, x),
         NEW n \in Nodes, EndsWith(k + 1, n)
  PROVE  Len(n) <= Len(x) + 1
<1>1. Len(x) \in Nat /\ Len(Root) = 0 /\ Len(n) \in Nat
  BY NodeFacts DEF Reading, StatesKnown
<1>2. CASE n = Root
  BY <1>1, <1>2
<1>3. CASE n # Root
  <2>1. /\ Front(n) \in Nodes /\ EndsWith(k, Front(n)) /\ HasGoto(Front(n), Byte(k))
        /\ Len(Front(n)) \in Nat /\ Len(n) = Len(Front(n)) + 1
    BY <1>3, EndsNext
  <2>2. ~ (Len(Front(n)) > Len(x))
    BY <2>1 DEF PendingAt
  <2> DEFINE a == Len(Front(n))
             b == Len(x)
             d == Len(n)
  <2>3. a \in Nat /\ b \in Nat /\ d = a + 1 /\ ~ (a > b)
    BY <1>1, <2>1, <2>2
  <2> HIDE DEF a, b, d
  <2>4. d <= b + 1
    BY <2>3
  <2> QED
    BY <2>4 DEF b, d
<1> QED
  BY <1>2, <1>3

LEMMA LeafHasNoGoto ==
  ASSUME BuiltTree, NEW n \in Nodes, IsLeaf(n), NEW c \in Character
  PROVE  ~ HasGoto(n, c)
<1> SUFFICES ASSUME HasGoto(n, c) PROVE FALSE
  OBVIOUS
<1> DEFINE m == Append(n, c)
<1>1. n \in Strings /\ Children(n) = {} /\ m \in Nodes
  BY NodeFacts DEF HasGoto
<1>2. m # <<>> /\ Front(m) = n
  <2>1. n \in Seq(Character) /\ Len(n) \in Nat
    BY <1>1 DEF Strings
  <2> QED
    BY <2>1 DEF Front
<1>3. m \in Children(n)
  BY <1>1, <1>2 DEF BuiltTree, TrieInv, Root
<1> QED
  BY <1>1, <1>3

LEMMA GotoIsChild ==
  ASSUME BuiltTree, NEW n \in Nodes, NEW c \in Character
  PROVE  HasGoto(n, c) <=> c \in {Last(m) : m \in Children(n)}
<1>1. n \in Strings /\ TrieInv
  BY NodeFacts DEF BuiltTree
<1>2. ASSUME HasGoto(n, c) PROVE c \in {Last(m) : m \in Children(n)}
  <2> DEFINE m == Append(n, c)
  <2>1. m # <<>> /\ Front(m) = n /\ Last(m) = c
    <3>1. n \in Seq(Character) /\ Len(n) \in Nat
      BY <1>1 DEF Strings
    <3> QED
      BY <3>1 DEF Front, Last
  <2>2. m \in Nodes /\ m # Root
    BY <1>2, <2>1 DEF HasGoto, Root
  <2>3. m \in Children(n)
    BY <1>1, <2>1, <2>2 DEF TrieInv
  <2> QED
    BY <2>1, <2>3
<1>3. ASSUME c \in {Last(m) : m \in Children(n)} PROVE HasGoto(n, c)
  <2>1. PICK m \in Children(n) : c = Last(m)
    BY <1>3
  <2>2. m \in Nodes /\ m = Append(n, c)
    BY <1>1, <2>1, ChildMeans
  <2> QED
    BY <2>2 DEF HasGoto
<1> QED
  BY <1>2, <1>3

(* The failure of a node that does not go on loses nothing that does.      *)
LEMMA FailureEnds ==
  ASSUME Reading, NEW k \in Nat, init_idx <= k, k <= Len(packet), NEW x \in Nodes, EndsWith(k, x)
  PROVE  EndsWith(k, failure[x]) /\ failure[x] \in StateNodes
<1>1. /\ x \in Strings /\ failure[x] \in Nodes /\ failure[x] \in Strings /\ BuiltTree
      /\ IsSuffix(failure[x], x) /\ Read(k) \in Strings
  BY NodeFacts, ReadBytes DEF Reading, StatesKnown
<1>2. EndsWith(k, failure[x])
  BY <1>1, SuffixTransitive DEF EndsWith
<1>3. failure[x] \in StateNodes
  BY <1>1, TargetHasState DEF Reading, StatesKnown
<1> QED
  BY <1>2, <1>3

LEMMA FailureKeeps ==
  ASSUME Reading, NEW k, MoreAt(k), NEW x \in Nodes, EndsWith(k, x),
         PendingAt(k, x), ~ HasGoto(x, Byte(k))
  PROVE  PendingAt(k, failure[x])
<1>1. /\ x \in Strings /\ failure[x] \in Nodes /\ failure[x] \in Strings /\ BuiltTree
      /\ IsSuffix(failure[x], x) /\ Read(k) \in Strings /\ Byte(k) \in Character
  BY NodeFacts, ReadNext DEF Reading, StatesKnown
<1>4. ASSUME NEW n \in Nodes, EndsWith(k, n), Len(n) > Len(failure[x])
      PROVE  ~ HasGoto(n, Byte(k))
  <2>0. n \in Strings /\ Len(n) \in Nat /\ Len(x) \in Nat
    BY <1>1, NodeFacts
  <2>1. CASE Len(n) > Len(x)
    BY <1>4, <2>1 DEF PendingAt
  <2>2. CASE ~ (Len(n) > Len(x))
    <3>1. IsSuffix(n, x)
      BY <1>1, <1>4, <2>0, <2>2, SuffixOfLonger DEF EndsWith
    <3>2. CASE n = x
      BY <1>4, <3>2
    <3>3. CASE n # x
      <4>1. x # Root
        <5>1. Len(Root) = 0 /\ failure[Root] = Root
          BY <1>1, NodeFacts
        <5> QED
          BY <1>4, <2>0, <2>2, <5>1
      <4>2. n \in ProperSuffixNodes(x)
        BY <3>1, <3>3 DEF ProperSuffixNodes
      <4>3. IsLeaf(n)
        BY <1>1, <1>4, <4>1, <4>2 DEF BuiltTree, MovedInv
      <4> QED
        BY <1>1, <4>3, LeafHasNoGoto
    <3> QED
      BY <3>2, <3>3
  <2> QED
    BY <2>1, <2>2
<1> QED
  BY <1>4 DEF PendingAt

-----------------------------------------------------------------------------
(* A pointer to a node that the bytes read end with leads to it.           *)
LeadsTo(p, t) ==
  /\ p.state = t
  /\ p.type = PtrType(t) \/ p.type = "regular" \/ (t = Root /\ p.type = "level0")

LEMMA LastBytes ==
  ASSUME Reading, NEW k \in Nat, init_idx <= k, k <= Len(packet), NEW t \in Nodes, EndsWith(k, t)
  PROVE  /\ Len(t) = 1 => t = <<Byte(k - 1)>> /\ t[1] = Byte(k - 1)
         /\ Len(t) = 2 => k > 1 /\ t = <<Byte(k - 2), Byte(k - 1)>>
<1> DEFINE b == init_idx
           r == Read(k)
           n == k - b
           d == Len(t)
<1>1. /\ r \in Strings /\ Len(r) = n /\ \A i \in 1 .. n : r[i] = packet[b + i]
      /\ t \in Strings /\ d \in Nat /\ IsSuffix(t, r) /\ b \in Nat
  BY ReadBytes, NodeFacts DEF Reading, StatesKnown, EndsWith
<1>2. d <= n /\ \A i \in 1 .. d : t[i] = r[n - d + i]
  BY <1>1, SuffixMeans
<1>3. b \in Nat /\ n \in Nat /\ k = n + b /\ b <= k
  BY <1>1
<1> HIDE DEF b, r, n, d
<1>4. \A i \in 1 .. d : n - d + i \in 1 .. n /\ b + (n - d + i) = (k - d + i - 1) + 1
  BY <1>1, <1>2, <1>3
<1>5. \A i \in 1 .. d : t[i] = Byte(k - d + i - 1)
  BY <1>1, <1>2, <1>4 DEF Byte
<1>6. ASSUME d = 1 PROVE t = <<Byte(k - 1)>> /\ t[1] = Byte(k - 1)
  <2>1. t[1] = Byte(k - 1 + 1 - 1) /\ k - 1 + 1 - 1 = k - 1
    BY <1>1, <1>5, <1>6
  <2>2. t \in Seq(Character) /\ Len(t) = 1
    BY <1>1, <1>6 DEF Strings, d
  <2>3. t = <<t[1]>>
    BY <2>2
  <2> QED
    BY <2>1, <2>3
<1>7. ASSUME d = 2 PROVE k > 1 /\ t = <<Byte(k - 2), Byte(k - 1)>>
  <2>1. /\ t[1] = Byte(k - 2 + 1 - 1) /\ k - 2 + 1 - 1 = k - 2
        /\ t[2] = Byte(k - 2 + 2 - 1) /\ k - 2 + 2 - 1 = k - 1
    BY <1>1, <1>5, <1>7
  <2>2. t \in Seq(Character) /\ Len(t) = 2
    BY <1>1, <1>7 DEF Strings, d
  <2>3. t = <<t[1], t[2]>>
    BY <2>2
  <2>4. k > 1
    BY <1>2, <1>3, <1>7
  <2> QED
    BY <2>1, <2>3, <2>4
<1> QED
  BY <1>6, <1>7 DEF d

LEMMA Resolved ==
  ASSUME Reading, BranchingRoot, NEW k \in Nat, init_idx <= k, k <= Len(packet),
         NEW t \in StateNodes, EndsWith(k, t), NEW p, LeadsTo(p, t)
  PROVE  Resolves(p, k) /\ Resolve(p, k) = t
<1>1. /\ BuiltTree /\ t \in Nodes
      /\ PtrType(t) = IF Len(t) = 1 THEN "level1" ELSE IF Len(t) = 2 THEN "level2" ELSE "regular"
  BY Levels, StateShape DEF Reading, StatesKnown
<1>2. /\ Len(t) = 1 => t = <<Byte(k - 1)>> /\ t[1] = Byte(k - 1)
      /\ Len(t) = 2 => k > 1 /\ t = <<Byte(k - 2), Byte(k - 1)>>
  BY <1>1, LastBytes
<1>3. p.state = t /\ (p.type = PtrType(t) \/ p.type = "regular" \/ p.type = "level0")
  BY DEF LeadsTo
<1>4. /\ DOMAIN firstLevelLookup = {m[1] : m \in StateNodes \cap firstLevelNodes}
      /\ \A c \in DOMAIN firstLevelLookup : firstLevelLookup[c] = <<c>>
      /\ DOMAIN secondLevelLookup = StateNodes \cap secondLevelNodes
      /\ \A m \in DOMAIN secondLevelLookup : secondLevelLookup[m] = m
  BY DEF Reading, Filled
<1>5. CASE p.type = "level1"
  <2>1. PtrType(t) = "level1"
    BY <1>3, <1>5
  <2>2. Len(t) = 1 /\ t \in firstLevelNodes
    BY <1>1, <2>1 DEF PtrType
  <2>3. Byte(k - 1) \in DOMAIN firstLevelLookup /\ firstLevelLookup[Byte(k - 1)] = t
    BY <1>2, <1>4, <2>2
  <2> QED
    BY <1>5, <2>3 DEF Resolves, Resolve
<1>6. CASE p.type = "level2"
  <2>1. PtrType(t) = "level2"
    BY <1>3, <1>6
  <2>2. Len(t) = 2 /\ t \in secondLevelNodes
    BY <1>1, <2>1 DEF PtrType
  <2> DEFINE w == <<Byte(k - 2), Byte(k - 1)>>
  <2>3. w = t /\ k > 1
    BY <1>2, <2>2
  <2>4. w \in DOMAIN secondLevelLookup /\ secondLevelLookup[w] = t /\ k > 1
    BY <1>4, <2>2, <2>3
  <2> QED
    BY <1>6, <2>4 DEF Resolves, Resolve
<1>7. CASE p.type # "level1" /\ p.type # "level2"
  BY <1>3, <1>7 DEF Resolves, Resolve
<1> QED
  BY <1>5, <1>6, <1>7

-----------------------------------------------------------------------------
(* A match of a node that the bytes end with is one of a pattern in them.  *)
LEMMA MatchIsEvidence ==
  ASSUME Reading, NEW j \in Nat, init_idx + 1 <= j, j <= Len(packet), NEW k \in Nat, j <= k,
         NEW n \in Nodes, EndsWith(j, n), Match(n)
  PROVE  Evidence(k)
<1>1. BuiltTree /\ init_idx \in Nat /\ packet \in Strings
  BY DEF Reading, StatesKnown
<1>2. message[n] \in Seq(Nodes) /\ message[n] # <<>>
  BY <1>1 DEF BuiltTree, TrieInv, Match
<1> DEFINE p == message[n][1]
<1>3. p \in ToSet(message[n]) /\ p \in Nodes
  BY <1>2 DEF ToSet
<1>4. IsSuffix(p, n) /\ p \in ToSet(message[p])
  BY <1>1, <1>3 DEF BuiltTree, FiniteInv
<1> HIDE DEF p
<1>5. p \in Patterns
  <2>1. ToSet(message[p]) = Range(message[p])
    BY DEF ToSet, Range
  <2> QED
    BY <1>3, <1>4, <2>1 DEF Patterns
<1>6. EndsWith(j, p)
  <2>1. p \in Strings /\ n \in Strings
    BY <1>1, <1>3, NodeFacts
  <2>2. Read(j) \in Strings
    <3>1. init_idx <= j
      BY <1>1
    <3> QED
      BY <1>1, <3>1, ReadBytes
  <2> QED
    BY <1>4, <2>1, <2>2, SuffixTransitive DEF EndsWith
<1>7. j \in init_idx + 1 .. k
  BY <1>1
<1> QED
  BY <1>5, <1>6, <1>7 DEF Evidence

LEMMA EvidenceStays ==
  ASSUME init_idx \in Nat, NEW k \in Nat, NEW l \in Nat, k <= l, Evidence(k)
  PROVE  Evidence(l)
<1>1. PICK j \in init_idx + 1 .. k : \E p \in Patterns : EndsWith(j, p)
  BY DEF Evidence
<1>2. j \in init_idx + 1 .. l
  OBVIOUS
<1> QED
  BY <1>1, <1>2 DEF Evidence

(* The longest node the bytes end with, if it is known.                    *)
LEMMA LongestIs ==
  ASSUME Reading, NEW k \in Nat, init_idx <= k, k <= Len(packet), NEW x \in Nodes, EndsWith(k, x),
         \A n \in Nodes : EndsWith(k, n) => Len(n) <= Len(x)
  PROVE  LongestSuffixIn(Read(k), Nodes) = x
<1>1. Nodes \in SUBSET Strings /\ Read(k) \in Strings
  BY ReadBytes DEF Reading, StatesKnown, BuiltTree, TrieInv, TrieShape
<1>2. LongestIn(x, Read(k), Nodes)
  BY DEF LongestIn, EndsWith
<1> QED
  BY <1>1, <1>2, LongestUnique

LEMMA SeenNext ==
  ASSUME Reading, NEW k, MoreAt(k), NEW x \in Nodes, EndsWith(k + 1, x),
         \A n \in Nodes : EndsWith(k + 1, n) => Len(n) <= Len(x),
         NEW r, NEW r2, SeenBy(k, r), r = 1 => r2 = 1, Len(x) > 1 /\ Match(x) => r2 = 1
  PROVE  SeenBy(k + 1, r2)
<1>1. k + 1 \in Nat /\ init_idx <= k + 1 /\ k + 1 <= Len(packet) /\ k \in Nat /\ init_idx \in Nat
  BY ReadNext DEF Reading, MoreAt
<1>2. LongestSuffixIn(Read(k + 1), Nodes) = x
  BY <1>1, LongestIs
<1>3. ASSUME NEW j \in init_idx + 2 .. k + 1
      PROVE  LET n == LongestSuffixIn(Read(j), Nodes) IN Len(n) > 1 /\ Match(n) => r2 = 1
  <2>1. CASE j = k + 1
    BY <1>2, <2>1
  <2>2. CASE j # k + 1
    <3>1. j \in init_idx + 2 .. k
      BY <1>1, <2>2
    <3> QED
      BY <3>1 DEF SeenBy
  <2> QED
    BY <2>1, <2>2
<1> QED
  BY <1>3 DEF SeenBy

-----------------------------------------------------------------------------
(* From k to l in the state t, by a match or not.                          *)
LEMMA StepTo ==
  ASSUME Reading, NEW x, NEW m, NEW r, NEW k, ScanAt(k, x, m, r), NEW l \in Nat, k <= l,
         l <= Len(packet), NEW t \in StateNodes, BranchingRoot,
         l < Len(packet) => EndsWith(l, t), NEW pm, clean /\ pm => Evidence(l)
  PROVE  ScanAt(l, t, pm, IF pm THEN 1 ELSE r)
<1> DEFINE r2 == IF pm THEN 1 ELSE r
<1>1. k \in Nat /\ init_idx <= k /\ init_idx \in Nat /\ (clean /\ r = 1 => Evidence(k))
  BY DEF ScanAt, Reading
<1>2. init_idx <= l
  BY <1>1
<1>3. clean /\ (pm \/ r2 = 1) => Evidence(l)
  <2>1. CASE pm
    BY <2>1
  <2>2. CASE ~ pm
    <3>1. r2 = r
      BY <2>2
    <3> HIDE DEF r2
    <3> QED
      BY <1>1, <2>2, <3>1, EvidenceStays
  <2> QED
    BY <2>1, <2>2
<1> HIDE DEF r2
<1>4. ScanAt(l, t, pm, r2)
  BY <1>2, <1>3 DEF ScanAt
<1> QED
  BY <1>4 DEF r2

LongestAt(k, x) == \A n \in Nodes : EndsWith(k, n) => Len(n) <= Len(x)

(* The bytes end with m and with nothing longer: what is kept of it is the *)
(* state of m or, if m is a leaf, that of its failure.                     *)
LEMMA KeptPending ==
  ASSUME Reading, NEW k, MoreAt(k), NEW m \in Nodes, EndsWith(k, m), LongestAt(k, m),
         NEW t, t = m \/ (IsLeaf(m) /\ t = failure[m])
  PROVE  PendingAt(k, t)
<1>1. PendingAt(k, m)
  <2>1. \A n \in Nodes : Len(n) \in Nat
    BY NodeFacts DEF Reading, StatesKnown
  <2> QED
    BY <2>1 DEF PendingAt, LongestAt
<1>2. CASE t = m
  BY <1>1, <1>2
<1>3. CASE IsLeaf(m) /\ t = failure[m]
  <2>1. ~ HasGoto(m, Byte(k))
    BY <1>3, ReadNext, LeafHasNoGoto DEF Reading, StatesKnown
  <2> QED
    BY <1>1, <1>3, <2>1, FailureKeeps
<1> QED
  BY <1>2, <1>3

-----------------------------------------------------------------------------
(* The root is left for a node of the first level that has a state.        *)
LeaveRoot(c) == IF c \in DOMAIN firstLevelLookup THEN firstLevelLookup[c] ELSE Root

LEMMA RootLeft ==
  ASSUME Reading, NEW k, MoreAt(k)
  PROVE  LET c == Byte(k)
             t == LeaveRoot(c)
         IN /\ t \in StateNodes /\ (~ BranchingRoot => t = Root) /\ EndsWith(k + 1, t)
            /\ \/ t = <<c>>
               \/ t = Root /\ (BranchingRoot /\ <<c>> \in Nodes => IsLeaf(<<c>>))
<1> DEFINE c == Byte(k)
           t == LeaveRoot(c)
<1>1. /\ BuiltTree /\ c \in Character /\ Root \in Nodes /\ Root \in Strings /\ Len(Root) = 0
      /\ Read(k) \in Strings /\ Read(k + 1) \in Strings
  BY ReadNext, NodeFacts DEF Reading, StatesKnown
<1>2. EndsWith(k, Root) /\ EndsWith(k + 1, Root)
  BY <1>1, SuffixSelf DEF EndsWith, Root
<1>3. EndsWith(k + 1, <<c>>)
  <2>1. Append(Root, c) = <<c>>
    BY DEF Root
  <2> QED
    BY <1>1, <1>2, <2>1, EndsNext
<1>4. /\ DOMAIN firstLevelLookup = {m[1] : m \in StateNodes \cap firstLevelNodes}
      /\ \A b \in DOMAIN firstLevelLookup : firstLevelLookup[b] = <<b>>
      /\ firstLevelNodes = IF BranchingRoot THEN Children(Root) ELSE {}
  BY DEF Reading, Filled, Generated
<1>5. \A m \in firstLevelNodes : m = <<m[1]>> /\ BranchingRoot
  <2> TAKE m \in firstLevelNodes
  <2>1. BranchingRoot /\ m \in Children(Root)
    BY <1>4
  <2>2. m \in Strings /\ Len(m) = Len(Root) + 1
    BY <1>1, <2>1, ChildMeans DEF BuiltTree
  <2>3. m \in Seq(Character) /\ Len(m) = 1
    BY <1>1, <2>2 DEF Strings
  <2> QED
    BY <2>1, <2>3
<1>6. CASE c \in DOMAIN firstLevelLookup
  <2>1. PICK m \in StateNodes \cap firstLevelNodes : c = m[1]
    BY <1>4, <1>6
  <2>2. t = <<c>> /\ m = <<c>> /\ BranchingRoot
    BY <1>4, <1>5, <1>6, <2>1 DEF LeaveRoot
  <2> QED
    BY <1>3, <2>1, <2>2
<1>7. CASE c \notin DOMAIN firstLevelLookup
  <2>1. t = Root /\ Root \in StateNodes
    BY <1>7 DEF LeaveRoot, Reading
  <2>2. ASSUME BranchingRoot, <<c>> \in Nodes PROVE IsLeaf(<<c>>)
    <3>1. <<c>> # Root /\ Front(<<c>>) = Root
      BY DEF Front, Root
    <3>2. <<c>> \in Children(Root)
      BY <1>1, <2>2, <3>1 DEF BuiltTree, TrieInv
    <3>3. <<c>> \notin StateNodes
      <4>1. <<c>>[1] = c
        OBVIOUS
      <4> QED
        BY <1>4, <1>7, <2>2, <3>2, <4>1
    <3>4. IsBranch(Front(<<c>>))
      BY <2>2, <3>1 DEF BranchingRoot
    <3> QED
      BY <2>2, <3>3, <3>4, Zenon DEF StateNodes
  <2> QED
    BY <1>2, <2>1, <2>2
<1> QED
  BY <1>6, <1>7

LEMMA RootStep ==
  ASSUME Reading, NEW k, MoreAt(k), NEW m, NEW r, ScanAt(k, Root, m, r)
  PROVE  LET t  == LeaveRoot(Byte(k))
             r2 == IF m THEN 1 ELSE r
         IN ScanAt(k + 1, t, m, r2) /\ (ExactAt(k, Root, r) => ExactAt(k + 1, t, r2))
<1> DEFINE c == Byte(k)
           t == LeaveRoot(c)
           r2 == IF m THEN 1 ELSE r
<1>1. /\ BuiltTree /\ Root \in Nodes /\ Len(Root) = 0 /\ k \in Nat /\ init_idx \in Nat
      /\ k + 1 \in Nat /\ init_idx <= k + 1 /\ k + 1 <= Len(packet) /\ Len(packet) \in Nat
      /\ Read(k + 1) \in Strings
  BY ReadNext, NodeFacts DEF Reading, StatesKnown, MoreAt
<1>2. /\ t \in StateNodes /\ (~ BranchingRoot => t = Root) /\ EndsWith(k + 1, t)
      /\ \/ t = <<c>>
         \/ t = Root /\ (BranchingRoot /\ <<c>> \in Nodes => IsLeaf(<<c>>))
  BY RootLeft
<1> HIDE DEF t, c
<1>3. clean /\ (m \/ r2 = 1) => Evidence(k + 1)
  <2>1. clean /\ (m \/ r2 = 1) => Evidence(k)
    <3>1. CASE m
      BY <3>1 DEF ScanAt
    <3>2. CASE ~ m
      BY <3>2 DEF ScanAt
    <3> QED
      BY <3>1, <3>2
  <2>2. k <= k + 1
    BY <1>1
  <2> QED
    BY <1>1, <2>1, <2>2, EvidenceStays
<1>4. r = 1 => r2 = 1
  OBVIOUS
<1> HIDE DEF r2
<1>5. ScanAt(k + 1, t, m, r2)
  BY <1>1, <1>2, <1>3 DEF ScanAt
<1>6. ASSUME ExactAt(k, Root, r), BranchingRoot, ~ GotoToRootInTable
      PROVE  (k + 1 < Len(packet) => PendingAt(k + 1, t)) /\ SeenBy(k + 1, r2)
  <2>1. PendingAt(k, Root) /\ SeenBy(k, r)
    BY <1>6 DEF ExactAt, MoreAt
  <2>2. \A n \in Nodes : Len(n) \in Nat /\ (EndsWith(k + 1, n) => Len(n) <= 1)
    <3> TAKE n \in Nodes
    <3>1. Len(n) \in Nat
      BY <1>1, NodeFacts
    <3>2. EndsWith(k + 1, n) => Len(n) <= Len(Root) + 1
      BY <1>1, <2>1, StepUp
    <3>3. Len(Root) + 1 = 1
      BY <1>1
    <3> QED
      BY <3>1, <3>2, <3>3
  <2>3. ASSUME k + 1 < Len(packet), NEW n \in Nodes, EndsWith(k + 1, n), Len(n) > Len(t)
        PROVE  ~ HasGoto(n, Byte(k + 1))
    <3>1. MoreAt(k + 1)
      BY <1>1, <2>3 DEF MoreAt
    <3>2. Byte(k + 1) \in Character
      BY <3>1, ReadNext DEF Reading
    <3>3. (t = Root /\ IsLeaf(<<c>>)) \/ (<<c>> \notin Nodes /\ t = Root)
      <4>1. t # <<c>>
        <5>1. Len(<<c>>) = 1
          OBVIOUS
        <5>2. Len(n) <= 1 /\ Len(n) \in Nat
          BY <2>2, <2>3
        <5>3. ~ (Len(n) > 1)
          BY <5>2
        <5> QED
          BY <2>3, <5>1, <5>3
      <4> QED
        BY <1>2, <1>6, <4>1
    <3>4. n # Root
      <4>1. Len(n) > 0 /\ Len(n) \in Nat
        BY <1>1, <2>2, <2>3, <3>3
      <4>2. Len(n) # 0
        BY <4>1
      <4> QED
        BY <1>1, <4>2
    <3>5. Front(n) \in Nodes /\ n = Append(Front(n), c) /\ Len(Front(n)) \in Nat
          /\ Len(n) = Len(Front(n)) + 1
      BY <2>3, <3>4, EndsNext DEF c
    <3>6. Len(Front(n)) = 0
      <4> DEFINE a == Len(Front(n))
                 b == Len(n)
      <4>1. a \in Nat /\ b = a + 1 /\ b <= 1
        BY <2>2, <2>3, <3>5
      <4> HIDE DEF a, b
      <4>2. a = 0
        BY <4>1
      <4> QED
        BY <4>2 DEF a
    <3>7. Front(n) = Root
      BY <1>1, <3>5, <3>6, NodeFacts
    <3>8. n = <<c>>
      <4>1. Append(Root, c) = <<c>>
        BY DEF Root
      <4> QED
        BY <3>5, <3>7, <4>1
    <3>9. IsLeaf(n)
      BY <2>3, <3>3, <3>8
    <3> QED
      BY <1>1, <3>2, <3>9, LeafHasNoGoto
  <2>4. SeenBy(k + 1, r2)
    <3> DEFINE x == LongestSuffixIn(Read(k + 1), Nodes)
    <3>1. Nodes \in SUBSET Strings /\ <<>> \in Nodes
      BY <1>1 DEF BuiltTree, TrieInv, TrieShape, Root
    <3>2. LongestIn(x, Read(k + 1), Nodes)
      BY <1>1, <3>1, LongestExists
    <3> HIDE DEF x
    <3>3. x \in Nodes /\ EndsWith(k + 1, x) /\ \A n \in Nodes : EndsWith(k + 1, n) => Len(n) <= Len(x)
      BY <3>2 DEF LongestIn, EndsWith
    <3>4. ~ (Len(x) > 1)
      BY <2>2, <3>3
    <3> QED
      BY <1>4, <2>1, <3>3, <3>4, SeenNext
  <2> QED
    BY <2>3, <2>4 DEF PendingAt
<1>7. ExactAt(k, Root, r) => ExactAt(k + 1, t, r2)
  BY <1>6 DEF ExactAt
<1> QED
  BY <1>5, <1>7 DEF t, r2, c

-----------------------------------------------------------------------------
(* A branch is left by its goto, or by its failure if it has none.         *)
GotoTo(k, x, m, t, p) ==
  /\ m \in Nodes /\ EndsWith(k + 1, m) /\ Len(m) = Len(x) + 1
  /\ t \in StateNodes /\ EndsWith(k + 1, t) /\ LeadsTo(p, t)
  /\ t = m \/ (IsLeaf(m) /\ t = failure[m])
  /\ p.match <=> Match(m) \/ (t # m /\ Match(t))

LEMMA GotoLeads ==
  ASSUME Reading, BranchingRoot, NEW k, MoreAt(k), NEW x \in StateNodes, IsBranch(x), EndsWith(k, x),
         FoundGoto(data[x], Byte(k)),
         NEW m, m = Append(x, Byte(k)), NEW t, t = RealNode(m),
         NEW p, p = data[x].gotos[Byte(k)]
  PROVE  GotoTo(k, x, m, t, p)
<1> DEFINE c == Byte(k)
           q == Pointer(m)
<1>1. /\ BuiltTree /\ StatesKnown /\ x \in Nodes /\ c \in Character /\ data[x] = BranchData(x)
      /\ k + 1 \in Nat /\ init_idx <= k + 1 /\ k + 1 <= Len(packet)
  BY ReadNext DEF Reading, StatesKnown, StateNodes, Filled, DataOf
<1>2. /\ data[x].gotos = [b \in {Last(n) : n \in Children(x)} |-> GotoPointer(x, Pointer(Append(x, b)))]
      /\ c \in DOMAIN data[x].gotos
  BY <1>1 DEF BranchData, FoundGoto
<1>3. p = GotoPointer(x, q) /\ c \in {Last(n) : n \in Children(x)}
  BY <1>2
<1>4. m \in Nodes /\ HasGoto(x, c)
  BY <1>1, <1>3, GotoIsChild DEF HasGoto
<1>5. EndsWith(k + 1, m) /\ Len(m) = Len(x) + 1
  BY <1>1, EndsNext
<1>6. t = IF m \in StateNodes THEN m ELSE failure[m]
  BY <1>1, <1>4, RealNodeMeans
<1>7. failure[m] \in StateNodes /\ EndsWith(k + 1, failure[m])
  BY <1>1, <1>4, <1>5, FailureEnds
<1>8. t = m \/ (m \notin StateNodes /\ IsLeaf(m) /\ t = failure[m])
  <2>1. CASE m \in StateNodes
    BY <1>6, <2>1
  <2>2. CASE m \notin StateNodes
    <3>1. Front(m) = x
      <4>1. x \in Seq(Character) /\ Len(x) \in Nat
        BY <1>1, NodeFacts DEF Strings
      <4> QED
        BY <1>1, <4>1 DEF Front
    <3>2. IsLeaf(m)
      BY <1>4, <2>2, <3>1, Zenon DEF StateNodes
    <3> QED
      BY <1>6, <2>2, <3>2
  <2> QED
    BY <2>1, <2>2
<1>9. p.state = t /\ p.match = RealMatch(m) /\ (p.type = PtrType(t) \/ p.type = "regular")
  <2>1. q = [state |-> t, type |-> PtrType(t), match |-> RealMatch(m)]
    BY DEF Pointer
  <2>2. p = q \/ p = [q EXCEPT !.type = "regular"]
    BY <1>3 DEF GotoPointer
  <2> HIDE DEF q
  <2> QED
    BY <2>1, <2>2
<1>10. RealMatch(m) <=> Match(m) \/ (m \notin StateNodes /\ Match(failure[m]))
  BY <1>1, <1>4, RealMatchMeans
<1>11. p.match <=> Match(m) \/ (t # m /\ Match(t))
  <2>1. CASE m \in StateNodes
    <3>1. t = m
      BY <1>6, <2>1
    <3> QED
      BY <1>9, <1>10, <2>1, <3>1, Zenon
  <2>2. CASE m \notin StateNodes
    <3>1. t = failure[m] /\ t # m
      BY <1>6, <1>7, <2>2
    <3> QED
      BY <1>9, <1>10, <2>2, <3>1, Zenon
  <2> QED
    BY <2>1, <2>2
<1> QED
  BY <1>4, <1>5, <1>6, <1>7, <1>8, <1>9, <1>11 DEF LeadsTo, GotoTo

LEMMA GotoStep ==
  ASSUME Reading, BranchingRoot, NEW k, MoreAt(k), NEW x, NEW mm, NEW r, ScanAt(k, x, mm, r),
         IsBranch(x), FoundGoto(data[x], Byte(k)),
         NEW p, p = data[x].gotos[Byte(k)], NEW r2, r2 = IF p.match THEN 1 ELSE r
  PROVE  /\ Resolves(p, k + 1)
         /\ ScanAt(k + 1, Resolve(p, k + 1), p.match, r2)
         /\ ExactAt(k, x, r) => ExactAt(k + 1, Resolve(p, k + 1), r2)
<1> DEFINE m == Append(x, Byte(k))
           t == RealNode(m)
           pm == p.match
<1>1. x \in StateNodes /\ EndsWith(k, x) /\ x \in Nodes
  BY DEF ScanAt, MoreAt, StateNodes
<1>2. /\ m \in Nodes /\ EndsWith(k + 1, m) /\ Len(m) = Len(x) + 1
      /\ t \in StateNodes /\ EndsWith(k + 1, t) /\ LeadsTo(p, t)
      /\ t = m \/ (IsLeaf(m) /\ t = failure[m])
      /\ pm <=> Match(m) \/ (t # m /\ Match(t))
  <2>1. GotoTo(k, x, m, t, p)
    BY <1>1, GotoLeads
  <2> QED
    BY <2>1 DEF GotoTo
<1> HIDE DEF m, t
<1>3. /\ k + 1 \in Nat /\ init_idx <= k + 1 /\ k + 1 <= Len(packet) /\ k \in Nat /\ k <= k + 1
      /\ init_idx + 1 <= k + 1 /\ init_idx \in Nat /\ t \in Nodes
  BY <1>2, ReadNext DEF Reading, MoreAt, StateNodes
<1>4. Resolves(p, k + 1) /\ Resolve(p, k + 1) = t
  BY <1>2, <1>3, Resolved
<1>5. pm => Evidence(k + 1)
  <2>1. Match(m) => Evidence(k + 1)
    BY <1>2, <1>3, MatchIsEvidence
  <2>2. Match(t) => Evidence(k + 1)
    BY <1>2, <1>3, MatchIsEvidence
  <2> QED
    BY <1>2, <2>1, <2>2
<1>6. ScanAt(k + 1, t, pm, r2)
  <2> DEFINE y == IF pm THEN 1 ELSE r
  <2>1. ScanAt(k + 1, t, pm, y)
    <3> HIDE DEF pm
    <3> QED
      BY <1>2, <1>3, <1>5, StepTo
  <2> QED
    BY <2>1
<1>7. ASSUME ExactAt(k, x, r), ~ GotoToRootInTable
      PROVE  (k + 1 < Len(packet) => PendingAt(k + 1, t)) /\ SeenBy(k + 1, r2)
  <2>1. PendingAt(k, x) /\ SeenBy(k, r)
    BY <1>7 DEF ExactAt, MoreAt
  <2>2. LongestAt(k + 1, m)
    BY <1>1, <1>2, <2>1, StepUp DEF LongestAt
  <2>3. k + 1 < Len(packet) => PendingAt(k + 1, t)
    BY <1>2, <1>3, <2>2, KeptPending DEF MoreAt
  <2>4. (r = 1 => r2 = 1) /\ (Match(m) => r2 = 1)
    BY <1>2
  <2>5. SeenBy(k + 1, r2)
    BY <1>2, <2>1, <2>2, <2>4, SeenNext DEF LongestAt
  <2> QED
    BY <2>3, <2>5
<1>8. ExactAt(k, x, r) => ExactAt(k + 1, t, r2)
  BY <1>7 DEF ExactAt
<1> QED
  BY <1>4, <1>6, <1>8

LEMMA FailStepRight ==
  ASSUME Reading, BranchingRoot, NEW k, MoreAt(k), NEW x, NEW mm, NEW r, ScanAt(k, x, mm, r),
         IsBranch(x), x # Root, ~ FoundGoto(data[x], Byte(k))
  PROVE  /\ ScanAt(k, data[x].fail, FALSE, r)
         /\ ExactAt(k, x, r) => ExactAt(k, data[x].fail, r)
<1>1. /\ x \in StateNodes /\ EndsWith(k, x) /\ x \in Nodes /\ k \in Nat /\ k < Len(packet)
      /\ StatesKnown /\ BuiltTree /\ init_idx <= k /\ Byte(k) \in Character
  <2>1. Byte(k) \in Character
    BY ReadNext DEF Reading
  <2>2. x \in StateNodes /\ EndsWith(k, x) /\ k \in Nat /\ k < Len(packet) /\ init_idx <= k
    BY DEF ScanAt, MoreAt
  <2> QED
    BY <2>1, <2>2 DEF StateNodes, Reading, StatesKnown
<1>2. k <= Len(packet)
  BY <1>1, ReadNext DEF Reading
<1>3. failure[x] \in StateNodes /\ EndsWith(k, failure[x]) /\ failure[x] \in Nodes
  BY <1>1, <1>2, FailureEnds DEF StateNodes
<1>4. data[x] = BranchData(x)
  BY <1>1 DEF Reading, Filled, DataOf
<1>5. data[x].fail = failure[x]
  <2>1. data[x].fail = RealNode(failure[x])
    BY <1>4 DEF BranchData
  <2> QED
    BY <1>1, <1>3, <2>1, RealNodeMeans
<1>6. ScanAt(k, failure[x], FALSE, r)
  BY <1>3 DEF ScanAt
<1>7. ASSUME ExactAt(k, x, r), ~ GotoToRootInTable
      PROVE  PendingAt(k, failure[x]) /\ SeenBy(k, r)
  <2>1. PendingAt(k, x) /\ SeenBy(k, r)
    BY <1>7 DEF ExactAt, MoreAt
  <2>2. DOMAIN data[x].gotos = {Last(n) : n \in Children(x)}
    BY <1>4 DEF BranchData
  <2>3. Byte(k) \notin DOMAIN data[x].gotos
    <3>1. SUFFICES ASSUME Byte(k) \in DOMAIN data[x].gotos PROVE FALSE
      OBVIOUS
    <3>2. data[x].type = "LT" /\ data[x].gotos[Byte(k)].state = Root
      BY <3>1 DEF FoundGoto
    <3> QED
      BY <1>1, <1>7, <3>1, <3>2 DEF GotoToRootInTable, Reading
  <2>4. ~ HasGoto(x, Byte(k))
    BY <1>1, <2>2, <2>3, GotoIsChild
  <2> QED
    BY <1>1, <2>1, <2>4, FailureKeeps
<1>8. ExactAt(k, x, r) => ExactAt(k, failure[x], r)
  BY <1>7 DEF ExactAt
<1> QED
  BY <1>5, <1>6, <1>8

-----------------------------------------------------------------------------
(* A compressed path is followed for as long as the packet agrees with it. *)
Agreed(k, chars, a) ==
  /\ a \in 0 .. Len(chars) /\ k + a <= Len(packet)
  /\ \A i \in 1 .. a : Byte(k + i - 1) = chars[i]
  /\ a < Len(chars) /\ k + a < Len(packet) => Byte(k + a) # chars[a + 1]

LEMMA AgreementExists ==
  ASSUME NEW k \in Nat, NEW chars, Len(chars) \in Nat, Len(packet) \in Nat, k <= Len(packet)
  PROVE  \E a \in 0 .. Len(chars) : Agreed(k, chars, a)
<1> SUFFICES ASSUME \A a \in 0 .. Len(chars) : ~ Agreed(k, chars, a) PROVE FALSE
  OBVIOUS
<1> DEFINE N == Len(chars)
           W == Len(packet)
           Upto(a) == k + a <= W /\ \A i \in 1 .. a : Byte(k + i - 1) = chars[i]
           P == {a \in Nat : a <= N => Upto(a)}
<1>1. N \in Nat /\ W \in Nat /\ k <= W
  OBVIOUS
<1>2. \A a \in 0 .. N : Upto(a) => a < N /\ k + a < W /\ Byte(k + a) = chars[a + 1]
  BY <1>1 DEF Agreed
<1> HIDE DEF N, W
<1>3. 0 \in P
  BY <1>1
<1>4. ASSUME NEW a \in Nat, a \in P PROVE a + 1 \in P
  <2> SUFFICES ASSUME a + 1 <= N PROVE Upto(a + 1)
    OBVIOUS
  <2>1. a \in 0 .. N /\ Upto(a)
    BY <1>1, <1>4
  <2>2. k + a < W /\ Byte(k + a) = chars[a + 1]
    BY <1>2, <2>1
  <2>3. k + (a + 1) <= W /\ k + (a + 1) - 1 = k + a
    BY <1>1, <2>2
  <2>4. \A i \in 1 .. a + 1 : i \in 1 .. a \/ i = a + 1
    OBVIOUS
  <2> QED
    BY <2>1, <2>2, <2>3, <2>4
<1>5. \A a \in Nat : a \in P
  <2> HIDE DEF P
  <2> QED
    BY <1>3, <1>4, Induction
<1>6. Upto(N)
  BY <1>1, <1>5
<1> QED
  BY <1>1, <1>2, <1>6

LEMMA AgreementMeans ==
  ASSUME idx \in Nat, NEW chars, Len(chars) \in Nat, Len(packet) \in Nat, idx <= Len(packet)
  PROVE  Agreed(idx, chars, Agreement(chars))
<1>1. \E a \in 0 .. Len(chars) : Agreed(idx, chars, a)
  BY AgreementExists
<1>2. Agreement(chars) = CHOOSE a \in 0 .. Len(chars) :
        /\ idx + a <= Len(packet)
        /\ \A i \in 1 .. a : Byte(idx + i - 1) = chars[i]
        /\ a < Len(chars) /\ idx + a < Len(packet) => Byte(idx + a) # chars[a + 1]
  BY DEF Agreement
<1> QED
  BY <1>1, <1>2 DEF Agreed

(* What the state of a path holds.                                         *)
Holds(d, x, p, L) ==
  /\ Len(d.chars) = L - 1 /\ Len(d.chars) \in Nat /\ \A i \in 1 .. L - 1 : d.chars[i] = Last(p[i + 1])
  /\ \A i \in 1 .. L - 1 : LeadsTo(d.fails[i], failure[p[i]])
  /\ \A i \in 1 .. L - 1 : /\ Match(p[i + 1]) => d.matches[i]
                           /\ d.matches[i] => Match(p[i + 1]) \/ Match(failure[p[i + 1]])
  /\ d.next = IF Continues(x) THEN p[L] ELSE failure[p[L]]

LEMMA PathHolds ==
  ASSUME Reading, NEW x \in StateNodes, NumGotos(x) = 1,
         NEW p, p = Path(x), NEW L, L = Len(p), NEW d, d = PathData(x)
  PROVE  Holds(d, x, p, L)
<1>1. BuiltTree /\ StatesKnown /\ x \in Nodes
  BY DEF Reading, StatesKnown, StateNodes
<1>2. PathIs(x, p, L)
  BY <1>1, PathFacts
<1>3. /\ L \in Nat /\ L >= 2 /\ Last(p) = p[L] /\ p[L] \in Nodes
      /\ \A i \in 1 .. L : p[i] \in Nodes
      /\ (IsLeaf(p[L]) <=> ~ Continues(x)) /\ (~ IsLeaf(p[L]) => p[L] \in StateNodes)
  BY <1>2 DEF PathIs
<1>4. L - 1 \in Nat /\ L - 1 \in 1 .. L - 1
      /\ \A i \in 1 .. L - 1 : i \in 1 .. L /\ i + 1 \in 1 .. L
  BY <1>3
<1>5. \A n \in Nodes : /\ failure[n] \in StateNodes /\ failure[n] \in Nodes
                       /\ RealNode(failure[n]) = failure[n]
  <2> TAKE n \in Nodes
  <2>1. failure[n] \in StateNodes /\ failure[n] \in Nodes
    BY <1>1, TargetHasState DEF StatesKnown
  <2> QED
    BY <1>1, <2>1, RealNodeMeans
<1>6. \A n \in Nodes : n \in StateNodes => (RealMatch(n) <=> Match(n))
  BY <1>1, RealMatchMeans, Zenon
<1>7. /\ d.chars = [i \in 1 .. L - 1 |-> Last(p[i + 1])]
      /\ d.fails = [i \in 1 .. L - 1 |-> FailPointer(failure[p[i]])]
      /\ d.matches = [i \in 1 .. L - 1 |->
                        IF i < L - 1 THEN Match(p[i + 1]) \/ RealMatch(failure[p[i + 1]])
                        ELSE (~ Continues(x) /\ Match(Last(p))) \/ RealMatch(PathEnd(x))]
      /\ d.next = RealNode(PathEnd(x))
  BY DEF PathData
<1>8. PathEnd(x) = IF Continues(x) THEN p[L] ELSE failure[p[L]]
  BY <1>3 DEF PathEnd
<1>9. d.next = IF Continues(x) THEN p[L] ELSE failure[p[L]]
  <2>1. CASE Continues(x)
    <3>1. p[L] \in StateNodes
      BY <1>3, <2>1
    <3> QED
      BY <1>1, <1>3, <1>7, <1>8, <2>1, <3>1, RealNodeMeans
  <2>2. CASE ~ Continues(x)
    BY <1>3, <1>5, <1>7, <1>8, <2>2
  <2> QED
    BY <2>1, <2>2
<1>10. Len(d.chars) = L - 1 /\ \A i \in 1 .. L - 1 : d.chars[i] = Last(p[i + 1])
  BY <1>4, <1>7
<1>11. ASSUME NEW i \in 1 .. L - 1 PROVE LeadsTo(d.fails[i], failure[p[i]])
  <2> DEFINE t == failure[p[i]]
             q == Pointer(t)
  <2>1. RealNode(t) = t /\ d.fails[i] = FailPointer(t)
    BY <1>3, <1>4, <1>5, <1>7
  <2> HIDE DEF t
  <2>2. q = [state |-> t, type |-> PtrType(t), match |-> RealMatch(t)]
    BY <2>1 DEF Pointer
  <2>3. FailPointer(t) = IF t = Root THEN [q EXCEPT !.type = "level0"] ELSE q
    BY <2>1 DEF FailPointer
  <2> HIDE DEF q
  <2>4. LeadsTo(FailPointer(t), t)
    <3>1. CASE t = Root
      BY <2>2, <2>3, <3>1 DEF LeadsTo
    <3>2. CASE t # Root
      BY <2>2, <2>3, <3>2 DEF LeadsTo
    <3> QED
      BY <3>1, <3>2
  <2> QED
    BY <2>1, <2>4 DEF t
<1>12. ASSUME NEW i \in 1 .. L - 1
       PROVE  /\ Match(p[i + 1]) => d.matches[i]
              /\ d.matches[i] => Match(p[i + 1]) \/ Match(failure[p[i + 1]])
  <2> DEFINE n == p[i + 1]
             f == failure[n]
  <2>1. n \in Nodes /\ f \in Nodes /\ f \in StateNodes
    BY <1>3, <1>4, <1>5
  <2>2. RealMatch(f) <=> Match(f)
    BY <1>6, <2>1
  <2>3. CASE i < L - 1
    <3>1. d.matches[i] = (Match(n) \/ RealMatch(f))
      BY <1>7, <2>3
    <3> HIDE DEF n, f
    <3> QED
      BY <2>2, <3>1, Zenon DEF n, f
  <2>4. CASE ~ (i < L - 1)
    <3>1. i = L - 1 /\ i + 1 = L
      BY <1>3, <2>4
    <3>2. d.matches[i] = ((~ Continues(x) /\ Match(n)) \/ RealMatch(PathEnd(x)))
      BY <1>3, <1>7, <2>4, <3>1
    <3>3. n = p[L]
      BY <3>1
    <3> HIDE DEF n, f
    <3>4. CASE Continues(x)
      <4>1. PathEnd(x) = n /\ n \in StateNodes
        BY <1>3, <1>8, <3>3, <3>4
      <4>2. RealMatch(PathEnd(x)) <=> Match(n)
        BY <1>6, <2>1, <4>1
      <4> QED
        BY <3>2, <3>4, <4>2, Zenon DEF n, f
    <3>5. CASE ~ Continues(x)
      <4>1. PathEnd(x) = f
        BY <1>8, <3>3, <3>5 DEF f
      <4>2. RealMatch(PathEnd(x)) <=> Match(f)
        BY <2>2, <4>1
      <4> QED
        BY <3>2, <3>5, <4>2, Zenon DEF n, f
    <3> QED
      BY <3>4, <3>5
  <2> QED
    BY <2>3, <2>4
<1> QED
  BY <1>4, <1>9, <1>10, <1>11, <1>12 DEF Holds

(* The bytes read on a path end with its nodes, and with nothing longer if *)
(* they did not at its start.                                              *)
LEMMA PathReads ==
  ASSUME Reading, NEW k, MoreAt(k), NEW x \in StateNodes, NumGotos(x) = 1, EndsWith(k, x),
         NEW p, NEW L, PathIs(x, p, L), NEW d, Holds(d, x, p, L), NEW a, Agreed(k, d.chars, a)
  PROVE  \A i \in 0 .. a : /\ EndsWith(k + i, p[i + 1])
                           /\ PendingAt(k, x) /\ i > 0 => LongestAt(k + i, p[i + 1])
<1> DEFINE Q(i) == /\ EndsWith(k + i, p[i + 1])
                   /\ PendingAt(k, x) /\ i > 0 => LongestAt(k + i, p[i + 1])
           P == {i \in Nat : i <= a => Q(i)}
<1>1. /\ L \in Nat /\ L >= 2 /\ p[1] = x /\ \A i \in 1 .. L : p[i] \in Nodes
      /\ \A i \in 1 .. L - 1 : Children(p[i]) = {p[i + 1]}
  BY DEF PathIs
<1>2. Len(d.chars) = L - 1 /\ \A i \in 1 .. L - 1 : d.chars[i] = Last(p[i + 1])
  BY DEF Holds
<1>3. /\ a \in 0 .. L - 1 /\ k + a <= Len(packet) /\ \A i \in 1 .. a : Byte(k + i - 1) = d.chars[i]
  BY <1>2 DEF Agreed
<1>4. /\ k \in Nat /\ init_idx <= k /\ init_idx \in Nat /\ Len(packet) \in Nat /\ BuiltTree
  BY ReadNext DEF MoreAt, Reading, StatesKnown
<1>5. 0 \in P
  BY <1>1, <1>4
<1>6. ASSUME NEW i \in Nat, i \in P PROVE i + 1 \in P
  <2> SUFFICES ASSUME i + 1 <= a PROVE Q(i + 1)
    OBVIOUS
  <2>1. /\ Q(i) /\ i + 1 \in 1 .. L - 1 /\ i + 1 \in 1 .. L /\ i + 2 \in 1 .. L /\ i + 1 \in 1 .. a
        /\ (i + 1) + 1 = i + 2 /\ k + (i + 1) - 1 = k + i /\ (k + i) + 1 = k + (i + 1)
    BY <1>1, <1>3, <1>4, <1>6
  <2>2. MoreAt(k + i)
    BY <1>3, <1>4, <2>1 DEF MoreAt
  <2> DEFINE m == p[i + 1]
             n == p[i + 2]
  <2>3. m \in Nodes /\ n \in Nodes /\ Children(m) = {n}
    BY <1>1, <2>1
  <2>4. Byte(k + i) = Last(n)
    BY <1>2, <1>3, <2>1
  <2>5. n = Append(m, Byte(k + i)) /\ Len(n) = Len(m) + 1
    <3>1. n \in Children(m) /\ TrieInv
      BY <1>4, <2>3 DEF BuiltTree
    <3> QED
      BY <2>3, <2>4, <3>1, ChildMeans
  <2>6. EndsWith(k + i, m)
    BY <2>1
  <2> HIDE DEF m, n
  <2>7. EndsWith(k + (i + 1), n)
    BY <2>1, <2>2, <2>3, <2>5, <2>6, EndsNext
  <2>8. ASSUME PendingAt(k, x) PROVE LongestAt(k + (i + 1), n)
    <3>1. PendingAt(k + i, m)
      <4>1. CASE i = 0
        BY <1>1, <1>4, <2>8, <4>1 DEF m
      <4>2. CASE i # 0
        <5>1. LongestAt(k + i, m)
          BY <2>1, <2>8, <4>2 DEF m
        <5>2. \A w \in Nodes : Len(w) \in Nat
          BY <1>4, NodeFacts
        <5> QED
          BY <2>3, <5>1, <5>2 DEF PendingAt, LongestAt
      <4> QED
        BY <4>1, <4>2
    <3>2. ASSUME NEW w \in Nodes, EndsWith(k + (i + 1), w) PROVE Len(w) <= Len(n)
      BY <2>1, <2>2, <2>3, <2>5, <3>1, <3>2, StepUp
    <3> QED
      BY <3>2 DEF LongestAt
  <2> QED
    BY <2>1, <2>7, <2>8 DEF n
<1>7. \A i \in Nat : i \in P
  <2> HIDE DEF P
  <2> QED
    BY <1>5, <1>6, Induction
<1> QED
  BY <1>3, <1>7

(* What a path says of the bytes that were read on it.                     *)
LEMMA PathEvidence ==
  ASSUME Reading, NEW k, MoreAt(k), NEW x \in StateNodes, NumGotos(x) = 1, EndsWith(k, x),
         NEW p, NEW L, PathIs(x, p, L), NEW d, Holds(d, x, p, L), NEW a, Agreed(k, d.chars, a)
  PROVE  MatchesBefore(d, a) => Evidence(k + a)
<1> SUFFICES ASSUME NEW i \in 1 .. a, d.matches[i] PROVE Evidence(k + a)
  BY DEF MatchesBefore
<1>1. /\ a \in 0 .. L - 1 /\ k + a <= Len(packet) /\ L \in Nat /\ \A j \in 1 .. L : p[j] \in Nodes
  BY DEF Agreed, Holds, PathIs
<1>2. k \in Nat /\ init_idx <= k /\ init_idx \in Nat /\ Len(packet) \in Nat /\ BuiltTree
  BY ReadNext DEF MoreAt, Reading, StatesKnown
<1>3. /\ i \in 0 .. a /\ i \in 1 .. L - 1 /\ i + 1 \in 1 .. L
      /\ k + i \in Nat /\ init_idx <= k + i /\ init_idx + 1 <= k + i /\ k + i <= Len(packet)
      /\ k + a \in Nat /\ k + i <= k + a
  BY <1>1, <1>2
<1> DEFINE n == p[i + 1]
<1>4. n \in Nodes /\ EndsWith(k + i, n) /\ failure[n] \in Nodes
  BY <1>1, <1>2, <1>3, PathReads, NodeFacts
<1>5. EndsWith(k + i, failure[n])
  BY <1>3, <1>4, FailureEnds
<1>6. Match(n) \/ Match(failure[n])
  BY <1>3 DEF Holds
<1> HIDE DEF n
<1> QED
  BY <1>3, <1>4, <1>5, <1>6, MatchIsEvidence

LEMMA PathSeen ==
  ASSUME Reading, NEW k, MoreAt(k), NEW x \in StateNodes, NumGotos(x) = 1, EndsWith(k, x),
         NEW p, NEW L, PathIs(x, p, L), NEW d, Holds(d, x, p, L), NEW a, Agreed(k, d.chars, a),
         PendingAt(k, x), NEW r, SeenBy(k, r), NEW r2, r = 1 => r2 = 1, MatchesBefore(d, a) => r2 = 1
  PROVE  SeenBy(k + a, r2)
<1>1. /\ a \in 0 .. L - 1 /\ k + a <= Len(packet) /\ L \in Nat /\ \A j \in 1 .. L : p[j] \in Nodes
  BY DEF Agreed, Holds, PathIs
<1>2. k \in Nat /\ init_idx <= k /\ init_idx \in Nat /\ Len(packet) \in Nat
  BY ReadNext DEF MoreAt, Reading
<1>3. ASSUME NEW j \in init_idx + 2 .. k + a
      PROVE  LET n == LongestSuffixIn(Read(j), Nodes) IN Len(n) > 1 /\ Match(n) => r2 = 1
  <2>1. CASE j <= k
    <3>1. j \in init_idx + 2 .. k
      BY <1>1, <1>2, <2>1
    <3> QED
      BY <3>1 DEF SeenBy
  <2>2. CASE ~ (j <= k)
    <3> DEFINE i == j - k
    <3>1. /\ i \in 1 .. a /\ i \in 0 .. a /\ i \in 1 .. L - 1 /\ i + 1 \in 1 .. L /\ i > 0
          /\ k + i = j /\ j \in Nat /\ init_idx <= j /\ j <= Len(packet)
      BY <1>1, <1>2, <2>2
    <3> HIDE DEF i
    <3> DEFINE n == p[i + 1]
    <3>2. n \in Nodes /\ EndsWith(j, n) /\ LongestAt(j, n)
      <4>1. EndsWith(k + i, n) /\ LongestAt(k + i, n)
        BY <3>1, PathReads
      <4> QED
        BY <1>1, <3>1, <4>1
    <3>3. Match(n) => d.matches[i]
      BY <3>1 DEF Holds
    <3>4. Match(n) => r2 = 1
      BY <3>1, <3>3 DEF MatchesBefore
    <3> HIDE DEF n
    <3>5. LongestSuffixIn(Read(j), Nodes) = n
      BY <3>1, <3>2, LongestIs DEF LongestAt
    <3> QED
      BY <3>4, <3>5
  <2> QED
    BY <2>1, <2>2
<1> QED
  BY <1>3 DEF SeenBy

(* The byte a path does not go on with takes the failure of its node.      *)
LEMMA PathFails ==
  ASSUME Reading, BranchingRoot, NEW k, MoreAt(k), NEW x \in StateNodes, NumGotos(x) = 1,
         EndsWith(k, x), NEW p, NEW L, PathIs(x, p, L), NEW d, Holds(d, x, p, L),
         NEW a, Agreed(k, d.chars, a), a < Len(d.chars), k + a < Len(packet),
         NEW f, f = FailureAfter(d, a), NEW t, t = failure[p[a + 1]]
  PROVE  /\ t \in StateNodes /\ EndsWith(k + a, t) /\ Resolves(f, k + a) /\ Resolve(f, k + a) = t
         /\ PendingAt(k, x) => PendingAt(k + a, t)
<1>1. /\ a \in 0 .. L - 1 /\ L \in Nat /\ \A j \in 1 .. L : p[j] \in Nodes
      /\ Len(d.chars) = L - 1 /\ \A i \in 1 .. L - 1 : d.chars[i] = Last(p[i + 1])
      /\ \A i \in 1 .. L - 1 : LeadsTo(d.fails[i], failure[p[i]]) /\ Children(p[i]) = {p[i + 1]}
      /\ p[1] = x
  BY DEF Agreed, Holds, PathIs
<1>2. k \in Nat /\ init_idx <= k /\ init_idx \in Nat /\ Len(packet) \in Nat /\ BuiltTree
  BY ReadNext DEF MoreAt, Reading, StatesKnown
<1>3. /\ a + 1 \in 1 .. L - 1 /\ a + 1 \in 1 .. L /\ a \in 0 .. a
      /\ k + a \in Nat /\ init_idx <= k + a /\ k + a <= Len(packet)
      /\ (a + 1) + 1 = a + 2
  BY <1>1, <1>2
<1> DEFINE n == p[a + 1]
<1>4. n \in Nodes /\ EndsWith(k + a, n) /\ Children(n) = {p[a + 2]} /\ MoreAt(k + a)
      /\ LeadsTo(f, t)
  <2>1. EndsWith(k + a, n)
    BY <1>3, PathReads
  <2>2. LeadsTo(d.fails[a + 1], t)
    BY <1>1, <1>3
  <2> QED
    BY <1>1, <1>3, <2>1, <2>2 DEF MoreAt, FailureAfter
<1>5. t \in StateNodes /\ EndsWith(k + a, t)
  BY <1>3, <1>4, FailureEnds
<1>6. Resolves(f, k + a) /\ Resolve(f, k + a) = t
  BY <1>3, <1>4, <1>5, Resolved
<1>7. ASSUME PendingAt(k, x) PROVE PendingAt(k + a, t)
  <2>1. PendingAt(k + a, n)
    <3>1. CASE a = 0
      BY <1>1, <1>2, <1>7, <3>1
    <3>2. CASE a # 0
      <4>1. a > 0
        BY <1>1, <3>2
      <4>2. LongestAt(k + a, n)
        BY <1>3, <1>7, <4>1, PathReads
      <4>3. \A w \in Nodes : Len(w) \in Nat
        BY <1>2, NodeFacts
      <4> HIDE DEF n
      <4> QED
        BY <1>4, <4>2, <4>3 DEF PendingAt, LongestAt
    <3> QED
      BY <3>1, <3>2
  <2>2. Byte(k + a) \in Character
    BY <1>4, ReadNext DEF Reading
  <2>3. Byte(k + a) # Last(p[a + 2])
    <3>1. Byte(k + a) # d.chars[a + 1]
      BY DEF Agreed
    <3> QED
      BY <1>1, <1>3, <3>1
  <2>4. ~ HasGoto(n, Byte(k + a))
    BY <1>2, <1>4, <2>2, <2>3, GotoIsChild
  <2> HIDE DEF n
  <2> QED
    BY <1>4, <2>1, <2>4, FailureKeeps DEF n
<1> QED
  BY <1>5, <1>6, <1>7

(* What a path leads to when it was read, or the packet was.               *)
LEMMA PathEnds ==
  ASSUME Reading, BranchingRoot, NEW k, MoreAt(k), NEW x \in StateNodes, NumGotos(x) = 1,
         EndsWith(k, x), NEW p, NEW L, PathIs(x, p, L), NEW d, Holds(d, x, p, L),
         NEW a, Agreed(k, d.chars, a), ~ (a < Len(d.chars) /\ k + a < Len(packet))
  PROVE  /\ d.next \in StateNodes
         /\ k + a < Len(packet) => /\ EndsWith(k + a, d.next)
                                   /\ PendingAt(k, x) => PendingAt(k + a, d.next)
<1> DEFINE t == d.next
<1>1. /\ a \in 0 .. L - 1 /\ L \in Nat /\ L >= 2 /\ p[L] \in Nodes
      /\ Len(d.chars) = L - 1 /\ t = IF Continues(x) THEN p[L] ELSE failure[p[L]]
      /\ (IsLeaf(p[L]) <=> ~ Continues(x)) /\ (~ IsLeaf(p[L]) => p[L] \in StateNodes)
  BY DEF Agreed, Holds, PathIs
<1>2. k \in Nat /\ init_idx <= k /\ init_idx \in Nat /\ Len(packet) \in Nat /\ BuiltTree
  BY ReadNext DEF MoreAt, Reading, StatesKnown
<1>3. t = p[L] \/ (IsLeaf(p[L]) /\ t = failure[p[L]])
  BY <1>1
<1>4. t \in StateNodes
  <2>1. failure[p[L]] \in StateNodes
    BY <1>1, <1>2, TargetHasState DEF Reading, StatesKnown
  <2> QED
    BY <1>1, <2>1
<1>5. ASSUME k + a < Len(packet)
      PROVE  EndsWith(k + a, t) /\ (PendingAt(k, x) => PendingAt(k + a, t))
  <2>1. /\ a + 1 = L /\ a > 0 /\ a \in 0 .. a
        /\ k + a \in Nat /\ init_idx <= k + a /\ k + a <= Len(packet)
    BY <1>1, <1>2, <1>5
  <2>2. MoreAt(k + a)
    BY <1>5, <2>1 DEF MoreAt
  <2>3. /\ EndsWith(k + a, p[L]) /\ (PendingAt(k, x) => LongestAt(k + a, p[L]))
    <3>1. /\ EndsWith(k + a, p[a + 1]) /\ (PendingAt(k, x) => LongestAt(k + a, p[a + 1]))
      BY <2>1, PathReads
    <3> QED
      BY <2>1, <3>1
  <2>4. EndsWith(k + a, failure[p[L]])
    BY <1>1, <2>1, <2>3, FailureEnds
  <2> HIDE DEF t
  <2>5. EndsWith(k + a, t)
    BY <1>3, <2>3, <2>4
  <2> QED
    BY <1>1, <1>3, <2>2, <2>3, <2>5, KeptPending
<1> QED
  BY <1>4, <1>5

(* One step of the scan in the state of a path.                            *)
ScanTo(k, x, r, l, t, pm) ==
  LET r2 == IF pm THEN 1 ELSE r
  IN ScanAt(l, t, pm, r2) /\ (ExactAt(k, x, r) => ExactAt(l, t, r2))

LEMMA PathFollowed ==
  ASSUME Reading, BranchingRoot, NEW k, MoreAt(k), NEW x, NEW mm, NEW r, ScanAt(k, x, mm, r),
         ~ IsBranch(x), NEW d, d = data[x], NEW a, Agreed(k, d.chars, a)
  PROVE  /\ a < Len(d.chars) /\ k + a < Len(packet) =>
              /\ Resolves(FailureAfter(d, a), k + a)
              /\ ScanTo(k, x, r, k + a, Resolve(FailureAfter(d, a), k + a), MatchesBefore(d, a))
         /\ ~ (a < Len(d.chars) /\ k + a < Len(packet)) =>
              ScanTo(k, x, r, k + a, d.next, MatchesBefore(d, a))
<1> DEFINE p  == Path(x)
           L  == Len(p)
           f  == FailureAfter(d, a)
           pm == MatchesBefore(d, a)
           l  == k + a
<1>1. x \in StateNodes /\ EndsWith(k, x) /\ StatesKnown /\ BuiltTree
  BY DEF ScanAt, MoreAt, Reading, StatesKnown
<1>2. x \in Nodes /\ NumGotos(x) = 1
  BY <1>1, StateShape
<1>3. d = PathData(x)
  BY <1>1 DEF Reading, Filled, DataOf
<1>4. PathIs(x, p, L)
  BY <1>1, <1>2, PathFacts
<1>5. Holds(d, x, p, L)
  BY <1>1, <1>2, <1>3, PathHolds
<1> HIDE DEF p, L
<1>6. a \in Nat /\ l <= Len(packet) /\ k \in Nat /\ init_idx <= k /\ l \in Nat /\ k <= l
  BY DEF Agreed, Holds, MoreAt
<1>7. pm => Evidence(l)
  BY <1>1, <1>2, <1>4, <1>5, PathEvidence
<1>8. ASSUME NEW t \in StateNodes, l < Len(packet) => EndsWith(l, t),
             l < Len(packet) /\ PendingAt(k, x) => PendingAt(l, t)
      PROVE  ScanTo(k, x, r, l, t, pm)
  <2> DEFINE r2 == IF pm THEN 1 ELSE r
  <2>1. ScanAt(l, t, pm, r2)
    <3> HIDE DEF pm, l
    <3> QED
      BY <1>6, <1>7, <1>8, StepTo
  <2>2. ASSUME ExactAt(k, x, r), ~ GotoToRootInTable
        PROVE  (l < Len(packet) => PendingAt(l, t)) /\ SeenBy(l, r2)
    <3>1. PendingAt(k, x) /\ SeenBy(k, r)
      BY <2>2 DEF ExactAt, MoreAt
    <3>2. (r = 1 => r2 = 1) /\ (pm => r2 = 1)
      OBVIOUS
    <3> HIDE DEF r2
    <3>3. SeenBy(l, r2)
      BY <1>1, <1>2, <1>4, <1>5, <3>1, <3>2, PathSeen
    <3> QED
      BY <1>8, <3>1, <3>3
  <2>3. ExactAt(k, x, r) => ExactAt(l, t, r2)
    BY <2>2 DEF ExactAt
  <2> QED
    BY <2>1, <2>3 DEF ScanTo
<1>9. ASSUME a < Len(d.chars), l < Len(packet)
      PROVE  Resolves(f, l) /\ ScanTo(k, x, r, l, Resolve(f, l), pm)
  <2> DEFINE t == failure[p[a + 1]]
  <2>1. /\ t \in StateNodes /\ EndsWith(l, t) /\ Resolves(f, l) /\ Resolve(f, l) = t
        /\ PendingAt(k, x) => PendingAt(l, t)
    BY <1>1, <1>2, <1>4, <1>5, <1>9, PathFails
  <2> HIDE DEF t, l, f, pm
  <2>2. ScanTo(k, x, r, l, t, pm)
    BY <1>8, <2>1
  <2> QED
    BY <1>9, <2>1, <2>2 DEF l, f, pm
<1>10. ASSUME ~ (a < Len(d.chars) /\ l < Len(packet)) PROVE ScanTo(k, x, r, l, d.next, pm)
  <2> DEFINE t == d.next
  <2>1. /\ t \in StateNodes
        /\ l < Len(packet) => EndsWith(l, t) /\ (PendingAt(k, x) => PendingAt(l, t))
    BY <1>1, <1>2, <1>4, <1>5, <1>10, PathEnds
  <2> HIDE DEF t, l, f, pm
  <2>2. ScanTo(k, x, r, l, t, pm)
    BY <1>8, <2>1
  <2> QED
    BY <1>10, <2>2 DEF l, f, pm, t
<1> QED
  BY <1>9, <1>10

-----------------------------------------------------------------------------
(* The steps of the scan, and the others, keep what is said of it.         *)
AllPhases == BuildPhases \cup {"states", "data", "ready"} \cup ScanPhases \cup Failed

LEMMA ReadingIs ==
  ASSUME TreeInv, MarkInv, GenInv, DataInv, CScanInv, AvoidFailToLeaves, Packets \subseteq Strings,
         phase \in ScanPhases
  PROVE  /\ Reading /\ idx \in Nat /\ res \in {-1, 0, 1} /\ ScanAt(idx, s, match, res)
         /\ phase \in {"scan", "scanned"} => ExactAt(idx, s, res)
         /\ Scanning => MoreAt(idx)
<1>1. /\ phase \notin BuildPhases \cup {"states"} /\ phase \notin {"enter", "failures", "avoid"}
      /\ phase \in {"ready"} \cup ScanPhases
  BY DEF ScanPhases, BuildPhases
<1>2. BuiltTree
  BY <1>1, TreeIsBuilt
<1>3. Generated({}) /\ Filled /\ DOMAIN data = StateNodes /\ Root \in StateNodes
  BY <1>1 DEF GenInv, DataInv
<1>4. StatesKnown
  BY <1>2, <1>3 DEF StatesKnown, Generated, StateNodes
<1>5. /\ packet \in Strings /\ init_idx \in Nat /\ res \in {-1, 0, 1} /\ ScanAt(idx, s, match, res)
      /\ phase \in {"scan", "scanned"} => ExactAt(idx, s, res)
  BY DEF CScanInv
<1>6. idx \in Nat /\ init_idx <= idx
  BY <1>5 DEF ScanAt
<1>7. Scanning => MoreAt(idx)
  BY <1>6 DEF MoreAt, Scanning
<1> QED
  BY <1>3, <1>4, <1>5, <1>6, <1>7 DEF Reading

LEMMA ScanKept ==
  ASSUME MachineSame, data' = data, packet' = packet, init_idx' = init_idx, clean' = clean
  PROVE  /\ ScanAt(idx, s, match, res)' <=> ScanAt(idx', s', match', res')
         /\ ExactAt(idx, s, res)' <=> ExactAt(idx', s', res')
<1>1. /\ Nodes' = Nodes /\ StateNodes' = StateNodes /\ (BranchingRoot' <=> BranchingRoot)
      /\ gotos' = gotos /\ message' = message
  BY SameTree DEF MachineSame, TreeSame
<1>2. Patterns' = Patterns
  BY <1>1 DEF Patterns
<1>3. Evidence(idx)' <=> Evidence(idx')
  BY <1>2 DEF Evidence, EndsWith, Read
<1>4. EndsWith(idx, s)' <=> EndsWith(idx', s')
  BY DEF EndsWith, Read
<1>5. PendingAt(idx, s)' <=> PendingAt(idx', s')
  BY <1>1 DEF PendingAt, EndsWith, Read, HasGoto, Byte
<1>6. SeenBy(idx, res)' <=> SeenBy(idx', res')
  BY <1>1 DEF SeenBy, Read, Match
<1>7. GotoToRootInTable' <=> GotoToRootInTable
  BY DEF GotoToRootInTable
<1>8. ScanAt(idx, s, match, res)' <=> ScanAt(idx', s', match', res')
  BY <1>1, <1>3, <1>4 DEF ScanAt
<1>9. ExactAt(idx, s, res)' <=> ExactAt(idx', s', res')
  BY <1>1, <1>5, <1>6, <1>7 DEF ExactAt
<1> QED
  BY <1>8, <1>9

(* Before the scan there is nothing to it.                                 *)
LEMMA ScanIdle ==
  ASSUME CScanInv, UNCHANGED <<args, locals>>, phase \notin ScanPhases,
         phase' \in AllPhases, phase' \notin ScanPhases
  PROVE  CScanInv'
<1>1. s = Root /\ idx = 0 /\ res = 0 /\ packet = <<>>
  BY DEF CScanInv
<1>2. s' = Root /\ idx' = 0 /\ res' = 0 /\ packet' = <<>>
  BY <1>1 DEF args, locals
<1>3. phase' \notin {"scan", "scanned"}
  BY DEF ScanPhases
<1> QED
  BY <1>2, <1>3 DEF CScanInv, AllPhases

(* A step of the scan that leads to where the scan may be.                 *)
LEMMA ScanGoes ==
  ASSUME CScanInv, phase \in ScanPhases, MachineSame, data' = data,
         packet' = packet, init_idx' = init_idx, clean' = clean,
         phase' \in ScanPhases, res' \in {-1, 0, 1},
         ScanAt(idx', s', match', res'), ExactAt(idx', s', res') \/ phase' = "dropped",
         phase' = "scanned" => Len(packet) <= idx'
  PROVE  CScanInv'
<1>1. packet' \in Packets /\ init_idx' \in 0 .. 1
  BY DEF CScanInv
<1>2. ScanAt(idx, s, match, res)'
  BY ScanKept
<1>3. phase' \in {"scan", "scanned"} => ExactAt(idx, s, res)'
  BY ScanKept
<1>4. phase' \in BuildPhases \cup {"states", "data", "ready"} \cup ScanPhases \cup Failed
  OBVIOUS
<1> QED
  BY <1>1, <1>2, <1>3, <1>4 DEF CScanInv

(* A step within the scan of which only the state is said.                 *)
LEMMA AdvanceGoes ==
  ASSUME CScanInv, phase = "scan", MachineSame, data' = data,
         packet' = packet, init_idx' = init_idx, clean' = clean, phase' = phase,
         res \in {-1, 0, 1}, NEW n, NEW i, NEW m, NEW r, r = (IF m THEN 1 ELSE res),
         s' = n, idx' = i, match' = m, res' = r,
         ScanAt(i, n, m, r), ExactAt(i, n, r)
  PROVE  CScanInv'
<1>1. phase' \in ScanPhases /\ phase' # "scanned" /\ phase \in ScanPhases
  BY DEF ScanPhases
<1>2. res' \in {-1, 0, 1}
  OBVIOUS
<1>3. ScanAt(idx', s', match', res') /\ ExactAt(idx', s', res')
  OBVIOUS
<1> QED
  BY <1>1, <1>2, <1>3, ScanGoes

LEMMA NothingRead ==
  ASSUME NEW S, NEW p \in Seq(S), NEW b \in Nat
  PROVE  SubSeq(p, b + 1, b) = <<>> /\ b + 2 .. b = {}
<1>1. ~ (b + 1 <= b)
  OBVIOUS
<1>2. \A i \in 1 .. 0 : FALSE
  OBVIOUS
<1>3. SubSeq(p, b + 1, b) = <<>>
  BY <1>1, <1>2
<1> QED
  BY <1>3

LEMMA StartScanKeeps ==
  ASSUME TreeInv, MarkInv, GenInv, DataInv, CScanInv, AvoidFailToLeaves, Packets \subseteq Strings,
         StartScan
  PROVE  CScanInv'
<1>1. /\ phase = "ready" /\ phase' = "scan" /\ packet' \in Packets /\ init_idx' \in 0 .. 1
      /\ idx' = init_idx' /\ match' \in BOOLEAN /\ clean' = ~ match' /\ s' = s /\ res' = res
      /\ gotos' = gotos /\ message' = message /\ failure' = failure /\ hasFailInto' = hasFailInto
  BY DEF StartScan, tree
<1>2. Root \in StateNodes /\ s = Root /\ res = 0
  <2>1. phase \notin ScanPhases /\ phase \in {"ready"} \cup ScanPhases
    BY <1>1 DEF ScanPhases
  <2> QED
    BY <2>1 DEF DataInv, CScanInv
<1>3. s' = Root /\ res' = 0 /\ res' # 1 /\ res' \in {-1, 0, 1}
  BY <1>1, <1>2
<1>4. /\ Nodes' = Nodes /\ StateNodes' = StateNodes /\ (BranchingRoot' <=> BranchingRoot)
  BY <1>1, SameTree
<1>5. Root \in Nodes /\ Len(Root) = 0 /\ \A m \in Nodes : m \in Strings /\ Len(m) \in Nat
  <2>1. phase \notin {"enter", "failures", "avoid"}
    BY <1>1
  <2> QED
    BY <2>1, TreeIsBuilt, NodeFacts
<1>6. packet' \in Strings /\ init_idx' \in Nat /\ Len(packet') \in Nat
  BY <1>1 DEF Strings
<1>7. SubSeq(packet', init_idx' + 1, idx') = <<>>
  BY <1>1, <1>6, NothingRead DEF Strings
<1>8. \A m \in Nodes : EndsWith(idx, m)' <=> IsSuffix(m, <<>>)
  BY <1>7 DEF EndsWith, Read
<1>9. \A m \in Nodes : IsSuffix(m, <<>>) => ~ (Len(m) > Len(Root))
  <2> TAKE m \in Nodes
  <2>1. m \in Strings /\ Len(m) \in Nat /\ <<>> \in Strings /\ Len(<<>>) = 0 /\ Len(Root) = 0
    BY <1>5 DEF Strings
  <2>2. IsSuffix(m, <<>>) => Len(m) <= 0
    BY <2>1, SuffixMeans
  <2> QED
    BY <2>1, <2>2
<1>10. IsSuffix(Root, <<>>)
  BY <1>6, SuffixSelf DEF Root
<1>11. EndsWith(idx, s)'
  <2>1. EndsWith(idx, s)' <=> IsSuffix(s', <<>>)
    BY <1>7 DEF EndsWith, Read
  <2> QED
    BY <1>3, <1>10, <2>1
<1>12. ScanAt(idx, s, match, res)'
  <2>1. ~ (clean' /\ (match' \/ res' = 1))
    BY <1>1, <1>3
  <2>2. idx' \in Nat /\ init_idx' <= idx'
    BY <1>1, <1>6
  <2> QED
    BY <1>1, <1>2, <1>3, <1>4, <1>11, <2>1, <2>2 DEF ScanAt
<1>13. PendingAt(idx, s)'
  BY <1>3, <1>4, <1>8, <1>9 DEF PendingAt
<1>14. SeenBy(idx, res)'
  <2>1. init_idx' + 2 .. idx' = {}
    BY <1>1, <1>6, NothingRead DEF Strings
  <2> QED
    BY <2>1 DEF SeenBy
<1>15. ExactAt(idx, s, res)'
  BY <1>13, <1>14 DEF ExactAt
<1>16. phase' \in ScanPhases /\ phase' # "scanned"
  BY <1>1 DEF ScanPhases
<1> QED
  BY <1>1, <1>3, <1>12, <1>15, <1>16 DEF CScanInv

(* What the steps of the scan leave alone.                                 *)
LEMMA ScanLeaves ==
  ASSUME UNCHANGED <<file, count, tree, queue, machine, args>>
  PROVE  /\ MachineSame /\ data' = data /\ packet' = packet /\ init_idx' = init_idx
BY DEF machine, args, tree, MachineSame, TreeSame

LEMMA RootByteKeeps ==
  ASSUME Reading, CScanInv, MoreAt(idx), RootByte, res \in {-1, 0, 1},
         ScanAt(idx, s, match, res), ExactAt(idx, s, res)
  PROVE  CScanInv'
<1> DEFINE t == LeaveRoot(Byte(idx))
           r == IF match THEN 1 ELSE res
<1>1. /\ phase = "scan" /\ phase' = phase /\ s = Root /\ s' = t /\ idx' = idx + 1 /\ res' = r
      /\ match' = match /\ clean' = clean /\ UNCHANGED <<file, count, tree, queue, machine, args>>
  BY DEF RootByte, Scanning, AfterRoot, LeaveRoot, treeVars
<1>2. ScanAt(idx + 1, t, match, r) /\ ExactAt(idx + 1, t, r)
  BY <1>1, RootStep
<1>3. MachineSame /\ data' = data /\ packet' = packet /\ init_idx' = init_idx
  BY <1>1, ScanLeaves
<1> HIDE DEF t
<1> QED
  BY <1>1, <1>2, <1>3, AdvanceGoes

LEMMA DropKeeps ==
  ASSUME CScanInv, DropPacket, ScanAt(idx, s, match, res)
  PROVE  CScanInv'
<1>1. /\ phase = "scan" /\ phase' = "dropped" /\ s' = s /\ idx' = idx /\ res' = -1
      /\ match' = match /\ clean' = clean /\ UNCHANGED <<file, count, tree, queue, machine, args>>
  BY DEF DropPacket, Scanning
<1>2. MachineSame /\ data' = data /\ packet' = packet /\ init_idx' = init_idx
  BY <1>1, ScanLeaves
<1>3. ScanAt(idx', s', match', res')
  <2>1. ScanAt(idx, s, match, -1)
    BY DEF ScanAt
  <2> QED
    BY <1>1, <2>1 DEF ScanAt
<1>4. phase \in ScanPhases /\ phase' \in ScanPhases /\ phase' # "scanned"
  BY <1>1 DEF ScanPhases
<1>5. res' \in {-1, 0, 1}
  BY <1>1
<1> QED
  BY <1>1, <1>2, <1>3, <1>4, <1>5, ScanGoes

LEMMA EndKeeps ==
  ASSUME CScanInv, EndOfPacket, res \in {-1, 0, 1},
         ScanAt(idx, s, match, res), ExactAt(idx, s, res), idx \in Nat, packet \in Strings
  PROVE  CScanInv'
<1>1. /\ phase = "scan" /\ phase' = "scanned" /\ s' = s /\ idx' = idx /\ res' = res
      /\ match' = match /\ clean' = clean /\ UNCHANGED <<file, count, tree, queue, machine, args>>
      /\ idx >= Len(packet)
  BY DEF EndOfPacket, locals
<1>2. MachineSame /\ data' = data /\ packet' = packet /\ init_idx' = init_idx
  BY <1>1, ScanLeaves
<1>3. ScanAt(idx', s', match', res') /\ ExactAt(idx', s', res')
  BY <1>1
<1>4. phase \in ScanPhases /\ phase' \in ScanPhases /\ res' \in {-1, 0, 1}
  BY <1>1 DEF ScanPhases
<1>5. Len(packet) <= idx'
  <2>1. Len(packet) \in Nat
    BY DEF Strings
  <2> QED
    BY <1>1, <2>1
<1> QED
  BY <1>1, <1>2, <1>3, <1>4, <1>5, ScanGoes

LEMMA BranchByteKeeps ==
  ASSUME Reading, CScanInv, MoreAt(idx), BranchByte, res \in {-1, 0, 1},
         ScanAt(idx, s, match, res), ExactAt(idx, s, res)
  PROVE  CScanInv'
<1>1. /\ phase = "scan" /\ s # Root /\ IsBranch(s) /\ clean' = clean
      /\ UNCHANGED <<file, count, tree, queue, machine, args>>
  BY DEF BranchByte, Scanning
<1>2. MachineSame /\ data' = data /\ packet' = packet /\ init_idx' = init_idx
  BY <1>1, ScanLeaves
<1>3. BranchingRoot
  BY <1>1 DEF ScanAt
<1>4. CASE FoundGoto(data[s], Byte(idx))
  <2> DEFINE p == data[s].gotos[Byte(idx)]
             m == p.match
             n == Resolve(p, idx + 1)
             r == IF m THEN 1 ELSE res
  <2>1. Take(p, idx + 1, m)
    BY <1>4 DEF BranchByte
  <2>2. Resolves(p, idx + 1) /\ ScanAt(idx + 1, n, m, r) /\ ExactAt(idx + 1, n, r)
    BY <1>1, <1>3, <1>4, GotoStep
  <2> HIDE DEF n, m, p
  <2>3. Advance(n, idx + 1, m)
    BY <2>1, <2>2 DEF Take, n
  <2>4. s' = n /\ idx' = idx + 1 /\ match' = m /\ res' = r /\ phase' = phase
    BY <2>3 DEF Advance
  <2> QED
    BY <1>1, <1>2, <2>2, <2>4, AdvanceGoes
<1>5. CASE ~ FoundGoto(data[s], Byte(idx))
  <2> DEFINE n == data[s].fail
  <2>1. Advance(n, idx, FALSE)
    BY <1>5 DEF BranchByte
  <2>2. ScanAt(idx, n, FALSE, res) /\ ExactAt(idx, n, res)
    BY <1>1, <1>3, <1>5, FailStepRight
  <2> HIDE DEF n
  <2>3. s' = n /\ idx' = idx /\ match' = FALSE /\ res' = res /\ phase' = phase
    BY <2>1 DEF Advance
  <2>4. phase' \in ScanPhases /\ phase' # "scanned" /\ phase \in ScanPhases
    BY <1>1, <2>3 DEF ScanPhases
  <2>5. ScanAt(idx', s', match', res') /\ ExactAt(idx', s', res')
    BY <2>2, <2>3
  <2>6. res' \in {-1, 0, 1}
    BY <2>3
  <2> QED
    BY <1>1, <1>2, <2>4, <2>5, <2>6, ScanGoes
<1> QED
  BY <1>4, <1>5

LEMMA PathBytesKeeps ==
  ASSUME Reading, CScanInv, MoreAt(idx), PathBytes, res \in {-1, 0, 1},
         ScanAt(idx, s, match, res), ExactAt(idx, s, res)
  PROVE  CScanInv'
<1> DEFINE d == data[s]
           a == Agreement(d.chars)
           m == MatchesBefore(d, a)
           f == FailureAfter(d, a)
           k == idx + a
           r == IF m THEN 1 ELSE res
<1>1. /\ phase = "scan" /\ s # Root /\ ~ IsBranch(s) /\ clean' = clean
      /\ UNCHANGED <<file, count, tree, queue, machine, args>>
  BY DEF PathBytes, Scanning
<1>2. MachineSame /\ data' = data /\ packet' = packet /\ init_idx' = init_idx
  BY <1>1, ScanLeaves
<1>3. BranchingRoot
  BY <1>1 DEF ScanAt
<1>4. Agreed(idx, d.chars, a)
  <2>1. Len(packet) \in Nat /\ idx \in Nat /\ idx <= Len(packet)
    BY ReadNext DEF MoreAt, Reading
  <2>2. Len(d.chars) \in Nat
    <3>1. s \in StateNodes /\ BuiltTree
      BY DEF ScanAt, Reading, StatesKnown
    <3>2. d = PathData(s)
      BY <1>1, <3>1 DEF Reading, Filled, DataOf
    <3>3. NumGotos(s) = 1
      BY <1>1, <3>1, StateShape
    <3>4. Holds(d, s, Path(s), Len(Path(s)))
      BY <3>1, <3>2, <3>3, PathHolds
    <3> QED
      BY <3>4 DEF Holds
  <2> QED
    BY <2>1, <2>2, AgreementMeans
<1>5. IF a < Len(d.chars) /\ k < Len(packet) THEN Take(f, k, m) ELSE Advance(d.next, k, m)
  BY DEF PathBytes
<1> HIDE DEF d, a
<1>6. /\ a < Len(d.chars) /\ k < Len(packet) =>
           Resolves(f, k) /\ ScanTo(idx, s, res, k, Resolve(f, k), m)
      /\ ~ (a < Len(d.chars) /\ k < Len(packet)) => ScanTo(idx, s, res, k, d.next, m)
  BY <1>1, <1>3, <1>4, PathFollowed DEF d
<1> HIDE DEF m, f, k
<1>7. PICK n : Advance(n, k, m) /\ ScanTo(idx, s, res, k, n, m)
  <2>1. CASE a < Len(d.chars) /\ k < Len(packet)
    BY <1>5, <1>6, <2>1 DEF Take
  <2>2. CASE ~ (a < Len(d.chars) /\ k < Len(packet))
    BY <1>5, <1>6, <2>2
  <2> QED
    BY <2>1, <2>2
<1>8. ScanAt(k, n, m, r) /\ ExactAt(k, n, r)
  BY <1>7 DEF ScanTo
<1>9. s' = n /\ idx' = k /\ match' = m /\ res' = r /\ phase' = phase
  BY <1>7 DEF Advance
<1> QED
  BY <1>1, <1>2, <1>8, <1>9, AdvanceGoes

(* No step of the program leaves the invariant.                            *)
LEMMA ScanStays ==
  ASSUME TreeInv, MarkInv, GenInv, DataInv, CScanInv, AvoidFailToLeaves, Packets \subseteq Strings,
         Next
  PROVE  CScanInv'
<1>1. CASE Build
  <2>1. phase \in BuildPhases /\ phase' \in BuildPhases /\ UNCHANGED <<args, locals>>
    BY <1>1, BuildKeeps
  <2>2. BuildPhases \cap ScanPhases = {} /\ BuildPhases \subseteq AllPhases
    BY DEF BuildPhases, ScanPhases, AllPhases
  <2> QED
    BY <2>1, <2>2, ScanIdle
<1>2. CASE StartStates
  <2>1. phase = "built" /\ phase' = "states" /\ UNCHANGED <<args, locals>>
    BY <1>2 DEF StartStates
  <2>2. phase \notin ScanPhases /\ phase' \in AllPhases /\ phase' \notin ScanPhases
    BY <2>1 DEF ScanPhases, AllPhases
  <2> QED
    BY <2>1, <2>2, ScanIdle
<1>3. CASE GenerateState
  <2>1. phase = "states" /\ phase' = "states" /\ UNCHANGED <<args, locals>>
    BY <1>3 DEF GenerateState
  <2>2. phase \notin ScanPhases /\ phase' \in AllPhases /\ phase' \notin ScanPhases
    BY <2>1 DEF ScanPhases, AllPhases
  <2> QED
    BY <2>1, <2>2, ScanIdle
<1>4. CASE StatesDone
  <2>1. phase = "states" /\ phase' = "data" /\ UNCHANGED <<args, locals>>
    BY <1>4 DEF StatesDone
  <2>2. phase \notin ScanPhases /\ phase' \in AllPhases /\ phase' \notin ScanPhases
    BY <2>1 DEF ScanPhases, AllPhases
  <2> QED
    BY <2>1, <2>2, ScanIdle
<1>5. CASE SetData
  <2>1. phase = "data" /\ phase' \in {"data"} \cup Failed /\ UNCHANGED <<args, locals>>
    BY <1>5 DEF SetData, Failed
  <2>2. phase \notin ScanPhases /\ phase' \in AllPhases /\ phase' \notin ScanPhases
    BY <2>1 DEF ScanPhases, AllPhases, Failed
  <2> QED
    BY <2>1, <2>2, ScanIdle
<1>6. CASE MachineReady
  <2>1. phase = "data" /\ phase' = "ready" /\ UNCHANGED <<args, locals>>
    BY <1>6 DEF MachineReady
  <2>2. phase \notin ScanPhases /\ phase' \in AllPhases /\ phase' \notin ScanPhases
    BY <2>1 DEF ScanPhases, AllPhases
  <2> QED
    BY <2>1, <2>2, ScanIdle
<1>7. CASE StartScan
  BY <1>7, StartScanKeeps
<1>8. ASSUME phase = "scan"
      PROVE  /\ Reading /\ idx \in Nat /\ res \in {-1, 0, 1} /\ ScanAt(idx, s, match, res)
             /\ ExactAt(idx, s, res) /\ packet \in Strings
             /\ Scanning => MoreAt(idx)
  <2>1. phase \in ScanPhases /\ phase \in {"scan", "scanned"}
    BY <1>8 DEF ScanPhases
  <2> QED
    BY <2>1, ReadingIs DEF Reading
<1>9. CASE RootByte
  <2>1. Scanning
    BY <1>9 DEF RootByte
  <2> QED
    BY <1>8, <1>9, <2>1, RootByteKeeps DEF Scanning
<1>10. CASE DropPacket
  <2>1. Scanning
    BY <1>10 DEF DropPacket
  <2> QED
    BY <1>8, <1>10, <2>1, DropKeeps DEF Scanning
<1>11. CASE BranchByte
  <2>1. Scanning
    BY <1>11 DEF BranchByte
  <2> QED
    BY <1>8, <1>11, <2>1, BranchByteKeeps DEF Scanning
<1>12. CASE PathBytes
  <2>1. Scanning
    BY <1>12 DEF PathBytes
  <2> QED
    BY <1>8, <1>12, <2>1, PathBytesKeeps DEF Scanning
<1>13. CASE EndOfPacket
  <2>1. phase = "scan"
    BY <1>13 DEF EndOfPacket
  <2> QED
    BY <1>8, <1>13, <2>1, EndKeeps
<1> QED
  BY <1>1, <1>2, <1>3, <1>4, <1>5, <1>6, <1>7, <1>9, <1>10, <1>11, <1>12, <1>13
  DEF Next, ScanStep

LEMMA ScanUnchanged ==
  ASSUME CScanInv, UNCHANGED vars
  PROVE  CScanInv'
<1>1. /\ UNCHANGED <<args, locals>> /\ UNCHANGED <<file, count, tree, queue, machine, args>>
      /\ phase' = phase
  BY DEF vars, treeVars
<1>2. MachineSame /\ data' = data /\ packet' = packet /\ init_idx' = init_idx
  BY <1>1, ScanLeaves
<1>3. s' = s /\ idx' = idx /\ res' = res /\ match' = match /\ clean' = clean
  BY <1>1 DEF locals
<1>4. CASE phase \in ScanPhases
  <2>1. ScanAt(idx, s, match, res)' <=> ScanAt(idx, s, match, res)
    BY <1>2, <1>3, ScanKept
  <2>2. ExactAt(idx, s, res)' <=> ExactAt(idx, s, res)
    BY <1>2, <1>3, ScanKept
  <2> QED
    BY <1>1, <1>2, <1>3, <2>1, <2>2 DEF CScanInv
<1>5. CASE phase \notin ScanPhases
  <2>1. phase' \in AllPhases /\ phase' \notin ScanPhases
    BY <1>1, <1>5 DEF CScanInv, AllPhases
  <2> QED
    BY <1>1, <1>5, <2>1, ScanIdle
<1> QED
  BY <1>4, <1>5

-----------------------------------------------------------------------------
(* What the invariant says of the machine, and of the scan's answer.       *)
LEMMA CompressedTyped ==
  ASSUME CompressedInv, AvoidFailToLeaves, Packets \subseteq Strings
  PROVE  TypeOK
<1> USE DEF CompressedInv
<1>1. TreeTypeOK
  BY TreeTyped
<1>2. CASE phase \in BuildPhases
  <2>1. id = <<>> /\ room = <<>> /\ data = <<>> /\ phase \notin ScanPhases /\ phase # "scan"
    BY <1>2 DEF GenInv, DataInv, BuildPhases, ScanPhases
  <2>2. s = Root /\ idx = 0 /\ res = 0 /\ packet = <<>>
    BY <2>1 DEF CScanInv
  <2>3. Root \in Nodes
    BY DEF TreeInv, TrieInv, TrieShape, Root
  <2>4. Len(packet) = 0 /\ idx \in 0 .. Len(packet) + 1 /\ res \in {-1, 0, 1}
    BY <2>2
  <2>5. DOMAIN id = {} /\ DOMAIN room = {} /\ DOMAIN data = {}
    BY <2>1
  <2> QED
    BY <1>1, <1>2, <2>1, <2>2, <2>3, <2>4, <2>5 DEF TypeOK, BuildPhases, Range
<1>3. CASE phase \notin BuildPhases
  <2> DEFINE W == IF phase = "states" THEN Waiting ELSE {}
  <2>1. Generated(W) /\ BuiltTree
    <3>1. phase \notin {"enter", "failures", "avoid"}
      BY <1>3 DEF BuildPhases
    <3>2. Generated(W)
      BY <1>3 DEF GenInv
    <3> QED
      BY <3>1, <3>2, TreeIsBuilt
  <2> HIDE DEF W
  <2>2. /\ id \in [Nodes -> {"none", "child", "path", "state"}]
        /\ DOMAIN room = {n \in Nodes : HasState(n)} /\ \A n \in DOMAIN room : room[n] = RoomFor(n)
        /\ \A n \in W : id[n] \in {"none", "child"}
        /\ \A n \in Nodes \ W : HasState(n) <=> n \in StateNodes
    BY <2>1 DEF Generated
  <2>3. \A n \in DOMAIN room : n \in StateNodes
    BY <2>2 DEF HasState
  <2>4. \A n \in DOMAIN room : room[n] \in Nat
    BY <2>1, <2>2, <2>3, RoomIsNat
  <2>5. DOMAIN id \subseteq Nodes /\ Range(id) \subseteq {"none", "child", "path", "state"}
        /\ DOMAIN room \subseteq Nodes /\ Range(room) \subseteq Nat
    BY <2>2, <2>4 DEF Range
  <2>6. DOMAIN data \subseteq DOMAIN room
    <3>1. CASE phase = "states"
      <4>1. data = <<>>
        BY <3>1 DEF DataInv
      <4> QED
        BY <4>1
    <3>2. CASE phase # "states"
      <4>1. W = {} /\ DOMAIN data \subseteq StateNodes
        BY <1>3, <3>2 DEF DataInv, Filled, W
      <4> QED
        BY <2>2, <4>1 DEF StateNodes
    <3> QED
      BY <3>1, <3>2
  <2>7. /\ s \in Nodes /\ idx \in 0 .. Len(packet) + 1 /\ res \in {-1, 0, 1}
        /\ phase = "scan" => s \in DOMAIN data
    <3>1. CASE phase \in ScanPhases
      <4>1. /\ packet \in Packets /\ init_idx \in 0 .. 1 /\ res \in {-1, 0, 1} /\ s \in StateNodes
            /\ idx \in Nat /\ init_idx <= idx /\ (idx <= Len(packet) \/ idx = init_idx)
        BY <3>1 DEF CScanInv, ScanAt
      <4>2. DOMAIN data = StateNodes
        BY <3>1 DEF DataInv
      <4>3. Len(packet) \in Nat
        BY <4>1 DEF Strings
      <4>4. idx \in 0 .. Len(packet) + 1
        BY <4>1, <4>3
      <4> QED
        BY <4>1, <4>2, <4>4 DEF StateNodes
    <3>2. CASE phase \notin ScanPhases
      <4>1. s = Root /\ idx = 0 /\ res = 0 /\ packet = <<>> /\ phase # "scan"
        BY <3>2 DEF CScanInv, ScanPhases
      <4>2. Root \in Nodes /\ Len(packet) = 0
        BY <2>1, <4>1, NodeFacts
      <4> QED
        BY <4>1, <4>2
    <3> QED
      BY <3>1, <3>2
  <2>8. phase \in BuildPhases \cup {"states", "data", "ready"} \cup ScanPhases \cup Failed
    BY DEF CScanInv
  <2> QED
    BY <1>1, <2>5, <2>6, <2>7, <2>8 DEF TypeOK, BuildPhases, ScanPhases
<1> QED
  BY <1>2, <1>3

LEMMA LookupsKnown ==
  ASSUME CompressedInv, AvoidFailToLeaves
  PROVE  GenerationSucceeds /\ LookupsSucceed
<1> USE DEF CompressedInv
<1>1. GenerationSucceeds
  BY DEF GenerationSucceeds, DataInv
<1>2. phase # "lookup_miss"
  BY DEF CScanInv, BuildPhases, ScanPhases, Failed
<1>3. ASSUME phase = "ready", BranchingRoot, NEW n \in DOMAIN data
      PROVE  /\ Len(n) = 1 => n \in Range(firstLevelLookup)
             /\ Len(n) = 2 => n \in Range(secondLevelLookup)
  <2>1. BuiltTree /\ Generated({}) /\ Filled /\ n \in StateNodes
    <3>1. phase \notin BuildPhases \cup {"states"} /\ phase \notin {"enter", "failures", "avoid"}
      BY <1>3 DEF BuildPhases
    <3> QED
      BY <1>3, <3>1, TreeIsBuilt DEF GenInv, DataInv, Filled
  <2>2. PtrType(n) = IF Len(n) = 1 THEN "level1" ELSE IF Len(n) = 2 THEN "level2" ELSE "regular"
    BY <1>3, <2>1, Levels
  <2>3. ASSUME Len(n) = 1 PROVE n \in Range(firstLevelLookup)
    <3>1. n \in firstLevelNodes
      BY <2>2, <2>3 DEF PtrType
    <3>2. n = <<n[1]>>
      <4>1. n \in Seq(Character)
        BY <2>1, StateShape DEF Strings
      <4> QED
        BY <2>3, <4>1
    <3>3. n[1] \in DOMAIN firstLevelLookup /\ firstLevelLookup[n[1]] = <<n[1]>>
      BY <1>3, <2>1, <3>1 DEF Filled
    <3> QED
      BY <3>2, <3>3 DEF Range
  <2>4. ASSUME Len(n) = 2 PROVE n \in Range(secondLevelLookup)
    <3>1. n \in secondLevelNodes
      BY <2>2, <2>4 DEF PtrType
    <3>2. n \in DOMAIN secondLevelLookup /\ secondLevelLookup[n] = n
      BY <1>3, <2>1, <3>1 DEF Filled
    <3> QED
      BY <3>2 DEF Range
  <2> QED
    BY <2>3, <2>4
<1> QED
  BY <1>1, <1>2, <1>3 DEF LookupsSucceed

LEMMA ScanAnswers ==
  ASSUME CompressedInv, AvoidFailToLeaves, Packets \subseteq Strings
  PROVE  ScanIsExact
<1> USE DEF CompressedInv
<1>1. ASSUME BranchingRoot, ~ GotoToRootInTable, Scanning
      PROVE  EndsWith(idx, s) /\ PendingAt(idx, s)
  <2>1. phase \in ScanPhases /\ phase \in {"scan", "scanned"} /\ idx < Len(packet)
    BY <1>1 DEF Scanning, ScanPhases
  <2> QED
    BY <1>1, <2>1, ReadingIs DEF ScanAt, ExactAt
<1>2. NothingPendingIsLost
  BY <1>1 DEF NothingPendingIsLost, PendingAt
<1>3. ASSUME phase = "scanned" PROVE ScanIsRight
  <2>1. /\ Reading /\ idx \in Nat /\ ScanAt(idx, s, match, res) /\ ExactAt(idx, s, res)
        /\ Len(packet) <= idx
    <3>1. phase \in ScanPhases /\ phase \in {"scan", "scanned"}
      BY <1>3 DEF ScanPhases
    <3> QED
      BY <1>3, <3>1, ReadingIs DEF CScanInv
  <2>2. Len(packet) \in Nat /\ init_idx \in Nat
    BY <2>1 DEF Reading, Strings
  <2>3. ASSUME BranchingRoot, ~ GotoToRootInTable, NEW k \in init_idx + 2 .. Len(packet)
        PROVE  LET n == LongestSuffixIn(Read(k), Nodes) IN Len(n) > 1 /\ Match(n) => res = 1
    <3>1. k \in init_idx + 2 .. idx
      BY <2>1, <2>2
    <3> QED
      BY <2>1, <2>3, <3>1 DEF ExactAt, SeenBy
  <2>4. ASSUME clean, res = 1
        PROVE  \E k \in init_idx + 1 .. Len(packet) : \E p \in Patterns : EndsWith(k, p)
    <3>1. PICK k \in init_idx + 1 .. idx : \E p \in Patterns : EndsWith(k, p)
      BY <2>1, <2>4 DEF ScanAt, Evidence
    <3>2. idx <= Len(packet) \/ idx = init_idx
      BY <2>1 DEF ScanAt
    <3>3. k \in init_idx + 1 .. Len(packet)
      BY <2>1, <2>2, <3>2
    <3> QED
      BY <3>1, <3>3
  <2> QED
    BY <2>3, <2>4 DEF ScanIsRight
<1>4. ScanIsRight
  BY <1>3 DEF ScanIsRight
<1> QED
  BY <1>2, <1>4 DEF ScanIsExact

LEMMA CompressedStarts ==
  ASSUME Init
  PROVE  CompressedInv
<1>1. TreeInv /\ MarkInv
  BY TreeStarts, MarkStarts, TreeAssumption DEF Init
<1>2. phase = "enter" /\ id = <<>> /\ room = <<>> /\ firstLevelNodes = {} /\ secondLevelNodes = {}
      /\ data = <<>> /\ firstLevelLookup = <<>> /\ secondLevelLookup = <<>>
      /\ s = Root /\ idx = 0 /\ res = 0 /\ packet = <<>>
  BY DEF Init, TreeInit
<1>3. GenInv /\ DataInv /\ CScanInv
  BY <1>2 DEF GenInv, DataInv, CScanInv, BuildPhases, ScanPhases, Failed
<1> QED
  BY <1>1, <1>3 DEF CompressedInv

LEMMA CompressedAlwaysInv ==
  ASSUME CompressedInputs
  PROVE  Spec => []CompressedInv
<1>1. Init => CompressedInv
  BY CompressedStarts
<1>2. CompressedInv /\ [Next]_vars => CompressedInv'
  <2> SUFFICES ASSUME CompressedInv, [Next]_vars PROVE CompressedInv'
    OBVIOUS
  <2>1. CASE Next
    BY <2>1, TreeStays, GenStays, DataStays, ScanStays DEF CompressedInv, CompressedInputs
  <2>2. CASE UNCHANGED vars
    <3>1. UNCHANGED treeVars
      BY <2>2 DEF vars
    <3> QED
      BY <2>2, <3>1, TreeUnchanged, MarkUnchanged, GenUnchanged, DataUnchanged, ScanUnchanged
      DEF CompressedInv
  <2> QED
    BY <2>1, <2>2
<1> QED
  BY <1>1, <1>2, PTL DEF Spec

(* generateStates and setStatesData, whatever the patterns and the limits  *)
(* of the encodings: every node that is failed into is marked, and if the  *)
(* patterns begin with two characters at least, the two passes agree on    *)
(* the states, their memory and their levels, and every pointer to the     *)
(* first two levels finds what it is looked up by.                         *)
THEOREM MachineAlwaysComplete ==
  ASSUME CompressedInputs
  PROVE  Spec => []MachineIsComplete
<1>1. CompressedInv => MachineIsComplete
  BY CompressedTyped, LookupsKnown, FailuresMarked DEF CompressedInv, MachineIsComplete, CompressedInputs
<1> QED
  BY <1>1, CompressedAlwaysInv, PTL

(* matchIterative, whatever the packet and wherever it begins: it reports  *)
(* no match that the packet does not hold; and if the patterns begin with  *)
(* two characters at least and no lookup table takes a goto to the root    *)
(* for none, it loses no node that could go on and misses no match of two  *)
(* characters or more.                                                     *)
THEOREM ScanAlwaysExact ==
  ASSUME CompressedInputs
  PROVE  Spec => []ScanIsExact
<1>1. CompressedInv => ScanIsExact
  BY ScanAnswers DEF CompressedInputs
<1> QED
  BY <1>1, CompressedAlwaysInv, PTL
================================================================================
