------------------------------- MODULE SumProofs -------------------------------
(***************************************************************************)
(* Induction on the natural numbers, and what follows from it for the sums *)
(* that the specifications form with SumFunctionOnSet.                     *)
(*                                                                         *)
(* The induction theorems of the library take a predicate; the lemma       *)
(* Induction below takes the set of the numbers that satisfy it, so that   *)
(* it can be cited with SMT and Zenon.                                     *)
(***************************************************************************)
EXTENDS Integers, FiniteSets, FiniteSetsExt, Functions, FiniteSetTheorems,
        WellFoundedInduction, TLAPS

(* Every non-empty set of natural numbers has a least element.             *)
LEMMA LeastElement ==
  ASSUME NEW T \in SUBSET Nat, T # {}
  PROVE  \E x \in T : \A y \in T : x <= y
<1>1. IsWellFoundedOn(OpToRel(<, Nat), Nat)
  BY NatLessThanWellFounded
<1> DEFINE R == OpToRel(<, Nat)
<1>2. \A x, y \in Nat : x < y => <<x, y>> \in R
  BY DEF OpToRel
<1> HIDE DEF R
<1>3. IsWellFoundedOn(R, Nat)
  BY <1>1 DEF R
<1>4. PICK x \in T : \A y \in T : ~ (<<y, x>> \in R)
  BY <1>3, WFMin
<1>5. \A y \in T : ~ (y < x)
  BY <1>2, <1>4
<1>6. \A y \in T : x <= y
  BY <1>5
<1> QED
  BY <1>6

(* Induction: a set with 0 and the successor of each of its numbers has    *)
(* every natural number.                                                   *)
LEMMA Induction ==
  ASSUME NEW S, 0 \in S, \A n \in Nat : n \in S => n + 1 \in S
  PROVE  \A n \in Nat : n \in S
<1> SUFFICES ASSUME Nat \ S # {} PROVE FALSE
  OBVIOUS
<1>1. PICK x \in Nat \ S : \A y \in Nat \ S : x <= y
  BY LeastElement
<1>2. x - 1 \in Nat /\ x - 1 \in S
  BY <1>1
<1> QED
  BY <1>1, <1>2

-----------------------------------------------------------------------------
(* The function that SumFunctionOnSet(g, S) defines by recursion.          *)
Pick(s) == CHOOSE x \in s : TRUE

SumsOf(it, g, S) ==
  it = [s \in SUBSET S |-> IF s = {} THEN 0 ELSE g[Pick(s)] + it[s \ {Pick(s)}]]

LEMMA SumIsRecursive ==
  ASSUME NEW g, NEW S
  PROVE  SumFunctionOnSet(g, S) = (CHOOSE it : SumsOf(it, g, S))[S]
  BY DEF SumFunctionOnSet, FoldFunctionOnSet, MapThenFoldSet, SumsOf, Pick

LEMMA PickIn == ASSUME NEW s, s # {} PROVE Pick(s) \in s
  BY DEF Pick

(* Induction on the size of the subsets of a finite set.                   *)
LEMMA SubsetsBySize ==
  ASSUME NEW S, IsFiniteSet(S), NEW Q,
         {} \in Q,
         \A s \in SUBSET S : s # {} /\ (\A x \in s : s \ {x} \in Q) => s \in Q
  PROVE  \A s \in SUBSET S : s \in Q
<1> DEFINE P == {n \in Nat : \A s \in SUBSET S : Cardinality(s) = n => s \in Q}
<1>1. \A s \in SUBSET S : IsFiniteSet(s) /\ Cardinality(s) \in Nat
  BY FS_Subset, FS_CardinalityType
<1>2. 0 \in P
  BY <1>1, FS_EmptySet
<1>3. \A n \in Nat : n \in P => n + 1 \in P
  <2> SUFFICES ASSUME NEW n \in Nat, \A s \in SUBSET S : Cardinality(s) = n => s \in Q,
                      NEW s \in SUBSET S, Cardinality(s) = n + 1
               PROVE  s \in Q
    OBVIOUS
  <2>1. s # {}
    <3>1. Cardinality(s) # 0
      OBVIOUS
    <3> QED
      BY <3>1, FS_EmptySet
  <2>2. \A x \in s : Cardinality(s \ {x}) = n
    BY <1>1, FS_RemoveElement
  <2>3. \A x \in s : s \ {x} \in Q
    BY <2>2
  <2> QED
    BY <2>1, <2>3
<1> HIDE DEF P
<1>4. \A n \in Nat : n \in P
  BY <1>2, <1>3, Induction
<1> QED
  BY <1>1, <1>4 DEF P

LEMMA SumsExist ==
  ASSUME NEW S, IsFiniteSet(S), NEW g
  PROVE  \E it : SumsOf(it, g, S)
<1> DEFINE Val(h, s) == IF s = {} THEN 0 ELSE g[Pick(s)] + h[s \ {Pick(s)}]
           UpTo(h, n) == /\ h = [s \in SUBSET S |-> h[s]]
                         /\ \A s \in SUBSET S : Cardinality(s) <= n => h[s] = Val(h, s)
           P == {n \in Nat : \E h : UpTo(h, n)}
<1>1. \A s \in SUBSET S : IsFiniteSet(s) /\ Cardinality(s) \in Nat
  BY FS_Subset, FS_CardinalityType
<1>2. 0 \in P
  <2> DEFINE h == [s \in SUBSET S |-> 0]
  <2>1. UpTo(h, 0)
    BY <1>1, FS_EmptySet
  <2> QED
    BY <2>1
<1>3. \A n \in Nat : n \in P => n + 1 \in P
  <2> SUFFICES ASSUME NEW n \in Nat, \E h : UpTo(h, n)
               PROVE  \E k : UpTo(k, n + 1)
    <3> HIDE DEF UpTo
    <3> QED OBVIOUS
  <2>0. PICK h : UpTo(h, n)
    OBVIOUS
  <2> DEFINE k == [s \in SUBSET S |-> IF Cardinality(s) = n + 1 THEN Val(h, s) ELSE h[s]]
  <2>1. \A s \in SUBSET S : s # {} => Cardinality(s \ {Pick(s)}) = Cardinality(s) - 1
    BY <1>1, FS_RemoveElement, PickIn
  <2>2. k = [s \in SUBSET S |-> k[s]]
    OBVIOUS
  <2>3. \A s \in SUBSET S : k[s] = IF Cardinality(s) = n + 1 THEN Val(h, s) ELSE h[s]
    OBVIOUS
  <2> HIDE DEF k
  <2>4. ASSUME NEW s \in SUBSET S, Cardinality(s) <= n + 1
        PROVE  k[s] = Val(k, s)
    <3>1. ASSUME s # {} PROVE k[s \ {Pick(s)}] = h[s \ {Pick(s)}]
      <4>1. Cardinality(s \ {Pick(s)}) # n + 1
        BY <2>1, <2>4, <3>1, <1>1
      <4> QED
        BY <2>3, <4>1
    <3>2. Val(k, s) = Val(h, s)
      BY <3>1
    <3>3. CASE Cardinality(s) = n + 1
      BY <2>3, <3>2, <3>3
    <3>4. CASE Cardinality(s) <= n
      BY <2>0, <2>3, <3>2, <3>4, <1>1
    <3> QED
      BY <3>3, <3>4, <2>4, <1>1
  <2>5. UpTo(k, n + 1)
    BY <2>2, <2>4
  <2> QED
    BY <2>5
<1> HIDE DEF P
<1>4. Cardinality(S) \in P
  BY <1>1, <1>2, <1>3, Induction
<1>5. PICK h : UpTo(h, Cardinality(S))
  BY <1>4 DEF P
<1>6. \A s \in SUBSET S : h[s] = Val(h, s)
  BY <1>5, FS_Subset
<1>7. SumsOf(h, g, S)
  BY <1>5, <1>6 DEF SumsOf
<1> QED
  BY <1>7

LEMMA SumsAgree ==
  ASSUME NEW S, IsFiniteSet(S), NEW T \in SUBSET S, NEW g, NEW a, NEW b,
         SumsOf(a, g, S), SumsOf(b, g, T)
  PROVE  \A s \in SUBSET T : a[s] = b[s]
<1> DEFINE Q == {s \in SUBSET T : a[s] = b[s]}
<1>1. \A s \in SUBSET T :
        /\ a[s] = IF s = {} THEN 0 ELSE g[Pick(s)] + a[s \ {Pick(s)}]
        /\ b[s] = IF s = {} THEN 0 ELSE g[Pick(s)] + b[s \ {Pick(s)}]
  BY DEF SumsOf
<1>2. {} \in Q
  BY <1>1
<1>3. ASSUME NEW s \in SUBSET T, s # {}, \A x \in s : s \ {x} \in Q
      PROVE  s \in Q
  BY <1>1, <1>3, PickIn
<1>4. IsFiniteSet(T)
  BY FS_Subset
<1> HIDE DEF Q
<1>5. \A s \in SUBSET T : s \in Q
  BY <1>2, <1>3, <1>4, SubsetsBySize
<1> QED
  BY <1>5 DEF Q

(* A sum over no elements is 0; any other is that of an element and the    *)
(* rest.                                                                   *)
LEMMA SumEmpty ==
  ASSUME NEW g
  PROVE  SumFunctionOnSet(g, {}) = 0
<1>1. PICK it : SumsOf(it, g, {})
  BY SumsExist, FS_EmptySet
<1>2. SumsOf(CHOOSE j : SumsOf(j, g, {}), g, {})
  BY <1>1
<1> QED
  BY <1>2, SumIsRecursive DEF SumsOf

LEMMA SumPicked ==
  ASSUME NEW S, IsFiniteSet(S), S # {}, NEW g
  PROVE  SumFunctionOnSet(g, S) = g[Pick(S)] + SumFunctionOnSet(g, S \ {Pick(S)})
<1> DEFINE T == S \ {Pick(S)}
           a == CHOOSE it : SumsOf(it, g, S)
           b == CHOOSE it : SumsOf(it, g, T)
<1>1. IsFiniteSet(T) /\ T \in SUBSET S
  BY FS_Subset
<1>2. SumsOf(a, g, S)
  BY SumsExist
<1>3. SumsOf(b, g, T)
  BY <1>1, SumsExist
<1>4. SumFunctionOnSet(g, S) = a[S] /\ SumFunctionOnSet(g, T) = b[T]
  BY SumIsRecursive
<1>5. a[S] = g[Pick(S)] + a[T]
  BY <1>2 DEF SumsOf
<1> HIDE DEF a, b, T
<1>6. a[T] = b[T]
  BY <1>1, <1>2, <1>3, SumsAgree
<1> QED
  BY <1>4, <1>5, <1>6 DEF T

(* A sum of integers is an integer, one of natural numbers a natural one.  *)
LEMMA SumType ==
  ASSUME NEW S, IsFiniteSet(S), NEW g, \A x \in S : g[x] \in Int
  PROVE  /\ SumFunctionOnSet(g, S) \in Int
         /\ (\A x \in S : g[x] \in Nat) => SumFunctionOnSet(g, S) \in Nat
<1> DEFINE Q == {s \in SUBSET S :
                   /\ SumFunctionOnSet(g, s) \in Int
                   /\ (\A x \in S : g[x] \in Nat) => SumFunctionOnSet(g, s) \in Nat}
<1>1. {} \in Q
  BY SumEmpty
<1>2. ASSUME NEW s \in SUBSET S, s # {}, \A x \in s : s \ {x} \in Q
      PROVE  s \in Q
  <2>1. SumFunctionOnSet(g, s) = g[Pick(s)] + SumFunctionOnSet(g, s \ {Pick(s)})
    BY <1>2, FS_Subset, SumPicked
  <2>2. Pick(s) \in S /\ s \ {Pick(s)} \in Q
    BY <1>2, PickIn
  <2> QED
    BY <2>1, <2>2
<1> HIDE DEF Q
<1>3. \A s \in SUBSET S : s \in Q
  BY <1>1, <1>2, SubsetsBySize
<1> QED
  BY <1>3 DEF Q

(* Any element may be taken out first.                                     *)
LEMMA SumRemove ==
  ASSUME NEW S, IsFiniteSet(S), NEW g, \A x \in S : g[x] \in Int
  PROVE  \A x \in S : SumFunctionOnSet(g, S) = g[x] + SumFunctionOnSet(g, S \ {x})
<1> DEFINE Sum(s) == SumFunctionOnSet(g, s)
           Q == {s \in SUBSET S : \A x \in s : Sum(s) = g[x] + Sum(s \ {x})}
<1>0. \A s \in SUBSET S : IsFiniteSet(s) /\ Sum(s) \in Int
  BY FS_Subset, SumType
<1>1. {} \in Q
  OBVIOUS
<1>2. ASSUME NEW s \in SUBSET S, s # {}, \A x \in s : s \ {x} \in Q
      PROVE  s \in Q
  <2> DEFINE p == Pick(s)
  <2>1. p \in s
    BY <1>2, PickIn
  <2>2. Sum(s) = g[p] + Sum(s \ {p})
    BY <1>0, <1>2, SumPicked
  <2> HIDE DEF p, Sum
  <2> SUFFICES ASSUME NEW x \in s, x # p
               PROVE  Sum(s) = g[x] + Sum(s \ {x})
    BY <2>2
  <2>3. Sum(s \ {p}) = g[x] + Sum((s \ {p}) \ {x})
    BY <1>2, <2>1
  <2>4. Sum(s \ {x}) = g[p] + Sum((s \ {x}) \ {p})
    BY <1>2, <2>1
  <2>5. (s \ {p}) \ {x} = (s \ {x}) \ {p}
    OBVIOUS
  <2>6. /\ g[x] \in Int /\ g[p] \in Int /\ Sum((s \ {x}) \ {p}) \in Int
    BY <1>0, <2>1
  <2>7. Sum((s \ {p}) \ {x}) = Sum((s \ {x}) \ {p})
    BY <2>5
  <2> QED
    BY <2>2, <2>3, <2>4, <2>6, <2>7
<1> HIDE DEF Q
<1>3. \A s \in SUBSET S : s \in Q
  BY <1>1, <1>2, SubsetsBySize
<1> QED
  BY <1>3 DEF Q

LEMMA SumAdd ==
  ASSUME NEW S, IsFiniteSet(S), NEW x, x \notin S, NEW g,
         g[x] \in Int, \A y \in S : g[y] \in Int
  PROVE  SumFunctionOnSet(g, S \cup {x}) = g[x] + SumFunctionOnSet(g, S)
<1>1. IsFiniteSet(S \cup {x}) /\ (S \cup {x}) \ {x} = S
  BY FS_AddElement
<1>2. \A y \in S \cup {x} : g[y] \in Int
  OBVIOUS
<1>3. SumFunctionOnSet(g, S \cup {x}) = g[x] + SumFunctionOnSet(g, (S \cup {x}) \ {x})
  BY <1>1, <1>2, SumRemove
<1> QED
  BY <1>1, <1>3

(* The sum of a function that is at most another one's k-th part is at     *)
(* most the k-th part of its sum.                                          *)
LEMMA SumScaled ==
  ASSUME NEW S, IsFiniteSet(S), NEW g, NEW h, NEW k \in Nat,
         \A x \in S : g[x] \in Int /\ h[x] \in Int /\ k * g[x] <= h[x]
  PROVE  k * SumFunctionOnSet(g, S) <= SumFunctionOnSet(h, S)
<1> DEFINE Q == {s \in SUBSET S : k * SumFunctionOnSet(g, s) <= SumFunctionOnSet(h, s)}
<1>1. {} \in Q
  BY SumEmpty
<1>2. ASSUME NEW s \in SUBSET S, s # {}, \A x \in s : s \ {x} \in Q
      PROVE  s \in Q
  <2>1. PICK x \in s : TRUE
    BY <1>2
  <2> DEFINE r == s \ {x}
             gr == SumFunctionOnSet(g, r)
             hr == SumFunctionOnSet(h, r)
  <2>2. IsFiniteSet(s) /\ IsFiniteSet(r)
    BY FS_Subset
  <2>3. gr \in Int /\ hr \in Int
    BY <2>2, SumType
  <2>4. SumFunctionOnSet(g, s) = g[x] + gr /\ SumFunctionOnSet(h, s) = h[x] + hr
    BY <2>2, SumRemove
  <2>5. k * gr <= hr
    BY <1>2
  <2> HIDE DEF gr, hr
  <2>6. g[x] \in Int /\ h[x] \in Int /\ k * g[x] <= h[x]
    OBVIOUS
  <2>7. k * (g[x] + gr) = k * g[x] + k * gr
    BY <2>3, <2>6
  <2>8. k * g[x] \in Int /\ k * gr \in Int
    BY <2>3, <2>6
  <2>9. k * (g[x] + gr) <= h[x] + hr
    BY <2>3, <2>5, <2>6, <2>7, <2>8
  <2> QED
    BY <2>4, <2>9
<1> HIDE DEF Q
<1>3. \A s \in SUBSET S : s \in Q
  BY <1>1, <1>2, SubsetsBySize
<1> QED
  BY <1>3 DEF Q

(* Functions that agree on a set have the same sum over it.                *)
LEMMA SumSame ==
  ASSUME NEW S, IsFiniteSet(S), NEW g, NEW h, \A x \in S : g[x] = h[x]
  PROVE  SumFunctionOnSet(g, S) = SumFunctionOnSet(h, S)
<1> DEFINE Q == {s \in SUBSET S : SumFunctionOnSet(g, s) = SumFunctionOnSet(h, s)}
<1>1. {} \in Q
  BY SumEmpty
<1>2. ASSUME NEW s \in SUBSET S, s # {}, \A x \in s : s \ {x} \in Q
      PROVE  s \in Q
  <2>1. Pick(s) \in s /\ IsFiniteSet(s)
    BY <1>2, PickIn, FS_Subset
  <2>2. /\ SumFunctionOnSet(g, s) = g[Pick(s)] + SumFunctionOnSet(g, s \ {Pick(s)})
        /\ SumFunctionOnSet(h, s) = h[Pick(s)] + SumFunctionOnSet(h, s \ {Pick(s)})
    BY <1>2, <2>1, SumPicked
  <2> QED
    BY <1>2, <2>1, <2>2
<1> HIDE DEF Q
<1>3. \A s \in SUBSET S : s \in Q
  BY <1>1, <1>2, SubsetsBySize
<1> QED
  BY <1>3 DEF Q

(* The sums of two functions that differ at one element only differ by as  *)
(* much.                                                                   *)
LEMMA SumChange ==
  ASSUME NEW S, IsFiniteSet(S), NEW g, NEW h, NEW x \in S,
         \A y \in S : g[y] \in Int /\ h[y] \in Int,
         \A y \in S \ {x} : h[y] = g[y]
  PROVE  SumFunctionOnSet(h, S) = SumFunctionOnSet(g, S) + h[x] - g[x]
<1>1. IsFiniteSet(S \ {x})
  BY FS_RemoveElement
<1>2. SumFunctionOnSet(h, S \ {x}) = SumFunctionOnSet(g, S \ {x})
  BY <1>1, SumSame
<1>3. /\ SumFunctionOnSet(g, S) = g[x] + SumFunctionOnSet(g, S \ {x})
      /\ SumFunctionOnSet(h, S) = h[x] + SumFunctionOnSet(h, S \ {x})
  BY SumRemove
<1>4. SumFunctionOnSet(g, S \ {x}) \in Int
  BY <1>1, SumType
<1>5. g[x] \in Int /\ h[x] \in Int
  OBVIOUS
<1> QED
  BY <1>2, <1>3, <1>4, <1>5

(* Of natural numbers, a sum is at least each of its terms.                *)
LEMMA SumAtLeast ==
  ASSUME NEW S, IsFiniteSet(S), NEW g, \A x \in S : g[x] \in Nat
  PROVE  \A x \in S : g[x] <= SumFunctionOnSet(g, S)
<1> SUFFICES ASSUME NEW x \in S PROVE g[x] <= SumFunctionOnSet(g, S)
  OBVIOUS
<1>1. IsFiniteSet(S \ {x})
  BY FS_RemoveElement
<1>2. SumFunctionOnSet(g, S \ {x}) \in Nat
  BY <1>1, SumType
<1>3. SumFunctionOnSet(g, S) = g[x] + SumFunctionOnSet(g, S \ {x})
  BY SumRemove
<1> QED
  BY <1>2, <1>3

(* Sums over the places of a sequence: one element longer at the end, ...  *)
LEMMA SumLast ==
  ASSUME NEW n \in Nat, NEW g, \A i \in 1 .. n + 1 : g[i] \in Int
  PROVE  SumFunctionOnSet(g, 1 .. n + 1) = SumFunctionOnSet(g, 1 .. n) + g[n + 1]
<1>1. IsFiniteSet(1 .. n) /\ n + 1 \notin 1 .. n
  BY FS_Interval
<1>2. 1 .. n + 1 = (1 .. n) \cup {n + 1}
  OBVIOUS
<1>3. g[n + 1] \in Int /\ \A i \in 1 .. n : g[i] \in Int
  BY <1>2
<1>4. SumFunctionOnSet(g, (1 .. n) \cup {n + 1}) = g[n + 1] + SumFunctionOnSet(g, 1 .. n)
  BY <1>1, <1>3, SumAdd
<1>5. SumFunctionOnSet(g, 1 .. n) \in Int
  BY <1>1, <1>3, SumType
<1>6. SumFunctionOnSet(g, 1 .. n + 1) = SumFunctionOnSet(g, (1 .. n) \cup {n + 1})
  BY <1>2
<1> QED
  BY <1>3, <1>4, <1>5, <1>6

(* ... and one element shorter at the beginning.                           *)
LEMMA SumFirst ==
  ASSUME NEW n \in Nat, NEW g, NEW h,
         \A i \in 1 .. n + 1 : g[i] \in Int,
         \A i \in 1 .. n : h[i] = g[i + 1]
  PROVE  SumFunctionOnSet(g, 1 .. n + 1) = g[1] + SumFunctionOnSet(h, 1 .. n)
<1> DEFINE P == {k \in Nat : k <= n => SumFunctionOnSet(g, 1 .. k + 1)
                                         = g[1] + SumFunctionOnSet(h, 1 .. k)}
<1>1. 0 \in P
  <2>1. 1 .. 0 = {} /\ SumFunctionOnSet(h, 1 .. 0) = 0 /\ SumFunctionOnSet(g, 1 .. 0) = 0
    BY SumEmpty
  <2>2. SumFunctionOnSet(g, 1 .. 0 + 1) = SumFunctionOnSet(g, 1 .. 0) + g[0 + 1]
    <3>1. \A i \in 1 .. 0 + 1 : g[i] \in Int
      OBVIOUS
    <3> QED
      BY <3>1, SumLast
  <2>3. g[1] \in Int /\ 0 + 1 = 1
    OBVIOUS
  <2> QED
    BY <2>1, <2>2, <2>3
<1>2. ASSUME NEW k \in Nat, k \in P
      PROVE  k + 1 \in P
  <2> SUFFICES ASSUME k + 1 <= n
               PROVE  SumFunctionOnSet(g, 1 .. (k + 1) + 1)
                        = g[1] + SumFunctionOnSet(h, 1 .. k + 1)
    OBVIOUS
  <2>1. SumFunctionOnSet(g, 1 .. (k + 1) + 1)
          = SumFunctionOnSet(g, 1 .. k + 1) + g[(k + 1) + 1]
    BY SumLast
  <2>2. SumFunctionOnSet(h, 1 .. k + 1) = SumFunctionOnSet(h, 1 .. k) + h[k + 1]
    <3>1. \A i \in 1 .. k + 1 : h[i] \in Int
      OBVIOUS
    <3> QED
      BY <3>1, SumLast
  <2>3. SumFunctionOnSet(g, 1 .. k + 1) = g[1] + SumFunctionOnSet(h, 1 .. k)
    BY <1>2
  <2>4. SumFunctionOnSet(h, 1 .. k) \in Int
    <3>1. \A i \in 1 .. k : h[i] \in Int
      OBVIOUS
    <3>2. IsFiniteSet(1 .. k)
      BY FS_Interval
    <3> QED
      BY <3>1, <3>2, SumType
  <2>5. g[1] \in Int /\ h[k + 1] \in Int /\ h[k + 1] = g[(k + 1) + 1]
    OBVIOUS
  <2> QED
    BY <2>1, <2>2, <2>3, <2>4, <2>5
<1> HIDE DEF P
<1>3. n \in P
  BY <1>1, <1>2, Induction
<1> QED
  BY <1>3 DEF P

(* A sum of noughts.                                                       *)
LEMMA SumZero ==
  ASSUME NEW S, IsFiniteSet(S), NEW g, \A x \in S : g[x] = 0
  PROVE  SumFunctionOnSet(g, S) = 0
<1> DEFINE Q == {s \in SUBSET S : SumFunctionOnSet(g, s) = 0}
<1>1. {} \in Q
  BY SumEmpty
<1>2. ASSUME NEW s \in SUBSET S, s # {}, \A x \in s : s \ {x} \in Q
      PROVE  s \in Q
  <2>1. Pick(s) \in s /\ IsFiniteSet(s)
    BY <1>2, PickIn, FS_Subset
  <2>2. SumFunctionOnSet(g, s) = g[Pick(s)] + SumFunctionOnSet(g, s \ {Pick(s)})
    BY <1>2, <2>1, SumPicked
  <2> QED  BY <1>2, <2>1, <2>2
<1> HIDE DEF Q
<1>3. S \in Q
  BY <1>1, <1>2, SubsetsBySize
<1> QED  BY <1>3 DEF Q

(* A sum of terms of which each is at most k times another's and k more.   *)
LEMMA LinearSum ==
  ASSUME NEW n \in Nat, NEW k \in Nat, NEW g, NEW f,
         \A i \in 0 .. n - 1 : g[i] \in Int /\ f[i] \in Nat /\ g[i] <= k * f[i] + k
  PROVE  SumFunctionOnSet(g, 0 .. n - 1) <= k * SumFunctionOnSet(f, 0 .. n - 1) + k * n
<1> DEFINE P == {m \in Nat : m <= n => SumFunctionOnSet(g, 0 .. m - 1)
                                         <= k * SumFunctionOnSet(f, 0 .. m - 1) + k * m}
<1>1. 0 \in P
  <2>1. 0 .. 0 - 1 = {}
    OBVIOUS
  <2>2. SumFunctionOnSet(g, {}) = 0 /\ SumFunctionOnSet(f, {}) = 0
    BY SumEmpty
  <2>3. SumFunctionOnSet(g, 0 .. 0 - 1) <= k * SumFunctionOnSet(f, 0 .. 0 - 1) + k * 0
    BY <2>1, <2>2
  <2> QED  BY <2>3
<1>2. ASSUME NEW m \in Nat, m \in P PROVE m + 1 \in P
  <2> SUFFICES ASSUME m + 1 <= n
               PROVE  SumFunctionOnSet(g, 0 .. m) <= k * SumFunctionOnSet(f, 0 .. m) + k * (m + 1)
    <3>1. m + 1 - 1 = m /\ m + 1 \in Nat
      OBVIOUS
    <3> QED  BY <3>1
  <2> DEFINE R == 0 .. m - 1
             a == SumFunctionOnSet(g, R)
             b == SumFunctionOnSet(f, R)
  <2>1. 0 .. m = R \cup {m} /\ m \notin R /\ R \subseteq 0 .. n - 1 /\ m \in 0 .. n - 1
    OBVIOUS
  <2>2. IsFiniteSet(R)
    <3>1. 0 \in Int /\ m - 1 \in Int
      OBVIOUS
    <3> QED  BY <3>1, FS_Interval
  <2>3. a <= k * b + k * m
    BY <1>2
  <2>4. g[m] \in Int /\ f[m] \in Nat /\ g[m] <= k * f[m] + k
    BY <2>1
  <2>5. a \in Int /\ b \in Nat
    BY <2>1, <2>2, SumType
  <2>6. SumFunctionOnSet(g, 0 .. m) = g[m] + a /\ SumFunctionOnSet(f, 0 .. m) = f[m] + b
    <3>1. \A i \in R : g[i] \in Int /\ f[i] \in Int
      BY <2>1
    <3>2. f[m] \in Int
      BY <2>4
    <3> HIDE DEF R
    <3>3. SumFunctionOnSet(g, R \cup {m}) = g[m] + SumFunctionOnSet(g, R)
      BY <2>1, <2>2, <2>4, <3>1, SumAdd
    <3>4. SumFunctionOnSet(f, R \cup {m}) = f[m] + SumFunctionOnSet(f, R)
      BY <2>1, <2>2, <3>1, <3>2, SumAdd
    <3> QED  BY <2>1, <3>3, <3>4
  <2> HIDE DEF a, b
  <2>7. g[m] + a <= k * (f[m] + b) + k * (m + 1)
    <3> DEFINE x == f[m]
               y == g[m]
    <3>1. x \in Nat /\ y \in Int /\ y <= k * x + k
      BY <2>4
    <3> HIDE DEF x, y
    <3>2. k * (x + b) = k * x + k * b /\ k * (m + 1) = k * m + k
      BY <2>5, <3>1
    <3>3. k * x \in Int /\ k * b \in Int /\ k * m \in Int
      BY <2>5, <3>1
    <3>4. y + a <= k * (x + b) + k * (m + 1)
      BY <2>3, <2>5, <3>1, <3>2, <3>3
    <3> QED  BY <3>4 DEF x, y
  <2> QED  BY <2>6, <2>7
<1> HIDE DEF P
<1>3. n \in P
  BY <1>1, <1>2, Induction
<1> QED  BY <1>3 DEF P
=============================================================================
