--------------------------- MODULE LinkedListProofs ---------------------------
(***************************************************************************)
(* Proofs about the packet list, for every number of threads and items:    *)
(* as long as locking is not switched on within an operation, the list is  *)
(* touched by one thread at a time, its pointers are the sequence it       *)
(* stands for, a dequeue gets the first item and nobody else gets it, and  *)
(* the test without the lock does not invent emptiness.                    *)
(***************************************************************************)
EXTENDS LinkedList, TLAPS

(* The lock: a thread inside has it, once locking is on; before, there is  *)
(* only the owner.                                                         *)
LockInv ==
  /\ use_lock = 0 => /\ test_lock = 0
                     /\ \A t \in Threads : lock[t] = 0 /\ (t # Owner => pc[t] = "idle")
  /\ use_lock = 1 => \A t \in Threads : Inside(t) => test_lock = 1 /\ lock[t] = 1
  /\ \A t \in Threads : pc[t] = "spin" => use_lock = 1 /\ lock[t] = 1

(* The item of t is allocated but not in the list: not yet, or no more.    *)
Reserved(t) ==
  \/ op[t] = "dequeue" /\ pc[t] = "finish"
  \/ op[t] = "insert_last" /\ pc[t] \in {"lock", "spin", "begin", "store", "finish"}
  \/ op[t] = "insert_first" /\ pc[t] \in {"lock", "spin", "begin", "store"}

Positions == 1 .. Len(contents)

(* An item is in one place. *)
ItemInv ==
  /\ \A i \in Positions : contents[i] \in allocated
  /\ \A i, j \in Positions : contents[i] = contents[j] => i = j
  /\ \A t \in Threads : Reserved(t) => /\ item[t] \in allocated
                                       /\ \A i \in Positions : contents[i] # item[t]
  /\ \A t, u \in Threads : Reserved(t) /\ Reserved(u) /\ item[t] = item[u] => t = u
  /\ \A t \in Threads : item[t] # NULL => Reserved(t) \/ Inside(t)

FirstOf(s) == IF s = <<>> THEN NULL ELSE s[1]
LastOf(s)  == IF s = <<>> THEN NULL ELSE s[Len(s)]

NextAt(i) == next[contents[i]] = (IF i = Len(contents) THEN NULL ELSE contents[i + 1])
PrevAt(i) == prev[contents[i]] = (IF i = 1 THEN NULL ELSE contents[i - 1])

(* Between its two steps a thread leaves one end of the list undone. *)
AtStore(t) ==
  /\ op[t] = "dequeue" => contents # <<>> /\ item[t] = contents[1]
  /\ op[t] = "insert_last" => link[t] = LastOf(contents)
  /\ op[t] = "insert_first" => link[t] = FirstOf(contents)

AtFinish(t) ==
  /\ op[t] = "dequeue" =>
       /\ prev[item[t]] = NULL
       /\ last = (IF contents = <<>> THEN item[t] ELSE LastOf(contents))
  /\ op[t] = "insert_last" => last = item[t] /\ link[t] = LastOf(contents)
  /\ op[t] = "insert_first" =>
       /\ contents # <<>> /\ item[t] = contents[1]
       /\ link[t] = (IF Len(contents) = 1 THEN NULL ELSE contents[2])
       /\ last = (IF Len(contents) = 1 THEN NULL ELSE LastOf(contents))
       /\ \A i \in Positions : (i > 1 => NextAt(i)) /\ (i > 2 => PrevAt(i))

FirstUndone(t) == pc[t] = "finish" /\ op[t] = "insert_first"

ListInv ==
  /\ first = FirstOf(contents)
  /\ (\A t \in Threads : pc[t] # "finish") => last = LastOf(contents)
  /\ (\A t \in Threads : ~ FirstUndone(t)) => \A i \in Positions : NextAt(i) /\ PrevAt(i)
  /\ \A t \in Threads : pc[t] = "store" => AtStore(t)
  /\ \A t \in Threads : pc[t] = "finish" => AtFinish(t)

ObserverInv == opc \in {"last", "empty"} => wasEmpty

IInv == TypeOK /\ LockInv /\ MutualExclusion /\ ItemInv /\ ListInv /\ ObserverInv

Step == Steps \/ SetLockBetweenCalls

-----------------------------------------------------------------------------
(* Only the empty sequence has no elements. *)
LEMMA EmptySeq ==
  ASSUME NEW s \in Seq(Nodes) PROVE Len(s) \in Nat /\ (s = <<>> <=> Len(s) = 0)
OBVIOUS

(* A dequeue moves every position down by one. *)
LEMMA TailSeq ==
  ASSUME NEW s \in Seq(Nodes), s # <<>>
  PROVE  /\ Tail(s) \in Seq(Nodes) /\ Len(Tail(s)) = Len(s) - 1
         /\ \A i \in 1 .. Len(s) - 1 : Tail(s)[i] = s[i + 1]
OBVIOUS

(* An insertion at the end leaves the positions alone. *)
LEMMA AppendSeq ==
  ASSUME NEW s \in Seq(Nodes), NEW n \in Nodes
  PROVE  /\ Append(s, n) \in Seq(Nodes) /\ Len(Append(s, n)) = Len(s) + 1
         /\ \A i \in 1 .. Len(s) : Append(s, n)[i] = s[i]
         /\ Append(s, n)[Len(s) + 1] = n
OBVIOUS

(* An insertion at the front moves them up by one. *)
LEMMA ConsSeq ==
  ASSUME NEW s \in Seq(Nodes), NEW n \in Nodes
  PROVE  /\ <<n>> \o s \in Seq(Nodes) /\ Len(<<n>> \o s) = Len(s) + 1
         /\ (<<n>> \o s)[1] = n
         /\ \A i \in 1 .. Len(s) : (<<n>> \o s)[i + 1] = s[i]
OBVIOUS

-----------------------------------------------------------------------------
(* A list as list_create leaves it. *)
LEMMA InitIInv == Init => IInv
<1> SUFFICES ASSUME Init PROVE IInv
  OBVIOUS
<1> USE DEF Init
<1>1. TypeOK
  <2>1. {first, last} \subseteq Nodes \cup {NULL}
    BY DEF NULL
  <2>2. contents \in Seq(Nodes)
    OBVIOUS
  <2> QED  BY <2>1, <2>2 DEF TypeOK, Ops, NULL
<1>2. LockInv /\ MutualExclusion /\ ObserverInv
  BY DEF LockInv, MutualExclusion, ObserverInv, Inside
<1>3. ItemInv
  BY DEF ItemInv, Reserved, Positions, NULL
<1>4. ListInv
  BY DEF ListInv, FirstOf, LastOf, Positions, FirstUndone, NULL
<1> QED  BY <1>1, <1>2, <1>3, <1>4 DEF IInv

(* A pointer of a node that is there. *)
LEMMA PointType ==
  ASSUME NEW f \in [Nodes -> Nodes \cup {NULL}], NEW n \in Nodes \cup {NULL},
         NEW to \in Nodes \cup {NULL}
  PROVE  Point(f, n, to) \in [Nodes -> Nodes \cup {NULL}]
BY DEF Point

(* What a thread knows of the item it is about to unlink or to chain. *)
LEMMA ItemIsNode ==
  ASSUME TypeOK, ItemInv, ListInv, NEW t \in Threads, pc[t] \in {"store", "finish"}
  PROVE  item[t] \in Nodes
<1>1. CASE Reserved(t)
  BY <1>1 DEF ItemInv, TypeOK
<1>2. CASE ~ Reserved(t) /\ pc[t] = "store"
  <2>1. contents # <<>> /\ item[t] = contents[1]
    BY <1>2 DEF Reserved, ListInv, AtStore, TypeOK, Ops
  <2> QED  BY <2>1, EmptySeq DEF TypeOK
<1>3. CASE ~ Reserved(t) /\ pc[t] = "finish"
  <2>1. contents # <<>> /\ item[t] = contents[1]
    BY <1>3 DEF Reserved, ListInv, AtFinish, TypeOK, Ops
  <2> QED  BY <2>1, EmptySeq DEF TypeOK
<1> QED  BY <1>1, <1>2, <1>3

(* No step of a thread leaves the types. *)
LEMMA ThreadKeepsType ==
  ASSUME TypeOK, ItemInv, ListInv, NEW t \in Threads, Call(t) \/ ThreadStep(t)
  PROVE  TypeOK'
<1> USE DEF TypeOK, Goto, pointers, locks, locals, observer
<1>1. CASE Call(t)
  BY <1>1 DEF Call, Ops
<1>2. CASE Lock(t) \/ Spin(t) \/ Unlock(t)
  BY <1>2 DEF Lock, Spin, Unlock, LockAfter
<1>3. CASE BeginInsert(t) \/ BeginDequeue(t)
  BY <1>3 DEF BeginInsert, BeginDequeue, Front
<1>4. CASE Unlink(t)
  <2>1. item[t] \in Nodes
    BY <1>4, ItemIsNode DEF Unlink
  <2>2. contents' \in Seq(Nodes)
    BY <1>4, TailSeq DEF Unlink
  <2>3. next' \in [Nodes -> Nodes \cup {NULL}] /\ prev' \in [Nodes -> Nodes \cup {NULL}]
    BY <1>4, <2>1, PointType DEF Unlink
  <2> QED  BY <1>4, <2>1, <2>2, <2>3 DEF Unlink
<1>5. CASE UnlinkLast(t) \/ StoreLast(t)
  BY <1>5, ItemIsNode DEF UnlinkLast, StoreLast
<1>6. CASE ChainLast(t)
  <2>1. item[t] \in Nodes
    BY <1>6, ItemIsNode DEF ChainLast
  <2>2. contents' \in Seq(Nodes)
    BY <1>6, <2>1, AppendSeq DEF ChainLast
  <2>3. next' \in [Nodes -> Nodes \cup {NULL}]
    BY <1>6, <2>1, PointType DEF ChainLast, NULL
  <2> QED  BY <1>6, <2>1, <2>2, <2>3 DEF ChainLast
<1>7. CASE StoreFirst(t)
  <2>1. item[t] \in Nodes
    BY <1>7, ItemIsNode DEF StoreFirst
  <2>2. contents' \in Seq(Nodes)
    BY <1>7, <2>1, ConsSeq DEF StoreFirst
  <2> QED  BY <1>7, <2>1, <2>2 DEF StoreFirst
<1>8. CASE ChainFirst(t)
  <2>1. item[t] \in Nodes
    BY <1>8, ItemIsNode DEF ChainFirst
  <2>2. prev' \in [Nodes -> Nodes \cup {NULL}]
    BY <1>8, <2>1, PointType DEF ChainFirst, NULL
  <2> QED  BY <1>8, <2>1, <2>2 DEF ChainFirst
<1> QED  BY <1>1, <1>2, <1>3, <1>4, <1>5, <1>6, <1>7, <1>8 DEF ThreadStep

(* The steps of a thread that do not take or give back the lock. *)
Working(t) ==
  \/ BeginInsert(t) \/ BeginDequeue(t) \/ Unlink(t) \/ UnlinkLast(t)
  \/ StoreLast(t) \/ ChainLast(t) \/ StoreFirst(t) \/ ChainFirst(t)

(* Such a step is made, and ends, inside, and moves no other thread. *)
LEMMA WorkingStaysInside ==
  ASSUME TypeOK, NEW t \in Threads, Working(t)
  PROVE  /\ Inside(t) /\ Inside(t)' /\ UNCHANGED <<locks, lock, op, opc, wasEmpty>>
         /\ \A u \in Threads \ {t} : pc'[u] = pc[u]
BY DEF Working, Inside, BeginInsert, BeginDequeue, Unlink, UnlinkLast, StoreLast, ChainLast,
       StoreFirst, ChainFirst, Goto, TypeOK, locks, locals, observer

(* No step lets a second thread in. *)
LEMMA ThreadKeepsLock ==
  ASSUME TypeOK, LockInv, MutualExclusion, NEW t \in Threads, Call(t) \/ ThreadStep(t)
  PROVE  LockInv' /\ MutualExclusion'
<1> USE DEF TypeOK, LockInv, MutualExclusion, Inside
<1>1. CASE Call(t)
  BY <1>1 DEF Call, Goto, locks
<1>2. CASE Lock(t)
  BY <1>2 DEF Lock, Goto, locks
<1>3. CASE Spin(t)
  BY <1>3 DEF Spin, Goto, locals
<1>4. CASE Unlock(t)
  BY <1>4 DEF Unlock, LockAfter, Goto
<1>5. CASE Working(t)
  <2>1. /\ Inside(t) /\ Inside(t)' /\ UNCHANGED <<locks, lock, op, opc, wasEmpty>>
        /\ \A u \in Threads \ {t} : pc'[u] = pc[u]
    BY <1>5, WorkingStaysInside
  <2> QED  BY <2>1 DEF locks
<1> QED  BY <1>1, <1>2, <1>3, <1>4, <1>5 DEF ThreadStep, Working

-----------------------------------------------------------------------------
(* With one thread inside, no other is. *)
LEMMA Alone ==
  ASSUME MutualExclusion, NEW t \in Threads, Inside(t), NEW u \in Threads \ {t}
  PROVE  ~ Inside(u)
BY DEF MutualExclusion

(* A step that leaves the contents as they are, and whose thread has no    *)
(* new item.                                                               *)
LEMMA SameContents ==
  ASSUME TypeOK, ItemInv, NEW t \in Threads, UNCHANGED <<contents, allocated, op>>,
         \A u \in Threads \ {t} : pc'[u] = pc[u] /\ item'[u] = item[u],
         Reserved(t)' => Reserved(t) /\ item'[t] = item[t],
         item'[t] # NULL => Reserved(t)' \/ Inside(t)'
  PROVE  ItemInv'
BY DEF ItemInv, Positions, Reserved, Inside

(* Each step keeps every allocated item in one place only. *)
LEMMA ThreadKeepsItems ==
  ASSUME TypeOK, MutualExclusion, ItemInv, ListInv,
         NEW t \in Threads, Call(t) \/ ThreadStep(t)
  PROVE  ItemInv'
<1> USE DEF TypeOK, Goto
<1>1. CASE Call(t)
  <2>1. item[t] = NULL /\ UNCHANGED contents
    BY <1>1 DEF Call, ItemInv, Reserved, Inside
  <2>2. \A u \in Threads \ {t} : pc'[u] = pc[u] /\ op'[u] = op[u] /\ item'[u] = item[u]
    BY <1>1 DEF Call
  <2>3. CASE op'[t] = "dequeue" /\ UNCHANGED <<item, allocated>>
    BY <1>1, <2>1, <2>2, <2>3 DEF Call, ItemInv, Positions, Reserved, Inside
  <2>4. CASE ~ (op'[t] = "dequeue" /\ UNCHANGED <<item, allocated>>)
    <3>1. PICK n \in Nodes \ allocated : item'[t] = n /\ allocated' = allocated \cup {n}
      BY <1>1, <2>4 DEF Call
    <3>2. Reserved(t)'
      BY <1>1, <2>4 DEF Call, Reserved
    <3>3. \A u \in Threads \ {t} : /\ (Reserved(u)' <=> Reserved(u))
                                   /\ (Inside(u)' <=> Inside(u))
      BY <2>2 DEF Reserved, Inside
    <3>4. /\ \A i \in Positions' : contents'[i] \in allocated' /\ contents'[i] # item'[t]
          /\ \A i, j \in Positions' : contents'[i] = contents'[j] => i = j
      BY <2>1, <3>1 DEF ItemInv, Positions
    <3>5. \A u \in Threads : Reserved(u)' =>
            item'[u] \in allocated' /\ \A i \in Positions' : contents'[i] # item'[u]
      BY <2>1, <2>2, <3>1, <3>3, <3>4 DEF ItemInv, Positions
    <3>6. \A u \in Threads \ {t} : Reserved(u)' => item'[u] # item'[t]
      BY <2>2, <3>1, <3>3 DEF ItemInv
    <3>7. \A u, v \in Threads : Reserved(u)' /\ Reserved(v)' /\ item'[u] = item'[v] => u = v
      BY <2>2, <3>3, <3>6 DEF ItemInv
    <3>8. \A u \in Threads : item'[u] # NULL => Reserved(u)' \/ Inside(u)'
      BY <2>2, <3>2, <3>3 DEF ItemInv
    <3> QED  BY <3>4, <3>5, <3>7, <3>8 DEF ItemInv
  <2> QED  BY <2>3, <2>4
<1>2. CASE Lock(t) \/ Spin(t) \/ BeginInsert(t) \/ UNCHANGED vars
  <2>1. UNCHANGED <<contents, allocated, op, item>> /\ (Inside(t) => Inside(t)')
    BY <1>2 DEF Lock, Spin, BeginInsert, Inside, locals, vars
  <2>2. \A u \in Threads \ {t} : pc'[u] = pc[u]
    BY <1>2 DEF Lock, Spin, BeginInsert, vars
  <2>3. Reserved(t)' <=> Reserved(t)
    BY <1>2 DEF Lock, Spin, BeginInsert, Reserved, Ops, locals, vars
  <2>4. item[t] # NULL => Reserved(t) \/ Inside(t)
    BY DEF ItemInv
  <2> QED  BY <2>1, <2>2, <2>3, <2>4, SameContents
<1>3. CASE BeginDequeue(t) \/ Unlock(t)
  <2>1. UNCHANGED <<contents, allocated, op>>
    BY <1>3 DEF BeginDequeue, Unlock
  <2>2. \A u \in Threads \ {t} : pc'[u] = pc[u] /\ item'[u] = item[u]
    BY <1>3 DEF BeginDequeue, Unlock
  <2>3. ~ Reserved(t)' /\ (item'[t] # NULL => Inside(t)')
    BY <1>3 DEF BeginDequeue, Unlock, Reserved, Inside
  <2> QED  BY <2>1, <2>2, <2>3, SameContents
<1>4. CASE StoreLast(t)
  <2>1. UNCHANGED <<contents, allocated, op, item>> /\ Inside(t)'
    BY <1>4 DEF StoreLast, Inside, locals
  <2>2. \A u \in Threads \ {t} : pc'[u] = pc[u]
    BY <1>4 DEF StoreLast
  <2>3. Reserved(t)
    BY <1>4 DEF StoreLast, Reserved
  <2> QED  BY <2>1, <2>2, <2>3, SameContents
<1>5. CASE ChainFirst(t)
  <2>1. UNCHANGED <<contents, allocated, op, item>> /\ Inside(t)' /\ ~ Reserved(t)'
    BY <1>5 DEF ChainFirst, Inside, Reserved, locals
  <2>2. \A u \in Threads \ {t} : pc'[u] = pc[u]
    BY <1>5 DEF ChainFirst
  <2> QED  BY <2>1, <2>2, SameContents
<1>6. CASE Unlink(t)
  <2>1. /\ UNCHANGED <<op, item, allocated>>
        /\ Reserved(t)' /\ Inside(t)' /\ contents' = Tail(contents)
        /\ contents # <<>> /\ item[t] = contents[1]
        /\ \A u \in Threads \ {t} : pc'[u] = pc[u]
    BY <1>6 DEF Unlink, Reserved, Inside, locals, ListInv, AtStore
  <2>2. \A i \in Positions' : i + 1 \in Positions /\ contents'[i] = contents[i + 1]
    BY <2>1, TailSeq, EmptySeq DEF Positions
  <2>3. 1 \in Positions /\ Positions \subseteq Int
    BY <2>1, EmptySeq DEF Positions
  <2>4. \A u \in Threads \ {t} : /\ (Reserved(u)' <=> Reserved(u))
                                 /\ (Inside(u)' <=> Inside(u))
    BY <2>1 DEF Reserved, Inside
  <2>5. \A i, j \in Positions' : contents'[i] = contents'[j] => i = j
    BY <2>2, <2>3 DEF ItemInv, Positions
  <2> HIDE DEF TypeOK
  <2>6. \A i \in Positions' : contents'[i] # item[t] /\ contents'[i] \in allocated
    BY <2>1, <2>2, <2>3 DEF ItemInv, Positions
  <2>7. \A u \in Threads \ {t} : Reserved(u) => item[u] # item[t]
    BY <2>1, <2>3 DEF ItemInv
  <2>8. \A u \in Threads : Reserved(u)' =>
          item'[u] \in allocated' /\ \A i \in Positions' : contents'[i] # item'[u]
    <3> SUFFICES ASSUME NEW u \in Threads, Reserved(u)'
                 PROVE  item'[u] \in allocated' /\ \A i \in Positions' : contents'[i] # item'[u]
      OBVIOUS
    <3>1. CASE u = t
      BY <2>1, <2>3, <2>6, <3>1 DEF ItemInv
    <3>2. CASE u # t
      <4>1. item[u] \in allocated /\ \A i \in Positions : contents[i] # item[u]
        BY <2>4, <3>2 DEF ItemInv
      <4> QED  BY <2>1, <2>2, <4>1
    <3> QED  BY <3>1, <3>2
  <2>9. \A u, v \in Threads : Reserved(u)' /\ Reserved(v)' /\ item'[u] = item'[v] => u = v
    <3> SUFFICES ASSUME NEW u \in Threads, NEW v \in Threads,
                        Reserved(u)', Reserved(v)', item'[u] = item'[v], u # v
                 PROVE  FALSE
      OBVIOUS
    <3>1. CASE u # t /\ v # t
      BY <2>1, <2>4, <3>1 DEF ItemInv
    <3>2. CASE u = t \/ v = t
      BY <2>1, <2>4, <2>7, <3>2
    <3> QED  BY <3>1, <3>2
  <2>10. \A u \in Threads : item'[u] # NULL => Reserved(u)' \/ Inside(u)'
    BY <2>1, <2>4 DEF ItemInv
  <2> QED  BY <2>1, <2>5, <2>6, <2>8, <2>9, <2>10 DEF ItemInv
<1>7. CASE UnlinkLast(t)
  <2>1. /\ UNCHANGED <<contents, op, item>> /\ allocated' = allocated \ {item[t]}
        /\ Reserved(t) /\ ~ Reserved(t)' /\ Inside(t)'
        /\ \A u \in Threads \ {t} : pc'[u] = pc[u]
    BY <1>7 DEF UnlinkLast, Reserved, Inside, locals
  <2>2. \A u \in Threads \ {t} : /\ (Reserved(u)' <=> Reserved(u))
                                 /\ (Inside(u)' <=> Inside(u))
    BY <2>1 DEF Reserved, Inside
  <2> QED  BY <2>1, <2>2 DEF ItemInv, Positions
<1>8. CASE ChainLast(t)
  <2>1. /\ UNCHANGED <<allocated, op, item>> /\ contents' = Append(contents, item[t])
        /\ Reserved(t) /\ ~ Reserved(t)' /\ Inside(t)' /\ item[t] \in Nodes
        /\ \A u \in Threads \ {t} : pc'[u] = pc[u]
    BY <1>8, ItemIsNode DEF ChainLast, Reserved, Inside, locals
  <2>2. \A u \in Threads \ {t} : /\ (Reserved(u)' <=> Reserved(u))
                                 /\ (Inside(u)' <=> Inside(u))
    BY <2>1 DEF Reserved, Inside
  <2>3. \A i \in Positions' : IF i \in Positions THEN contents'[i] = contents[i]
                                                 ELSE contents'[i] = item[t] /\ i = Len(contents) + 1
    BY <2>1, AppendSeq, EmptySeq DEF Positions
  <2> HIDE DEF TypeOK
  <2>4. \A i \in Positions' : contents'[i] \in allocated'
    BY <2>1, <2>3 DEF ItemInv
  <2>5. \A i, j \in Positions' : contents'[i] = contents'[j] => i = j
    <3>1. \A i \in Positions : contents[i] # item[t]
      BY <2>1 DEF ItemInv
    <3> QED  BY <2>3, <3>1 DEF ItemInv
  <2>6. \A u \in Threads : Reserved(u)' => Reserved(u) /\ u # t
    BY <2>1, <2>2, Zenon
  <2>7. \A u \in Threads : Reserved(u)' =>
          item'[u] \in allocated' /\ \A i \in Positions' : contents'[i] # item'[u]
    BY <2>1, <2>3, <2>6 DEF ItemInv
  <2>8. \A u, v \in Threads : Reserved(u)' /\ Reserved(v)' /\ item'[u] = item'[v] => u = v
    BY <2>1, <2>6 DEF ItemInv
  <2>9. \A u \in Threads : item'[u] # NULL => Reserved(u)' \/ Inside(u)'
    BY <2>1, <2>2 DEF ItemInv
  <2> QED  BY <2>4, <2>5, <2>7, <2>8, <2>9 DEF ItemInv
<1>9. CASE StoreFirst(t)
  <2>1. /\ UNCHANGED <<allocated, op, item>> /\ contents' = <<item[t]>> \o contents
        /\ Reserved(t) /\ ~ Reserved(t)' /\ Inside(t)' /\ item[t] \in Nodes
        /\ \A u \in Threads \ {t} : pc'[u] = pc[u]
    BY <1>9, ItemIsNode DEF StoreFirst, Reserved, Inside, locals
  <2>2. \A u \in Threads \ {t} : /\ (Reserved(u)' <=> Reserved(u))
                                 /\ (Inside(u)' <=> Inside(u))
    BY <2>1 DEF Reserved, Inside
  <2>3. /\ Positions' = 1 .. Len(contents) + 1 /\ contents'[1] = item[t]
        /\ \A i \in Positions : contents'[i + 1] = contents[i]
    BY <2>1, ConsSeq, EmptySeq DEF Positions
  <2>4. \A i \in Positions' : i # 1 => i - 1 \in Positions /\ contents'[i] = contents[i - 1]
    BY <2>3, EmptySeq DEF Positions
  <2>5. Positions' \subseteq Int
    BY <2>3
  <2>6. \A i, j \in Positions' : contents'[i] = contents'[j] => i = j
    BY <2>1, <2>3, <2>4, <2>5 DEF ItemInv
  <2>7. \A u \in Threads : Reserved(u)' => Reserved(u) /\ u # t
    BY <2>1, <2>2
  <2>8. \A i \in Positions' : contents'[i] \in allocated'
    BY <2>1, <2>3, <2>4 DEF ItemInv
  <2>9. \A u \in Threads : Reserved(u)' =>
          item'[u] \in allocated' /\ \A i \in Positions' : contents'[i] # item'[u]
    BY <2>1, <2>3, <2>4, <2>7 DEF ItemInv
  <2>10. \A u, v \in Threads : Reserved(u)' /\ Reserved(v)' /\ item'[u] = item'[v] => u = v
    BY <2>1, <2>7 DEF ItemInv
  <2>11. \A u \in Threads : item'[u] # NULL => Reserved(u)' \/ Inside(u)'
    BY <2>1, <2>2 DEF ItemInv
  <2> QED  BY <2>6, <2>8, <2>9, <2>10, <2>11 DEF ItemInv
<1> QED  BY <1>1, <1>2, <1>3, <1>4, <1>5, <1>6, <1>7, <1>8, <1>9 DEF ThreadStep

-----------------------------------------------------------------------------
(* What a thread inside can rely on: only its own call is under way. *)
LEMMA ListOfMine ==
  ASSUME ListInv, MutualExclusion, NEW t \in Threads, Inside(t)
  PROVE  /\ first = FirstOf(contents)
         /\ pc[t] # "finish" => last = LastOf(contents)
         /\ ~ FirstUndone(t) => \A i \in Positions : NextAt(i) /\ PrevAt(i)
         /\ pc[t] = "store" => AtStore(t)
         /\ pc[t] = "finish" => AtFinish(t)
<1>1. \A u \in Threads : pc[u] = "finish" => u = t
  BY DEF MutualExclusion, Inside
<1> QED  BY <1>1 DEF ListInv, FirstUndone

(* And what it has to leave behind. *)
LEMMA ListOfOne ==
  ASSUME NEW t \in Threads,
         \A u \in Threads \ {t} : pc'[u] \notin {"store", "finish"},
         first' = FirstOf(contents'),
         pc'[t] # "finish" => last' = LastOf(contents'),
         ~ FirstUndone(t)' => \A i \in Positions' : NextAt(i)' /\ PrevAt(i)',
         pc'[t] = "store" => AtStore(t)',
         pc'[t] = "finish" => AtFinish(t)'
  PROVE  ListInv'
<1>1. (\A u \in Threads : pc'[u] # "finish") => last' = LastOf(contents')
  OBVIOUS
<1>2. (\A u \in Threads : ~ FirstUndone(u)') => \A i \in Positions' : NextAt(i)' /\ PrevAt(i)'
  OBVIOUS
<1>3. \A u \in Threads : pc'[u] = "store" => AtStore(u)'
  OBVIOUS
<1>4. \A u \in Threads : pc'[u] = "finish" => AtFinish(u)'
  OBVIOUS
<1>5. FirstOf(contents)' = FirstOf(contents') /\ LastOf(contents)' = LastOf(contents')
  BY DEF FirstOf, LastOf
<1> QED  BY <1>1, <1>2, <1>3, <1>4, <1>5 DEF ListInv

(* A step of t that touches neither the list nor what other threads know   *)
(* of it, when t is not between its two steps.                             *)
LEMMA QuietKeepsList ==
  ASSUME ListInv, NEW t \in Threads, UNCHANGED <<first, last, next, prev, contents>>,
         \A u \in Threads \ {t} : /\ pc'[u] = pc[u] /\ op'[u] = op[u]
                                  /\ item'[u] = item[u] /\ link'[u] = link[u],
         pc[t] \notin {"store", "finish"}, pc'[t] \notin {"store", "finish"}
  PROVE  ListInv'
<1>1. /\ Positions' = Positions
      /\ \A i \in Positions : (NextAt(i)' <=> NextAt(i)) /\ (PrevAt(i)' <=> PrevAt(i))
      /\ FirstOf(contents)' = FirstOf(contents) /\ LastOf(contents)' = LastOf(contents)
  BY DEF Positions, NextAt, PrevAt, FirstOf, LastOf
<1>2. \A u \in Threads : /\ (pc'[u] = "finish" <=> pc[u] = "finish")
                         /\ (FirstUndone(u)' <=> FirstUndone(u))
  BY DEF FirstUndone
<1> QED  BY <1>1, <1>2 DEF ListInv, AtStore, AtFinish

(* Each step of a thread leaves what the next one, or the next call, finds. *)
LEMMA ThreadKeepsList ==
  ASSUME TypeOK, MutualExclusion, ItemInv, ListInv,
         NEW t \in Threads, Call(t) \/ ThreadStep(t)
  PROVE  ListInv'
<1> DEFINE n == Len(contents)
<1>T. /\ contents \in Seq(Nodes) /\ n \in Nat /\ (contents = <<>> <=> n = 0)
      /\ Positions = 1 .. n /\ \A i \in Positions : contents[i] \in Nodes
      /\ next \in [Nodes -> Nodes \cup {NULL}] /\ prev \in [Nodes -> Nodes \cup {NULL}]
      /\ NULL \notin Nodes
  <2>1. contents \in Seq(Nodes) /\ NULL \notin Nodes
    BY DEF TypeOK, NULL, Nodes
  <2>2. n \in Nat /\ (contents = <<>> <=> n = 0) /\ Positions = 1 .. n
    BY <2>1, EmptySeq DEF Positions
  <2>3. \A i \in Positions : contents[i] \in Nodes
    BY <2>1 DEF Positions
  <2> QED  BY <2>1, <2>2, <2>3 DEF TypeOK
<1>1. CASE Call(t) \/ Lock(t) \/ Spin(t) \/ Unlock(t)
  <2>1. UNCHANGED <<first, last, next, prev, contents>>
    BY <1>1 DEF Call, Lock, Spin, Unlock, pointers
  <2>2. \A u \in Threads \ {t} : /\ pc'[u] = pc[u] /\ op'[u] = op[u]
                                 /\ item'[u] = item[u] /\ link'[u] = link[u]
    BY <1>1 DEF Call, Lock, Spin, Unlock, Goto, locals, TypeOK
  <2>3. pc[t] \notin {"store", "finish"} /\ pc'[t] \notin {"store", "finish"}
    BY <1>1 DEF Call, Lock, Spin, Unlock, Goto, TypeOK
  <2> QED  BY <2>1, <2>2, <2>3, QuietKeepsList
<1>2. CASE Working(t)
  <2>1. /\ Inside(t) /\ op'[t] = op[t]
        /\ \A u \in Threads \ {t} : pc'[u] \notin {"store", "finish"}
    BY <1>2, WorkingStaysInside, Alone DEF Inside
  <2> DEFINE i == item[t]
  <2>2. /\ first = FirstOf(contents)
        /\ pc[t] # "finish" => last = LastOf(contents)
        /\ ~ FirstUndone(t) => \A k \in Positions : NextAt(k) /\ PrevAt(k)
        /\ pc[t] = "store" => AtStore(t)
        /\ pc[t] = "finish" => AtFinish(t)
    BY <2>1, ListOfMine
  <2>3. pc[t] \in {"store", "finish"} => i \in Nodes
    BY ItemIsNode
  <2>4. Reserved(t) => \A k \in Positions : contents[k] # i
    BY DEF ItemInv
  <2>5. \A j, k \in Positions : contents[j] = contents[k] => j = k
    BY DEF ItemInv
  <2>6. CASE BeginInsert(t) \/ BeginDequeue(t)
    <3>1. /\ UNCHANGED <<first, last, next, prev, contents>>
          /\ pc[t] = "begin" /\ pc'[t] \in {"store", "unlock"}
      BY <2>6 DEF BeginInsert, BeginDequeue, Goto, pointers, TypeOK
    <3>2. \A k \in Positions' : NextAt(k)' /\ PrevAt(k)'
      BY <2>2, <3>1 DEF NextAt, PrevAt, Positions, FirstUndone
    <3>3. pc'[t] = "store" => AtStore(t)'
      BY <2>2, <2>6, <3>1 DEF BeginInsert, BeginDequeue, Goto, TypeOK, AtStore, locals, Front,
         FirstOf, LastOf
    <3> QED  BY <2>1, <2>2, <3>1, <3>2, <3>3, ListOfOne DEF FirstUndone
  <2>7. CASE Unlink(t)
    <3>1. /\ op[t] = "dequeue" /\ n > 0 /\ i = contents[1] /\ i \in Nodes /\ item' = item
          /\ pc'[t] = "finish" /\ pc[t] = "store" /\ last' = last
      BY <1>T, <2>2, <2>3, <2>7 DEF Unlink, Goto, AtStore, locals, TypeOK
    <3>2. /\ Len(contents') = n - 1 /\ (contents' = <<>> <=> n = 1)
          /\ Positions' = 1 .. n - 1
          /\ \A k \in 1 .. n - 1 : contents'[k] = contents[k + 1]
      <4>1. contents' = Tail(contents)
        BY <1>T, <2>7, <3>1 DEF Unlink
      <4>2. /\ contents' \in Seq(Nodes) /\ Len(contents') = n - 1
            /\ \A k \in 1 .. n - 1 : contents'[k] = contents[k + 1]
        BY <1>T, <3>1, <4>1, TailSeq
      <4>3. contents' = <<>> <=> Len(contents') = 0
        BY <4>2, EmptySeq
      <4> QED  BY <1>T, <4>2, <4>3 DEF Positions
    <3>3. /\ next[i] = (IF n = 1 THEN NULL ELSE contents[2]) /\ prev[i] = NULL
          /\ \A k \in 1 .. n : NextAt(k) /\ PrevAt(k)
      <4>1. \A k \in 1 .. n : NextAt(k) /\ PrevAt(k)
        BY <1>T, <2>2, <3>1 DEF FirstUndone
      <4>2. NextAt(1) /\ PrevAt(1)
        BY <1>T, <3>1, <4>1
      <4> QED  BY <1>T, <3>1, <4>1, <4>2 DEF NextAt, PrevAt
    <3>4. next' = next /\ first' = next[i]
      BY <2>2, <2>7, <3>1, <3>3 DEF Unlink, Point, FirstOf
    <3>5. prev' = IF n = 1 THEN prev ELSE [prev EXCEPT ![contents[2]] = NULL]
      BY <1>T, <2>7, <3>1, <3>3 DEF Unlink, Point
    <3>S. n = 1 \/ n > 1
      <4>1. n \in Nat /\ n > 0
        BY <1>T, <3>1
      <4> HIDE DEF n
      <4> QED  BY <4>1
    <3>6. first' = FirstOf(contents')
      <4>1. CASE n = 1
        BY <1>T, <3>1, <3>2, <3>3, <3>4, <4>1, EmptySeq, TailSeq DEF FirstOf
      <4>2. CASE n > 1
        <5>1. contents' # <<>> /\ contents'[1] = contents[2]
          <6>1. 1 \in 1 .. n - 1 /\ 1 + 1 = 2
            BY <1>T, <4>2
          <6> QED  BY <1>T, <3>2, <4>2, <6>1
        <5> QED  BY <1>T, <3>1, <3>2, <3>3, <3>4, <4>2, <5>1 DEF FirstOf
      <4> QED  BY <3>S, <4>1, <4>2
    <3>7. AtFinish(t)'
      <4>1. prev'[i] = NULL
        BY <1>T, <3>1, <3>3, <3>5
      <4>2. last = contents[n]
        BY <1>T, <2>2, <3>1 DEF LastOf
      <4>3. last' = (IF contents' = <<>> THEN i ELSE LastOf(contents'))
        <5>1. CASE n = 1
          BY <1>T, <3>1, <3>2, <4>2, <5>1, EmptySeq, TailSeq
        <5>2. CASE n > 1
          <6>1. contents' # <<>> /\ contents'[n - 1] = contents[n]
            <7>1. n - 1 \in 1 .. n - 1 /\ (n - 1) + 1 = n
              BY <1>T, <5>2
            <7> QED  BY <1>T, <3>2, <5>2, <7>1
          <6> QED  BY <3>1, <3>2, <4>2, <6>1 DEF LastOf
        <5> QED  BY <3>S, <5>1, <5>2
      <4> QED  BY <2>1, <3>1, <4>1, <4>3 DEF AtFinish, LastOf
    <3>8. \A k \in Positions' : NextAt(k)' /\ PrevAt(k)'
      <4> SUFFICES ASSUME NEW k \in 1 .. n - 1 PROVE NextAt(k)' /\ PrevAt(k)'
        BY <3>2
      <4>1. /\ k + 1 \in 1 .. n /\ (k = n - 1 <=> k + 1 = n) /\ (k = 1 <=> k + 1 = 2)
            /\ contents'[k] = contents[k + 1] /\ NextAt(k + 1) /\ PrevAt(k + 1)
        BY <1>T, <3>2, <3>3
      <4>2. k # n - 1 => contents'[k + 1] = contents[(k + 1) + 1]
        BY <1>T, <3>2
      <4>3. NextAt(k)'
        BY <3>2, <3>4, <4>1, <4>2 DEF NextAt
      <4>4. k # 1 => contents'[k - 1] = contents[(k + 1) - 1]
        BY <1>T, <3>2
      <4>5. prev'[contents[k + 1]] = IF k = 1 THEN NULL ELSE prev[contents[k + 1]]
        <5>1. n > 1 /\ contents[2] \in Nodes /\ contents[k + 1] \in Nodes
          BY <1>T, <4>1
        <5>2. contents[2] = contents[k + 1] <=> k = 1
          BY <1>T, <2>5, <4>1, <5>1
        <5> QED  BY <1>T, <3>5, <5>1, <5>2
      <4>6. PrevAt(k)'
        BY <3>2, <4>1, <4>4, <4>5 DEF PrevAt
      <4> QED  BY <4>3, <4>6
    <3> QED  BY <2>1, <3>1, <3>6, <3>7, <3>8, ListOfOne
  <2>8. CASE UnlinkLast(t)
    <3>1. /\ UNCHANGED <<first, next, prev, contents>> /\ pc'[t] = "unlock" /\ Reserved(t)
          /\ op[t] = "dequeue" /\ pc[t] = "finish" /\ last' = (IF last = i THEN prev[i] ELSE last)
      BY <2>8 DEF UnlinkLast, Goto, Reserved, TypeOK
    <3>2. last' = LastOf(contents')
      BY <1>T, <2>2, <2>4, <3>1 DEF AtFinish, LastOf
    <3>3. \A k \in Positions' : NextAt(k)' /\ PrevAt(k)'
      BY <2>2, <3>1 DEF NextAt, PrevAt, Positions, FirstUndone
    <3> QED  BY <2>1, <2>2, <3>1, <3>2, <3>3, ListOfOne
  <2>9. CASE StoreLast(t)
    <3>1. /\ UNCHANGED <<first, next, prev, contents, item, link>> /\ pc'[t] = "finish"
          /\ op[t] = "insert_last" /\ pc[t] = "store" /\ last' = i
      BY <2>9 DEF StoreLast, Goto, locals, TypeOK
    <3>2. AtFinish(t)'
      BY <2>1, <2>2, <3>1 DEF AtFinish, AtStore
    <3>3. \A k \in Positions' : NextAt(k)' /\ PrevAt(k)'
      BY <2>2, <3>1 DEF NextAt, PrevAt, Positions, FirstUndone
    <3> QED  BY <2>1, <2>2, <3>1, <3>2, <3>3, ListOfOne
  <2>10. CASE ChainLast(t)
    <3>1. /\ op[t] = "insert_last" /\ i \in Nodes /\ pc'[t] = "unlock" /\ pc[t] = "finish"
          /\ last' = last /\ Reserved(t) /\ last = i /\ link[t] = LastOf(contents)
      BY <2>2, <2>3, <2>10 DEF ChainLast, Goto, AtFinish, Reserved, TypeOK
    <3>2. /\ contents' = Append(contents, i) /\ Len(contents') = n + 1
          /\ Positions' = 1 .. n + 1 /\ contents'[n + 1] = i
          /\ \A k \in 1 .. n : contents'[k] = contents[k]
      BY <1>T, <2>10, <3>1, AppendSeq DEF ChainLast, Positions
    <3>3. \A k \in 1 .. n : NextAt(k) /\ PrevAt(k) /\ contents[k] # i /\ contents[k] \in Nodes
      BY <1>T, <2>2, <2>4, <3>1 DEF FirstUndone
    <3>4. first' = FirstOf(contents') /\ last' = LastOf(contents')
      BY <1>T, <2>2, <2>10, <3>1, <3>2 DEF ChainLast, FirstOf, LastOf
    <3>5. prev' = [prev EXCEPT ![i] = IF n = 0 THEN NULL ELSE contents[n]]
      BY <1>T, <2>10, <3>1 DEF ChainLast, LastOf
    <3>6. /\ next'[i] = NULL /\ \A k \in 1 .. n - 1 : next'[contents[k]] = next[contents[k]]
          /\ n > 0 => next'[contents[n]] = i
      BY <1>T, <2>5, <2>10, <3>1, <3>3 DEF ChainLast, LastOf, Point
    <3>7. \A k \in Positions' : NextAt(k)' /\ PrevAt(k)'
      BY <1>T, <3>1, <3>2, <3>3, <3>5, <3>6 DEF NextAt, PrevAt
    <3> QED  BY <2>1, <3>1, <3>4, <3>7, ListOfOne
  <2>11. CASE StoreFirst(t)
    <3>1. /\ UNCHANGED <<last, next, prev, item, link>> /\ pc'[t] = "finish" /\ first' = i
          /\ op[t] = "insert_first" /\ pc[t] = "store" /\ i \in Nodes
          /\ link[t] = FirstOf(contents)
      BY <2>2, <2>3, <2>11 DEF StoreFirst, Goto, locals, TypeOK, AtStore
    <3>2. /\ contents' = <<i>> \o contents /\ Len(contents') = n + 1
          /\ Positions' = 1 .. n + 1 /\ contents'[1] = i
          /\ \A k \in 1 .. n : contents'[k + 1] = contents[k]
      BY <1>T, <2>11, <3>1, ConsSeq DEF StoreFirst, Positions
    <3>3. \A k \in 2 .. n + 1 : k - 1 \in 1 .. n /\ contents'[k] = contents[k - 1]
      BY <1>T, <3>2
    <3>4. \A k \in 1 .. n : NextAt(k) /\ PrevAt(k)
      BY <1>T, <2>2, <3>1 DEF FirstUndone
    <3>5. first' = FirstOf(contents')
      BY <1>T, <3>1, <3>2 DEF FirstOf
    <3>6. \A k \in Positions' : (k > 1 => NextAt(k)') /\ (k > 2 => PrevAt(k)')
      BY <1>T, <3>1, <3>2, <3>3, <3>4 DEF NextAt, PrevAt
    <3>7. AtFinish(t)'
      BY <1>T, <2>1, <2>2, <3>1, <3>2, <3>3, <3>6 DEF AtFinish, FirstOf, LastOf
    <3>8. FirstUndone(t)'
      BY <2>1, <3>1 DEF FirstUndone
    <3> QED  BY <2>1, <3>1, <3>5, <3>7, <3>8, ListOfOne
  <2>12. CASE ChainFirst(t)
    <3>1. /\ UNCHANGED <<first, contents>> /\ pc'[t] = "unlock" /\ op[t] = "insert_first"
          /\ pc[t] = "finish" /\ i \in Nodes /\ n > 0 /\ i = contents[1]
          /\ link[t] = (IF n = 1 THEN NULL ELSE contents[2])
          /\ last = (IF n = 1 THEN NULL ELSE contents[n])
      BY <1>T, <2>2, <2>3, <2>12 DEF ChainFirst, Goto, TypeOK, AtFinish, LastOf
    <3>2. \A k \in 1 .. n : (k > 1 => NextAt(k) /\ contents[k] # i) /\ (k > 2 => PrevAt(k))
      BY <1>T, <2>2, <2>5, <3>1 DEF AtFinish
    <3>3. last' = LastOf(contents')
      BY <1>T, <2>12, <3>1 DEF ChainFirst, LastOf
    <3>4. next' = [next EXCEPT ![i] = IF n = 1 THEN NULL ELSE contents[2]]
      BY <2>12, <3>1 DEF ChainFirst
    <3>5. /\ prev'[i] = NULL /\ \A k \in 3 .. n : prev'[contents[k]] = prev[contents[k]]
          /\ n > 1 => prev'[contents[2]] = i
      BY <1>T, <2>5, <2>12, <3>1, <3>2 DEF ChainFirst, Point
    <3>6. \A k \in Positions : NextAt(k)' /\ PrevAt(k)'
      <4> SUFFICES ASSUME NEW k \in 1 .. n PROVE NextAt(k)' /\ PrevAt(k)'
        BY <1>T
      <4>1. NextAt(k)'
        <5>1. CASE k = 1
          BY <1>T, <3>1, <3>4, <5>1 DEF NextAt
        <5>2. CASE k # 1
          <6>1. k > 1 /\ contents[k] # i /\ contents[k] \in Nodes /\ NextAt(k)
            BY <1>T, <3>2, <5>2
          <6>2. next'[contents[k]] = next[contents[k]]
            BY <1>T, <3>4, <6>1
          <6> QED  BY <3>1, <6>1, <6>2 DEF NextAt
        <5> QED  BY <5>1, <5>2
      <4>2. PrevAt(k)'
        BY <1>T, <3>1, <3>2, <3>5 DEF PrevAt
      <4> QED  BY <4>1, <4>2
    <3>7. Positions' = Positions
      BY <3>1 DEF Positions
    <3> QED  BY <2>1, <2>2, <3>1, <3>3, <3>6, <3>7, ListOfOne
  <2> QED  BY <1>2, <2>6, <2>7, <2>8, <2>9, <2>10, <2>11, <2>12 DEF Working
<1> QED  BY <1>1, <1>2 DEF ThreadStep, Working

-----------------------------------------------------------------------------
(* A step that touches no list, no item and no thread's place. *)
LEMMA OthersKeepList ==
  ASSUME ItemInv, ListInv, UNCHANGED <<pointers, pc, locals, allocated, contents>>
  PROVE  ItemInv' /\ ListInv'
<1> USE DEF pointers, locals
<1>1. /\ Positions' = Positions
      /\ FirstOf(contents)' = FirstOf(contents) /\ LastOf(contents)' = LastOf(contents)
      /\ \A i \in Positions : (NextAt(i)' <=> NextAt(i)) /\ (PrevAt(i)' <=> PrevAt(i))
  BY DEF Positions, FirstOf, LastOf, NextAt, PrevAt
<1>2. \A t \in Threads : /\ (Reserved(t)' <=> Reserved(t)) /\ (Inside(t)' <=> Inside(t))
                         /\ (FirstUndone(t)' <=> FirstUndone(t))
  BY DEF Reserved, Inside, FirstUndone
<1>3. \A t \in Threads : (AtStore(t)' <=> AtStore(t)) /\ (AtFinish(t)' <=> AtFinish(t))
  BY <1>1 DEF AtStore, AtFinish
<1>4. ItemInv'
  BY <1>1, <1>2 DEF ItemInv
<1>5. ListInv'
  BY <1>1, <1>2, <1>3 DEF ListInv
<1> QED  BY <1>4, <1>5

(* The invariant is inductive. *)
LEMMA StepKeepsIInv == IInv /\ [Step]_vars => IInv'
<1> SUFFICES ASSUME IInv, [Step]_vars PROVE IInv'
  OBVIOUS
<1> USE DEF IInv
<1>1. ASSUME NEW t \in Threads, Call(t) \/ ThreadStep(t) PROVE IInv'
  <2>1. UNCHANGED observer
    BY <1>1 DEF Call, ThreadStep, Lock, Spin, BeginInsert, BeginDequeue, Unlink, UnlinkLast,
       StoreLast, ChainLast, StoreFirst, ChainFirst, Unlock
  <2>2. ObserverInv'
    BY <2>1 DEF ObserverInv, observer
  <2> QED  BY <1>1, <2>2, ThreadKeepsType, ThreadKeepsLock, ThreadKeepsItems, ThreadKeepsList
<1>2. CASE ReadFirst \/ ReadLast \/ SetDone \/ UNCHANGED vars
  <2>1. /\ UNCHANGED <<pointers, pc, locals, allocated, contents>>
        /\ UNCHANGED <<locks, status>>
    BY <1>2 DEF ReadFirst, ReadLast, SetDone, vars
  <2>2. ItemInv' /\ ListInv'
    BY <2>1, OthersKeepList
  <2>3. LockInv' /\ MutualExclusion'
    BY <2>1 DEF LockInv, MutualExclusion, Inside, locks, locals
  <2>4. TypeOK'
    BY <1>2, <2>1 DEF ReadFirst, ReadLast, SetDone, vars, TypeOK, pointers, locks, locals, observer
  <2>5. first = NULL => contents = <<>>
    BY EmptySeq DEF ListInv, FirstOf, TypeOK, NULL, Nodes
  <2>6. ObserverInv'
    BY <1>2, <2>5 DEF ReadFirst, ReadLast, SetDone, vars, ObserverInv, observer
  <2> QED  BY <2>2, <2>3, <2>4, <2>6
<1>3. CASE SetLockBetweenCalls
  <2>1. /\ UNCHANGED <<pointers, pc, locals, allocated, contents, test_lock, done, status>>
        /\ UNCHANGED observer /\ use_lock' = 1 /\ use_lock = 0 /\ pc[Owner] = "idle"
    BY <1>3 DEF SetLockBetweenCalls, SetLock
  <2>2. ItemInv' /\ ListInv'
    BY <2>1, OthersKeepList
  <2>3. \A t \in Threads : pc'[t] = "idle"
    BY <2>1 DEF LockInv
  <2>4. LockInv' /\ MutualExclusion'
    BY <2>1, <2>3 DEF LockInv, MutualExclusion, Inside
  <2>5. TypeOK' /\ ObserverInv'
    BY <2>1 DEF TypeOK, ObserverInv, pointers, locals, observer
  <2> QED  BY <2>2, <2>4, <2>5
<1> QED  BY <1>1, <1>2, <1>3 DEF Step, Steps

(* The inductive invariant holds throughout. *)
LEMMA AlwaysIInv == Spec => []IInv
<1>1. Spec => Init /\ [][Step]_vars
  BY PTL DEF Spec, Step
<1> QED  BY <1>1, InitIInv, StepKeepsIInv, PTL

(* The fields of a list and the locals of its callers keep their types.    *)
THEOREM TypeCorrect == Spec => []TypeOK
<1>1. IInv => TypeOK
  BY DEF IInv
<1> QED  BY <1>1, AlwaysIInv, PTL

(* list_enqueue, list_insert_first and list_dequeue never overlap, though  *)
(* each decides from use_lock, twice, whether there is a lock to respect.  *)
THEOREM Exclusive == Spec => []MutualExclusion
<1>1. IInv => MutualExclusion
  BY DEF IInv
<1> QED  BY <1>1, AlwaysIInv, PTL

(* Between two operations first, last and both chains of pointers are one  *)
(* sequence of items that are not freed.                                   *)
THEOREM AlwaysIntact == Spec => []Intact
<1>1. ASSUME IInv, \A t \in Threads : ~ Inside(t)
      PROVE  LET n == Len(contents) IN
             /\ first = (IF n = 0 THEN NULL ELSE contents[1])
             /\ last  = (IF n = 0 THEN NULL ELSE contents[n])
             /\ \A i \in 1 .. n :
                  /\ contents[i] \in allocated
                  /\ next[contents[i]] = (IF i = n THEN NULL ELSE contents[i + 1])
                  /\ prev[contents[i]] = (IF i = 1 THEN NULL ELSE contents[i - 1])
  <2>1. \A t \in Threads : pc[t] # "finish" /\ ~ FirstUndone(t)
    BY <1>1 DEF Inside, FirstUndone
  <2>2. contents = <<>> <=> Len(contents) = 0
    BY <1>1, EmptySeq DEF IInv, TypeOK
  <2>3. /\ first = FirstOf(contents) /\ last = LastOf(contents)
        /\ \A i \in Positions : NextAt(i) /\ PrevAt(i) /\ contents[i] \in allocated
    BY <1>1, <2>1 DEF IInv, ListInv, ItemInv
  <2> QED  BY <2>2, <2>3 DEF FirstOf, LastOf, NextAt, PrevAt, Positions
<1>2. IInv => Intact
  BY <1>1 DEF Intact
<1> QED  BY <1>2, AlwaysIInv, PTL

(* No packet is given to two scanners, and each gets the oldest.           *)
THEOREM EachGetsTheFirst == Spec => []DequeuesFirst
<1>1. ASSUME IInv, NEW t \in Threads, pc[t] = "store", op[t] = "dequeue"
      PROVE  /\ contents # <<>> /\ item[t] = contents[1]
             /\ \A u \in Threads \ {t} : item[u] # item[t]
  <2>1. contents # <<>> /\ item[t] = contents[1]
    BY <1>1 DEF IInv, ListInv, AtStore
  <2>2. 1 \in Positions /\ item[t] # NULL
    <3>1. contents \in Seq(Nodes) /\ NULL \notin Nodes
      BY <1>1 DEF IInv, TypeOK, NULL, Nodes
    <3>2. 1 \in Positions
      BY <2>1, <3>1, EmptySeq DEF Positions
    <3>3. contents[1] \in Nodes
      BY <3>1, <3>2 DEF Positions
    <3> QED  BY <2>1, <3>1, <3>2, <3>3
  <2>3. \A u \in Threads \ {t} : ~ Inside(u)
    BY <1>1, Alone DEF IInv, Inside
  <2>4. \A u \in Threads \ {t} : item[u] = item[t] => Reserved(u)
    BY <1>1, <2>2, <2>3 DEF IInv, ItemInv
  <2>5. \A u \in Threads : Reserved(u) => item[u] # contents[1]
    BY <1>1, <2>2 DEF IInv, ItemInv
  <2> QED  BY <2>1, <2>4, <2>5
<1>2. IInv => DequeuesFirst
  BY <1>1 DEF DequeuesFirst
<1> QED  BY <1>2, AlwaysIInv, PTL

(* list_is_empty, which reads first and last without the lock, says yes    *)
(* only of a list that was empty after it had been called.                 *)
THEOREM EmptyIsTrue == Spec => []EmptyAnswer
<1>1. IInv => EmptyAnswer
  BY DEF IInv, ObserverInv, EmptyAnswer
<1> QED  BY <1>1, AlwaysIInv, PTL
===============================================================================
