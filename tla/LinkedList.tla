------------------------------ MODULE LinkedList ------------------------------
(***************************************************************************)
(* A packet list: DumpReader/BoundedBuffer/LinkedList.c without            *)
(* USE_MUTEX_LOCKS.  A doubly linked list whose operations take a test-    *)
(* and-set lock, but only while use_lock is set, and which can be asked    *)
(* without the lock whether it is empty.                                   *)
(*                                                                         *)
(* The owner is the scanner (before: the reader) whose list it is; it      *)
(* inserts and dequeues.  Other threads touch it only once the manager has *)
(* set use_lock (Mca2, PartnerReady): the scanners that steal, and they    *)
(* dequeue.                                                                *)
(***************************************************************************)
EXTENDS Integers, Sequences

CONSTANTS
  Threads,     (* scanners that operate on the list                        *)
  Owner,
  NumNodes     (* list items that malloc can hand out                      *)

ASSUME ListAssumption == Owner \in Threads /\ NumNodes \in Nat

VARIABLES
  first, last, next, prev,    (* the list; prev and next by item           *)
  use_lock, test_lock, done,
  pc, op, lock, item, link, status, (* per thread: its call, its locals    *)
  allocated,                  (* items not freed                           *)
  contents,                   (* history: what should be in the list       *)
  opc, sawFirst, wasEmpty     (* the manager inside list_is_empty          *)

pointers == <<first, last, next, prev>>
locks    == <<use_lock, test_lock>>
locals   == <<op, lock, item, link>>
observer == <<opc, sawFirst, wasEmpty>>
vars == <<pointers, locks, done, pc, locals, status, allocated, contents, observer>>

NULL  == 0
Nodes == 1 .. NumNodes
Ops   == {"dequeue", "insert_last", "insert_first"}

Goto(t, label) == pc' = [pc EXCEPT ![t] = label]

Init ==
  /\ first = NULL /\ last = NULL
  /\ next = [n \in Nodes |-> NULL] /\ prev = [n \in Nodes |-> NULL]
  /\ use_lock = 0 /\ test_lock = 0 /\ done = FALSE
  /\ pc = [t \in Threads |-> "idle"]
  /\ op = [t \in Threads |-> "dequeue"]
  /\ lock = [t \in Threads |-> 0]
  /\ item = [t \in Threads |-> NULL]
  /\ link = [t \in Threads |-> NULL]
  /\ status = [t \in Threads |-> "none"]
  /\ allocated = {} /\ contents = <<>>
  /\ opc = "idle" /\ sawFirst = NULL /\ wasEmpty = FALSE

-----------------------------------------------------------------------------
(* A call.  A thief only dequeues (Scanner.c:483).  An insertion brings a  *)
(* new item (malloc); nothing is enqueued at the end after list_set_done.  *)
Call(t) ==
  /\ pc[t] = "idle"
  /\ t = Owner \/ use_lock = 1
  /\ \/ /\ op' = [op EXCEPT ![t] = "dequeue"]
        /\ UNCHANGED <<item, allocated>>
     \/ \E o \in {"insert_last", "insert_first"}, n \in Nodes \ allocated :
          /\ t = Owner
          /\ o = "insert_last" => ~ done
          /\ op' = [op EXCEPT ![t] = o]
          /\ item' = [item EXCEPT ![t] = n]
          /\ allocated' = allocated \cup {n}
  /\ status' = [status EXCEPT ![t] = "none"]
  /\ Goto(t, "lock")
  /\ UNCHANGED <<pointers, locks, done, lock, link, contents, observer>>

(* if (list->use_lock) while (__sync_lock_test_and_set(...)) *)
Lock(t) ==
  /\ pc[t] = "lock"
  /\ lock' = [lock EXCEPT ![t] = use_lock]
  /\ Goto(t, IF use_lock = 1 THEN "spin" ELSE "begin")
  /\ UNCHANGED <<pointers, locks, done, op, item, link, status, allocated, contents, observer>>

Spin(t) ==
  /\ pc[t] = "spin"
  /\ test_lock = 0
  /\ test_lock' = 1
  /\ Goto(t, "begin")
  /\ UNCHANGED <<pointers, use_lock, done, locals, status, allocated, contents, observer>>

(* `prev = list->last', `next = list->first'. *)
BeginInsert(t) ==
  /\ pc[t] = "begin"
  /\ op[t] # "dequeue"
  /\ link' = [link EXCEPT ![t] = IF op[t] = "insert_last" THEN last ELSE first]
  /\ Goto(t, "store")
  /\ UNCHANGED <<pointers, locks, done, op, lock, item, status, allocated, contents, observer>>

(* Mutant: the item that came last. *)
Back  == last
Front == first

(* Lines 161-191. *)
BeginDequeue(t) ==
  /\ pc[t] = "begin"
  /\ op[t] = "dequeue"
  /\ IF first = NULL
       THEN /\ status' = [status EXCEPT ![t] = IF done THEN "FAIL" ELSE "EMPTY"]
            /\ Goto(t, "unlock")
            /\ UNCHANGED item
       ELSE /\ item' = [item EXCEPT ![t] = Front]
            /\ Goto(t, "store")
            /\ UNCHANGED status
  /\ UNCHANGED <<pointers, locks, done, op, lock, link, allocated, contents, observer>>

(* Mutant: the neighbour keeps its pointer. *)
NoPoint(f, n, to) == f

(* A neighbour's pointer, if there is a neighbour. *)
Point(f, n, to) == IF n = NULL THEN f ELSE [f EXCEPT ![n] = to]

(* list_delete_item_lock, lines 84-90, then 91-101. *)
Unlink(t) ==
  LET i == item[t] IN
  /\ pc[t] = "store"
  /\ op[t] = "dequeue"
  /\ next' = Point(next, prev[i], next[i])
  /\ prev' = Point(prev, next[i], prev[i])
  /\ first' = IF first = i THEN next[i] ELSE first
  /\ contents' = IF contents = <<>> THEN <<>> ELSE Tail(contents)
  /\ Goto(t, "finish")
  /\ UNCHANGED <<last, locks, done, locals, status, allocated, observer>>

UnlinkLast(t) ==
  /\ pc[t] = "finish"
  /\ op[t] = "dequeue"
  /\ last' = IF last = item[t] THEN prev[item[t]] ELSE last
  /\ allocated' = allocated \ {item[t]}
  /\ status' = [status EXCEPT ![t] = "SUCCESS"]
  /\ Goto(t, "unlock")
  /\ UNCHANGED <<first, next, prev, locks, done, locals, contents, observer>>

(* list_insert_last_lock, line 50, then 51-57. *)
StoreLast(t) ==
  /\ pc[t] = "store"
  /\ op[t] = "insert_last"
  /\ last' = item[t]
  /\ Goto(t, "finish")
  /\ UNCHANGED <<first, next, prev, locks, done, locals, status, allocated, contents, observer>>

ChainLast(t) ==
  /\ pc[t] = "finish"
  /\ op[t] = "insert_last"
  /\ first' = IF first = NULL THEN item[t] ELSE first
  /\ prev' = [prev EXCEPT ![item[t]] = link[t]]
  /\ next' = Point([next EXCEPT ![item[t]] = NULL], link[t], item[t])
  /\ contents' = Append(contents, item[t])
  /\ Goto(t, "unlock")
  /\ UNCHANGED <<last, locks, done, locals, status, allocated, observer>>

(* list_insert_first, line 230, then 231-237. *)
StoreFirst(t) ==
  /\ pc[t] = "store"
  /\ op[t] = "insert_first"
  /\ first' = item[t]
  /\ contents' = <<item[t]>> \o contents
  /\ Goto(t, "finish")
  /\ UNCHANGED <<last, next, prev, locks, done, locals, status, allocated, observer>>

ChainFirst(t) ==
  /\ pc[t] = "finish"
  /\ op[t] = "insert_first"
  /\ last' = IF last = NULL THEN item[t] ELSE last
  /\ next' = [next EXCEPT ![item[t]] = link[t]]
  /\ prev' = Point([prev EXCEPT ![item[t]] = NULL], link[t], item[t])
  /\ Goto(t, "unlock")
  /\ UNCHANGED <<first, locks, done, locals, status, allocated, contents, observer>>

(* Mutant: the early returns keep the lock. *)
LockAfterFind(t) == IF use_lock = 1 /\ status[t] = "SUCCESS" THEN 0 ELSE test_lock

(* list_insert_last_lock unlocks if it locked, the others look at use_lock *)
(* again.                                                                  *)
LockAfter(t) ==
  IF (IF op[t] = "insert_last" THEN lock[t] ELSE use_lock) = 1 THEN 0 ELSE test_lock

(* The call returns; its locals die. *)
Unlock(t) ==
  /\ pc[t] = "unlock"
  /\ test_lock' = LockAfter(t)
  /\ item' = [item EXCEPT ![t] = NULL]
  /\ link' = [link EXCEPT ![t] = NULL]
  /\ lock' = [lock EXCEPT ![t] = 0]
  /\ Goto(t, "idle")
  /\ UNCHANGED <<pointers, use_lock, done, op, status, allocated, contents, observer>>

ThreadStep(t) ==
  \/ Lock(t) \/ Spin(t) \/ BeginInsert(t) \/ BeginDequeue(t) \/ Unlink(t)
  \/ UnlinkLast(t) \/ StoreLast(t) \/ ChainLast(t) \/ StoreFirst(t)
  \/ ChainFirst(t) \/ Unlock(t)

-----------------------------------------------------------------------------
(* Mutant: only the last item is looked for. *)
SkipFirst ==
  /\ opc \in {"idle", "empty", "not_empty"}
  /\ sawFirst' = first
  /\ wasEmpty' = (contents = <<>>)
  /\ opc' = "last"
  /\ UNCHANGED <<pointers, locks, done, pc, locals, status, allocated, contents>>

(* list_is_empty, called by the manager without the lock: first, and last  *)
(* only when first was NULL.                                               *)
ReadFirst ==
  /\ opc \in {"idle", "empty", "not_empty"}
  /\ sawFirst' = first
  /\ wasEmpty' = (contents = <<>>)
  /\ opc' = IF first = NULL THEN "last" ELSE "not_empty"
  /\ UNCHANGED <<pointers, locks, done, pc, locals, status, allocated, contents>>

ReadLast ==
  /\ opc = "last"
  /\ opc' = IF last = NULL THEN "empty" ELSE "not_empty"
  /\ UNCHANGED <<pointers, locks, done, pc, locals, status, allocated, contents,
                 sawFirst, wasEmpty>>

(* list_set_done, by the reader when no enqueue is under way. *)
SetDone ==
  /\ ~ done
  /\ \A t \in Threads : pc[t] = "idle" \/ op[t] # "insert_last"
  /\ done' = TRUE
  /\ UNCHANGED <<pointers, locks, pc, locals, status, allocated, contents, observer>>

(* list_set_lock(list, 1), once, by the manager.  It does not look whether *)
(* the owner is in the middle of an operation.                             *)
SetLock ==
  /\ use_lock = 0
  /\ use_lock' = 1
  /\ UNCHANGED <<pointers, test_lock, done, pc, locals, status, allocated, contents, observer>>

SetLockBetweenCalls == pc[Owner] = "idle" /\ SetLock

Steps ==
  \/ \E t \in Threads : Call(t) \/ ThreadStep(t)
  \/ ReadFirst \/ ReadLast \/ SetDone

(* The list when the switch happens not to fall into an operation ...      *)
Spec ==
  /\ Init
  /\ [][Steps \/ SetLockBetweenCalls]_vars
  /\ \A t \in Threads : WF_vars(ThreadStep(t))

(* ... and as it is. *)
FreeSpec == Init /\ [][Steps \/ SetLock]_vars

-----------------------------------------------------------------------------
Inside(t) == pc[t] \in {"begin", "store", "finish", "unlock"}

(* The types of the list's fields and of the threads' locals. *)
TypeOK ==
  /\ {first, last} \subseteq Nodes \cup {NULL}
  /\ next \in [Nodes -> Nodes \cup {NULL}] /\ prev \in [Nodes -> Nodes \cup {NULL}]
  /\ use_lock \in {0, 1} /\ test_lock \in {0, 1} /\ done \in BOOLEAN
  /\ pc \in [Threads -> {"idle", "lock", "spin", "begin", "store", "finish", "unlock"}]
  /\ op \in [Threads -> Ops] /\ lock \in [Threads -> {0, 1}]
  /\ item \in [Threads -> Nodes \cup {NULL}]
  /\ link \in [Threads -> Nodes \cup {NULL}]
  /\ status \in [Threads -> {"none", "SUCCESS", "FAIL", "EMPTY"}]
  /\ allocated \subseteq Nodes
  /\ contents \in Seq(Nodes)
  /\ opc \in {"idle", "last", "empty", "not_empty"}
  /\ sawFirst \in Nodes \cup {NULL} /\ wasEmpty \in BOOLEAN

(* At most one thread is between taking and releasing the lock, even when  *)
(* its release decides again, from use_lock, whether it has one.           *)
MutualExclusion == \A t, u \in Threads : Inside(t) /\ Inside(u) => t = u

(* When no operation is under way the chains of next and of prev pointers  *)
(* both are the list, end in NULL, and hold no freed item.                 *)
Intact ==
  (\A t \in Threads : ~ Inside(t)) =>
    LET n == Len(contents) IN
    /\ first = (IF n = 0 THEN NULL ELSE contents[1])
    /\ last  = (IF n = 0 THEN NULL ELSE contents[n])
    /\ \A i \in 1 .. n :
         /\ contents[i] \in allocated
         /\ next[contents[i]] = (IF i = n THEN NULL ELSE contents[i + 1])
         /\ prev[contents[i]] = (IF i = 1 THEN NULL ELSE contents[i - 1])

(* A dequeue is about to unlink the item that is first in the list, and no *)
(* two dequeues have got the same one.                                     *)
DequeuesFirst ==
  \A t \in Threads : pc[t] = "store" /\ op[t] = "dequeue" =>
    /\ contents # <<>> /\ item[t] = contents[1]
    /\ \A u \in Threads \ {t} : item[u] # item[t]

(* "Dequeues first element from the list and returns its data"             *)
(* (LinkedList.h:69): each element is dequeued once, so no two dequeues    *)
(* are about to unlink the same item.                                      *)
Unlinking(t) == pc[t] = "store" /\ op[t] = "dequeue"

DequeuedOnce ==
  \A t, u \in Threads : Unlinking(t) /\ Unlinking(u) /\ item[t] = item[u] => t = u

(* The lock-free list_is_empty says yes only if the list was empty while   *)
(* it was being asked.                                                     *)
EmptyAnswer == opc = "empty" => wasEmpty

(* Whoever takes the lock gives it back, on the early returns too. *)
LockReleased == test_lock = 1 ~> test_lock = 0
=============================================================================
