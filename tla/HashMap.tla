------------------------------- MODULE HashMap -------------------------------
(***************************************************************************)
(* HashMap.c over uthash.h: the table of buckets, its expansion, and the   *)
(* list of the objects in the order they were added (hh.next).             *)
(*                                                                         *)
(* An object is named by its place in the order of addition, so hh.next of *)
(* an object is the following number and the list runs from `head' to      *)
(* Len(objects). A chain is kept as the set of its objects: a key is put   *)
(* in once, by every caller, so the order inside a chain is never seen. An *)
(* expansion is one step: what it leaves does not depend on the order in   *)
(* which it moves the objects. HASH_JEN is any function of the key.        *)
(* hashmap_remove, which nothing calls, is left out.                       *)
(***************************************************************************)
EXTENDS Integers, Sequences, FiniteSets

CONSTANTS
  Keys, Values, NoValue,
  HashValues,      (* what HASH_FCN can return                              *)
  InitialBuckets,  (* HASH_INITIAL_NUM_BUCKETS, a power of two              *)
  Threshold        (* HASH_BKT_CAPACITY_THRESH                              *)

ASSUME HashMapAssumption ==
  /\ HashValues \subseteq Nat
  /\ InitialBuckets \in Nat \ {0}
  /\ Threshold \in Nat \ {0}

VARIABLES
  hashv,      (* the hash of each key                                       *)
  objects,    (* every object allocated since hashmap_create, in app order  *)
  head,       (* map->map, 0 for NULL                                       *)
  iter,       (* map->iter, 0 for NULL                                      *)
  tbl,        (* the UT_hash_table                                          *)
  phase,      (* "live"; "destroy" inside hashmap_destroy; "none" after it  *)
  result      (* what the last call returned                                *)

vars == <<hashv, objects, head, iter, tbl, phase, result>>

-----------------------------------------------------------------------------
EmptyBucket == [chain |-> {}, count |-> 0, expand_mult |-> 0]

(* HASH_MAKE_TABLE *)
NewTable ==
  [num_buckets |-> InitialBuckets, num_items |-> 0, ineff_expands |-> 0, noexpand |-> 0,
   buckets |-> [b \in 0 .. InitialBuckets - 1 |-> EmptyBucket]]

(* HASH_TO_BKT: the mask num_bkts - 1 of a power of two is the remainder.  *)
BucketOf(o, objs, num) == hashv[objs[o].key] % num

(* A bug: the lookup keeps the mask of the first table.                    *)
FindInFirstTable(k) ==
  IF head = 0 THEN {}
  ELSE {o \in tbl.buckets[hashv[k] % InitialBuckets].chain : objects[o].key = k}

(* HASH_FIND_IN_BKT: the objects of the chain of k that have its key.      *)
Find(k) ==
  IF head = 0 THEN {}
  ELSE {o \in tbl.buckets[hashv[k] % tbl.num_buckets].chain : objects[o].key = k}

(* hh.next *)
NextOf(o) == IF o = Len(objects) THEN 0 ELSE o + 1

(* A bug: an expansion leaves every bucket the default limit.              *)
NoMultiplier(count, ideal) == 0

(* How many more times the default limit a bucket may hold, if it was      *)
(* given more than its share by an expansion.                              *)
Multiplier(count, ideal) == IF count > ideal THEN count \div ideal ELSE 0

(* HASH_EXPAND_BUCKETS: twice as many buckets; an object is not ideal when *)
(* more than `ideal' objects of its new bucket are counted up to it.       *)
HASH_EXPAND_BUCKETS(t, objs) ==
  LET num      == 2 * t.num_buckets
      moved    == UNION {t.buckets[b].chain : b \in DOMAIN t.buckets}
      ideal    == (t.num_items \div num) + (IF t.num_items % num # 0 THEN 1 ELSE 0)
      chain(b) == {o \in moved : BucketOf(o, objs, num) = b}
      count(b) == Cardinality(chain(b))
      nonideal == Cardinality({o \in moved :
                    Cardinality({p \in chain(BucketOf(o, objs, num)) : p <= o}) > ideal})
      ineff    == IF nonideal > t.num_items \div 2 THEN t.ineff_expands + 1 ELSE 0
  IN [num_buckets |-> num, num_items |-> t.num_items, ineff_expands |-> ineff,
      noexpand |-> IF ineff > 1 THEN 1 ELSE t.noexpand,
      buckets |-> [b \in 0 .. num - 1 |->
                     [chain |-> chain(b), count |-> count(b),
                      expand_mult |-> Multiplier(count(b), ideal)]]]

(* HASH_ADD_KEYPTR: the object o is counted and put in its chain.          *)
InChain(t, o, objs) ==
  LET b   == BucketOf(o, objs, t.num_buckets)
      old == t.buckets[b]
  IN [t EXCEPT !.num_items = @ + 1,
               !.buckets[b] = [old EXCEPT !.chain = @ \union {o}, !.count = @ + 1]]

MustExpand(t, bucket) ==
  bucket.count >= (bucket.expand_mult + 1) * Threshold /\ t.noexpand # 1

(* HASH_ADD_TO_BKT: the table expands when the chain reaches its limit.    *)
Added(t, o, objs) ==
  LET t1     == InChain(t, o, objs)
      bucket == t1.buckets[BucketOf(o, objs, t.num_buckets)]
  IN IF MustExpand(t1, bucket)
       THEN HASH_EXPAND_BUCKETS(t1, objs)
       ELSE t1

(* A bug: the deletion keeps the mask of the first table.                  *)
DeletedFromFirstTable(t, o) ==
  LET b   == BucketOf(o, objects, InitialBuckets)
      old == t.buckets[b]
  IN [t EXCEPT !.num_items = @ - 1,
               !.buckets[b] = [old EXCEPT !.chain = @ \ {o}, !.count = @ - 1]]

(* HASH_DELETE of an object that is not the last one left.                 *)
Deleted(t, o) ==
  LET b   == BucketOf(o, objects, t.num_buckets)
      old == t.buckets[b]
  IN [t EXCEPT !.num_items = @ - 1,
               !.buckets[b] = [old EXCEPT !.chain = @ \ {o}, !.count = @ - 1]]

-----------------------------------------------------------------------------
Init ==
  /\ hashv \in [Keys -> HashValues]
  /\ objects = <<>> /\ head = 0 /\ iter = 0 /\ tbl = NewTable
  /\ phase = "live" /\ result = NoValue

(* Every caller looks a key up, or knows it is new, before it puts it.     *)
hashmap_put(k, v) ==
  /\ phase = "live"
  /\ \A o \in DOMAIN objects : objects[o].key # k
  /\ objects' = Append(objects, [key |-> k, data |-> v])
  /\ head' = IF head = 0 THEN Len(objects') ELSE head
  /\ tbl' = Added(IF head = 0 THEN NewTable ELSE tbl, Len(objects'), objects')
  /\ UNCHANGED <<hashv, iter, phase, result>>

hashmap_get(k) ==
  /\ phase = "live"
  /\ \/ \E o \in Find(k) : result' = objects[o].data
     \/ Find(k) = {} /\ result' = NoValue
  /\ UNCHANGED <<hashv, objects, head, iter, tbl, phase>>

(* HASH_COUNT *)
hashmap_size ==
  /\ phase = "live"
  /\ result' = IF head = 0 THEN 0 ELSE tbl.num_items
  /\ UNCHANGED <<hashv, objects, head, iter, tbl, phase>>

hashmap_iterator_reset ==
  /\ phase = "live"
  /\ iter' = head
  /\ UNCHANGED <<hashv, objects, head, tbl, phase, result>>

(* hashmap_iterator_next and hashmap_iterator_next_entry.                  *)
hashmap_iterator_next ==
  /\ phase = "live"
  /\ IF iter = 0
       THEN result' = NoValue /\ UNCHANGED iter
       ELSE result' = objects[iter].data /\ iter' = NextOf(iter)
  /\ UNCHANGED <<hashv, objects, head, tbl, phase>>

(* hashmap_destroy is called: the loop of HASH_ITER starts at the head.    *)
hashmap_destroy ==
  /\ phase = "live"
  /\ phase' = "destroy"
  /\ UNCHANGED <<hashv, objects, head, iter, tbl, result>>

(* One round of it: HASH_DEL of the first object. The last one takes the   *)
(* table with it.                                                          *)
HASH_DEL ==
  /\ phase = "destroy" /\ head # 0
  /\ head' = NextOf(head)
  /\ tbl' = IF NextOf(head) = 0 THEN NewTable ELSE Deleted(tbl, head)
  /\ UNCHANGED <<hashv, objects, iter, phase, result>>

(* free(map); a caller may create another map.                             *)
FreeMap ==
  /\ phase = "destroy" /\ head = 0
  /\ phase' = "none"
  /\ UNCHANGED <<hashv, objects, head, iter, tbl, result>>

(* iter is left as malloc returns it, for which 0 stands here: every       *)
(* caller resets the iterator before it asks for the next object.          *)
hashmap_create ==
  /\ phase = "none"
  /\ phase' = "live" /\ objects' = <<>> /\ iter' = 0
  /\ UNCHANGED <<hashv, head, tbl, result>>

Next ==
  \/ \E k \in Keys : hashmap_get(k) \/ \E v \in Values : hashmap_put(k, v)
  \/ hashmap_size \/ hashmap_iterator_reset \/ hashmap_iterator_next
  \/ hashmap_destroy \/ HASH_DEL \/ FreeMap \/ hashmap_create

Spec == Init /\ [][Next]_vars
-----------------------------------------------------------------------------
Live == {o \in DOMAIN objects : head # 0 /\ o >= head}

TypeOK ==
  /\ hashv \in [Keys -> HashValues]
  /\ objects \in Seq([key : Keys, data : Values])
  /\ head \in 0 .. Len(objects) /\ iter \in 0 .. Len(objects)
  /\ phase \in {"live", "destroy", "none"}
  /\ tbl.num_buckets \in Nat \ {0}
  /\ DOMAIN tbl.buckets = 0 .. tbl.num_buckets - 1

(* The check HASH_FSCK makes when HASH_DEBUG is defined: every chain has   *)
(* as many objects as its count says, all the chains together and the list *)
(* in app order as many as num_items says; and, which it does not check,   *)
(* every object is in the bucket of its hash: expansion after expansion,   *)
(* and while hashmap_destroy takes the objects out one by one.             *)
Integrity ==
  head # 0 =>
    /\ \A b \in DOMAIN tbl.buckets :
         /\ tbl.buckets[b].count = Cardinality(tbl.buckets[b].chain)
         /\ tbl.buckets[b].chain = {o \in Live : BucketOf(o, objects, tbl.num_buckets) = b}
    /\ tbl.num_items = Cardinality(Live)

(* "by expanding buckets the hash keeps a bound on the chain length": until *)
(* expansion is given up (noexpand) no chain exceeds the limit of its       *)
(* bucket, although an expansion that gathers many objects in a bucket      *)
(* raises the limit, and one that finds many objects raises the ideal.      *)
ChainsBounded ==
  tbl.noexpand # 1 =>
    \A b \in DOMAIN tbl.buckets :
      tbl.buckets[b].count <= (tbl.buckets[b].expand_mult + 1) * Threshold

(* The map the callers see: while the objects are being freed it is gone.  *)
Map == INSTANCE OrderedMap WITH
         entries  <- IF phase = "live" THEN objects ELSE <<>>,
         position <- IF phase = "live" THEN iter ELSE 0

(* The table, with its expansions, gives the callers of HashMap.h the map  *)
(* they expect: what was put in is found, with its value, and iterated in  *)
(* the order it was put in, under every hash of the keys.                  *)
ImplementsOrderedMap == Map!Spec
=============================================================================
