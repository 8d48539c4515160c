---------------------------- MODULE HashMapProofs ----------------------------
(***************************************************************************)
(* HashMap, for any keys, any hash function, any number of buckets to      *)
(* start with and any limit of a chain: however often the table expands,   *)
(* it holds exactly the objects that were put in, each in the bucket of    *)
(* its hash, and the callers see an ordered map.                           *)
(***************************************************************************)
EXTENDS HashMap, SumProofs, FiniteSetTheorems, TLAPS

IsBucket(bucket) ==
  bucket \in [chain : {bucket.chain}, count : {bucket.count},
              expand_mult : {bucket.expand_mult}]

IsTable(t) ==
  /\ t \in [num_buckets : Nat \ {0}, num_items : {t.num_items},
           ineff_expands : {t.ineff_expands}, noexpand : {t.noexpand},
           buckets : {t.buckets}]
  /\ t.buckets = [b \in 0 .. t.num_buckets - 1 |-> t.buckets[b]]
  /\ \A b \in 0 .. t.num_buckets - 1 : IsBucket(t.buckets[b])

Chain(b, num, S, objs) == {o \in S : BucketOf(o, objs, num) = b}

(* The table t holds the objects of S, each in the bucket of its hash.     *)
Holds(t, S, objs) ==
  /\ IsTable(t)
  /\ t.num_items = Cardinality(S)
  /\ \A b \in 0 .. t.num_buckets - 1 :
       /\ t.buckets[b].chain = Chain(b, t.num_buckets, S, objs)
       /\ t.buckets[b].count = Cardinality(t.buckets[b].chain)

(* Every object of S has a key, and so a bucket.                           *)
Hashed(S, objs) ==
  /\ IsFiniteSet(S)
  /\ \A o \in S : hashv[objs[o].key] \in Nat

LEMMA BucketInRange ==
  ASSUME NEW S, NEW objs, NEW num \in Nat \ {0}, Hashed(S, objs)
  PROVE  \A o \in S : BucketOf(o, objs, num) \in 0 .. num - 1
BY DEF Hashed, BucketOf

(* A new table holds nothing.                                              *)
LEMMA NewTableHolds ==
  ASSUME NEW objs PROVE Holds(NewTable, {}, objs)
<1>1. Cardinality({}) = 0
  BY FS_EmptySet
<1> QED
  BY <1>1, HashMapAssumption DEF Holds, IsTable, IsBucket, NewTable, EmptyBucket, Chain

(* An expansion loses no object.                                           *)
LEMMA ExpansionHolds ==
  ASSUME NEW t, NEW S, NEW objs, Holds(t, S, objs), Hashed(S, objs)
  PROVE  Holds(HASH_EXPAND_BUCKETS(t, objs), S, objs)
<1> DEFINE moved == UNION {t.buckets[b].chain : b \in DOMAIN t.buckets}
           num   == 2 * t.num_buckets
<1>1. t.num_buckets \in Nat \ {0}
  BY DEF Holds, IsTable
<1>2. num \in Nat \ {0}
  BY <1>1
<1>3. \A o \in S : BucketOf(o, objs, t.num_buckets) \in 0 .. t.num_buckets - 1
  BY <1>1, BucketInRange
<1>4. DOMAIN t.buckets = 0 .. t.num_buckets - 1
  BY DEF Holds, IsTable
<1>5. moved = S
  BY <1>3, <1>4 DEF Holds, Chain
<1>6. t.num_items = Cardinality(S)
  BY DEF Holds
<1> HIDE DEF moved, num
<1> QED
  BY <1>2, <1>5, <1>6 DEF Holds, IsTable, IsBucket, Chain, HASH_EXPAND_BUCKETS, moved, num

(* An addition adds its object and no other.                               *)
LEMMA ChainHolds ==
  ASSUME NEW t, NEW S, NEW objs, NEW o, Holds(t, S, objs),
         o \notin S, Hashed(S \union {o}, objs)
  PROVE  Holds(InChain(t, o, objs), S \union {o}, objs)
<1> DEFINE num  == t.num_buckets
           home == BucketOf(o, objs, num)
           old  == t.buckets[home]
           new  == [old EXCEPT !.chain = @ \union {o}, !.count = @ + 1]
           t1   == InChain(t, o, objs)
<1>1. IsFiniteSet(S) /\ Hashed(S, objs)
  BY FS_Subset DEF Hashed
<1>2. num \in Nat \ {0} /\ home \in 0 .. num - 1
  BY BucketInRange DEF Holds, IsTable
<1>3. ASSUME NEW b \in 0 .. num - 1
      PROVE  /\ IsFiniteSet(Chain(b, num, S, objs))
             /\ b # home => Chain(b, num, S \union {o}, objs) = Chain(b, num, S, objs)
             /\ b = home => Chain(b, num, S \union {o}, objs) = Chain(b, num, S, objs) \union {o}
             /\ o \notin Chain(b, num, S, objs)
  BY <1>1, FS_Subset DEF Chain
<1>4. Cardinality(S \union {o}) = Cardinality(S) + 1
  BY <1>1, FS_AddElement
<1>5. Cardinality(old.chain \union {o}) = old.count + 1
  <2>1. old.chain = Chain(home, num, S, objs) /\ old.count = Cardinality(old.chain)
    BY <1>2 DEF Holds
  <2>2. IsFiniteSet(old.chain) /\ o \notin old.chain
    BY <1>2, <1>3, <2>1
  <2> HIDE DEF old
  <2>3. Cardinality(old.chain) \in Nat
    BY <2>2, FS_CardinalityType
  <2> QED  BY <2>1, <2>2, <2>3, FS_AddElement
<1>6. /\ IsBucket(new)
      /\ new.chain = Chain(home, num, S \union {o}, objs)
      /\ new.count = Cardinality(new.chain)
  <2>1. IsBucket(old) /\ old.chain = Chain(home, num, S, objs)
    BY <1>2 DEF Holds, IsTable
  <2>2. IsBucket(new) /\ new.chain = old.chain \union {o} /\ new.count = old.count + 1
    BY <2>1 DEF IsBucket
  <2> QED  BY <1>2, <1>3, <1>5, <2>1, <2>2
<1>7. /\ t1 \in [num_buckets : Nat \ {0}, num_items : {t1.num_items},
                ineff_expands : {t1.ineff_expands}, noexpand : {t1.noexpand},
                buckets : {t1.buckets}]
      /\ t1.num_buckets = num
      /\ t1.num_items = t.num_items + 1
      /\ t1.buckets = [t.buckets EXCEPT ![home] = new]
  BY DEF InChain, Holds, IsTable
<1> HIDE DEF new, t1
<1>8. ASSUME NEW b \in 0 .. num - 1
      PROVE  /\ IsBucket(t1.buckets[b])
             /\ t1.buckets[b].chain = Chain(b, num, S \union {o}, objs)
             /\ t1.buckets[b].count = Cardinality(t1.buckets[b].chain)
  <2>1. CASE b = home
    BY <1>2, <1>6, <1>7, <2>1 DEF Holds, IsTable
  <2>2. CASE b # home
    BY <1>2, <1>3, <1>7, <2>2 DEF Holds, IsTable
  <2> QED  BY <2>1, <2>2
<1>9. t1.buckets = [b \in 0 .. num - 1 |-> t1.buckets[b]]
  BY <1>7 DEF Holds, IsTable
<1>10. Holds(t1, S \union {o}, objs)
  BY <1>4, <1>7, <1>8, <1>9 DEF Holds, IsTable
<1> QED  BY <1>10 DEF t1

(* The table does not depend on objects that are added later.              *)
LEMMA LaterObjects ==
  ASSUME NEW t, NEW S, NEW objs, NEW objs2, Holds(t, S, objs),
         \A o \in S : objs2[o] = objs[o]
  PROVE  Holds(t, S, objs2)
<1>1. \A b, num : Chain(b, num, S, objs2) = Chain(b, num, S, objs)
  BY DEF Chain, BucketOf
<1> QED  BY <1>1 DEF Holds

(* The table of an addition, expanded or not.                              *)
LEMMA AddedHolds ==
  ASSUME NEW t, NEW S, NEW objs, NEW o, Holds(t, S, objs),
         o \notin S, Hashed(S \union {o}, objs)
  PROVE  Holds(Added(t, o, objs), S \union {o}, objs)
<1>1. Holds(InChain(t, o, objs), S \union {o}, objs)
  BY ChainHolds
<1>2. Holds(HASH_EXPAND_BUCKETS(InChain(t, o, objs), objs), S \union {o}, objs)
  BY <1>1, ExpansionHolds
<1> QED  BY <1>1, <1>2 DEF Added

(* A deletion takes out its object and no other.                           *)
LEMMA DeletedHolds ==
  ASSUME NEW t, NEW S, NEW o \in S, Holds(t, S, objects), Hashed(S, objects)
  PROVE  Holds(Deleted(t, o), S \ {o}, objects)
<1> DEFINE num  == t.num_buckets
           home == BucketOf(o, objects, num)
           old  == t.buckets[home]
           new  == [old EXCEPT !.chain = @ \ {o}, !.count = @ - 1]
           t1   == Deleted(t, o)
<1>1. num \in Nat \ {0} /\ home \in 0 .. num - 1
  BY BucketInRange DEF Holds, IsTable
<1>2. ASSUME NEW b \in 0 .. num - 1
      PROVE  /\ IsFiniteSet(Chain(b, num, S, objects))
             /\ b # home => Chain(b, num, S \ {o}, objects) = Chain(b, num, S, objects)
             /\ b = home => Chain(b, num, S \ {o}, objects) = Chain(b, num, S, objects) \ {o}
             /\ b = home => o \in Chain(b, num, S, objects)
  BY FS_Subset DEF Chain, Hashed
<1>3. Cardinality(S) \in Nat /\ Cardinality(S \ {o}) = Cardinality(S) - 1
  BY FS_RemoveElement, FS_CardinalityType DEF Hashed
<1>4. IsBucket(old) /\ old.chain = Chain(home, num, S, objects)
      /\ old.count = Cardinality(old.chain)
  BY <1>1 DEF Holds, IsTable
<1>5. Cardinality(old.chain \ {o}) = old.count - 1
  <2>1. IsFiniteSet(old.chain) /\ o \in old.chain
    BY <1>1, <1>2, <1>4
  <2>2. Cardinality(old.chain) \in Nat
    BY <2>1, FS_CardinalityType
  <2> HIDE DEF old
  <2> QED  BY <1>4, <2>1, <2>2, FS_RemoveElement
<1>6. /\ IsBucket(new)
      /\ new.chain = Chain(home, num, S \ {o}, objects)
      /\ new.count = Cardinality(new.chain)
  <2>1. IsBucket(new) /\ new.chain = old.chain \ {o} /\ new.count = old.count - 1
    BY <1>4 DEF IsBucket
  <2> QED  BY <1>1, <1>2, <1>4, <1>5, <2>1
<1>7. /\ t1 \in [num_buckets : Nat \ {0}, num_items : {t1.num_items},
                ineff_expands : {t1.ineff_expands}, noexpand : {t1.noexpand},
                buckets : {t1.buckets}]
      /\ t1.num_buckets = num
      /\ t1.num_items = t.num_items - 1
      /\ t1.buckets = [t.buckets EXCEPT ![home] = new]
  BY DEF Deleted, Holds, IsTable
<1> HIDE DEF new, t1
<1>8. ASSUME NEW b \in 0 .. num - 1
      PROVE  /\ IsBucket(t1.buckets[b])
             /\ t1.buckets[b].chain = Chain(b, num, S \ {o}, objects)
             /\ t1.buckets[b].count = Cardinality(t1.buckets[b].chain)
  <2>1. CASE b = home
    BY <1>1, <1>6, <1>7, <2>1 DEF Holds, IsTable
  <2>2. CASE b # home
    BY <1>1, <1>2, <1>7, <2>2 DEF Holds, IsTable
  <2> QED  BY <2>1, <2>2
<1>9. t1.buckets = [b \in 0 .. num - 1 |-> t1.buckets[b]]
  BY <1>7 DEF Holds, IsTable
<1>10. Holds(t1, S \ {o}, objects)
  BY <1>3, <1>7, <1>8, <1>9 DEF Holds, IsTable
<1> QED  BY <1>10 DEF t1

-----------------------------------------------------------------------------
(* No key is put twice; the list starts with the first object while the    *)
(* map is in use, and is empty once it has been destroyed.                 *)
Keyed ==
  /\ \A o, p \in DOMAIN objects : objects[o].key = objects[p].key => o = p
  /\ phase = "live" => head = IF objects = <<>> THEN 0 ELSE 1
  /\ phase = "none" => head = 0

Shape ==
  /\ hashv \in [Keys -> HashValues]
  /\ objects \in Seq([key : Keys, data : Values])
  /\ head \in 0 .. Len(objects) /\ iter \in 0 .. Len(objects)
  /\ phase \in {"live", "destroy", "none"}

IInv == Shape /\ Keyed /\ Holds(tbl, Live, objects)

(* What Holds says of a state is true of the next one if nothing changed.  *)
LEMMA HoldsNext ==
  ASSUME hashv' = hashv, Holds(tbl', Live', objects')
  PROVE  Holds(tbl, Live, objects)'
BY DEF Holds, IsTable, IsBucket, Chain, BucketOf

(* Every object has a key, and every key a hash.                           *)
LEMMA KeysHashed ==
  ASSUME NEW objs \in Seq([key : Keys, data : Values]), hashv \in [Keys -> HashValues]
  PROVE  \A o \in DOMAIN objs : hashv[objs[o].key] \in Nat
<1> SUFFICES ASSUME NEW o \in DOMAIN objs PROVE hashv[objs[o].key] \in Nat
  OBVIOUS
<1>1. objs[o] \in [key : Keys, data : Values]
  <2> DEFINE Objects == [key : Keys, data : Values]
  <2>1. objs \in Seq(Objects)
    OBVIOUS
  <2> HIDE DEF Objects
  <2>2. objs[o] \in Objects
    BY <2>1
  <2> QED  BY <2>2 DEF Objects
<1>2. objs[o].key \in Keys
  BY <1>1
<1>3. hashv[objs[o].key] \in HashValues
  BY <1>2
<1> QED  BY <1>3, HashMapAssumption

LEMMA LiveHashed ==
  ASSUME Shape PROVE Hashed(DOMAIN objects, objects) /\ Hashed(Live, objects)
<1>1. IsFiniteSet(DOMAIN objects)
  BY FS_Interval DEF Shape
<1>2. Live \in SUBSET DOMAIN objects
  BY DEF Live
<1>3. IsFiniteSet(Live)
  BY <1>1, <1>2, FS_Subset
<1>4. \A o \in DOMAIN objects : hashv[objects[o].key] \in Nat
  BY KeysHashed DEF Shape
<1> QED  BY <1>1, <1>2, <1>3, <1>4 DEF Hashed

LEMMA InitIInv == Init => IInv
<1> SUFFICES ASSUME Init PROVE IInv
  OBVIOUS
<1>1. Shape /\ Keyed
  <2>1. objects \in Seq([key : Keys, data : Values]) /\ Len(objects) = 0
    BY DEF Init
  <2> QED  BY <2>1 DEF Init, Shape, Keyed
<1>2. Live = {}
  BY DEF Init, Live
<1> QED  BY <1>1, <1>2, NewTableHolds DEF Init, IInv

(* hashmap_put: the new object is the last of the list, and is added to    *)
(* the table there is or to a new one.                                     *)
Before == IF head = 0 THEN NewTable ELSE tbl

LEMMA PutIs ==
  ASSUME IInv, NEW k \in Keys, NEW v \in Values, hashmap_put(k, v)
  PROVE  LET o == Len(objects') IN
         /\ Live' = Live \union {o} /\ o \notin Live
         /\ Holds(Before, Live, objects') /\ Hashed(Live \union {o}, objects')
         /\ tbl' = Added(Before, o, objects') /\ hashv' = hashv
<1> DEFINE o == Len(objects')
           t == Before
<1>0. /\ Len(objects') = Len(objects) + 1 /\ Len(objects) \in Nat
      /\ DOMAIN objects' = 1 .. o /\ DOMAIN objects = 1 .. Len(objects)
      /\ objects' \in Seq([key : Keys, data : Values])
      /\ objects'[o].key = k
      /\ \A p \in DOMAIN objects : objects'[p] = objects[p]
  BY DEF IInv, Shape, hashmap_put
<1>2. Live' = Live \union {o} /\ o \notin Live
  <2>1. head = (IF objects = <<>> THEN 0 ELSE 1) /\ (objects = <<>> => Len(objects) = 0)
    BY DEF IInv, Keyed, hashmap_put
  <2>2. head' = 1
    BY <1>0, <2>1 DEF hashmap_put, IInv, Shape
  <2> QED  BY <1>0, <2>1, <2>2 DEF Live
<1>3. \A p \in Live : objects'[p] = objects[p]
  BY DEF IInv, Shape, Live, hashmap_put
<1>4. Holds(t, Live, objects)
  <2>1. head = 0 => Live = {}
    BY DEF Live
  <2> QED  BY <2>1, NewTableHolds DEF IInv, Before
<1>5. Holds(t, Live, objects')
  BY <1>3, <1>4, LaterObjects
<1>6. Hashed(Live \union {o}, objects')
  <2>1. IsFiniteSet(Live \union {o})
    BY LiveHashed, FS_AddElement DEF IInv, Hashed
  <2>2. \A p \in Live \union {o} : hashv[objects'[p].key] \in Nat
    <3>1. \A p \in DOMAIN objects' : hashv[objects'[p].key] \in Nat
      BY <1>0, KeysHashed DEF IInv, Shape
    <3>2. Live \union {o} \subseteq DOMAIN objects'
      BY <1>0 DEF Live
    <3> QED  BY <3>1, <3>2
  <2> QED  BY <2>1, <2>2 DEF Hashed
<1>8. hashv' = hashv /\ tbl' = Added(t, o, objects')
  BY DEF hashmap_put, Before
<1> QED  BY <1>2, <1>5, <1>6, <1>8

LEMMA PutKeepsIInv ==
  ASSUME IInv, NEW k \in Keys, NEW v \in Values, hashmap_put(k, v)
  PROVE  IInv'
<1> DEFINE o == Len(objects')
<1>0. /\ Len(objects') = Len(objects) + 1 /\ Len(objects) \in Nat
      /\ DOMAIN objects' = 1 .. o /\ DOMAIN objects = 1 .. Len(objects)
      /\ objects' \in Seq([key : Keys, data : Values])
      /\ objects'[o].key = k
      /\ \A p \in DOMAIN objects : objects'[p] = objects[p]
  BY DEF IInv, Shape, hashmap_put
<1>1. Shape' /\ Keyed'
  <2>1. Shape'
    BY <1>0 DEF IInv, Shape, hashmap_put
  <2>2. Keyed'
    BY <1>0 DEF IInv, Shape, Keyed, hashmap_put
  <2> QED  BY <2>1, <2>2
<1>2. Holds(Added(Before, o, objects'), Live \union {o}, objects')
  BY PutIs, AddedHolds
<1>3. Holds(tbl, Live, objects)'
  BY <1>2, PutIs, HoldsNext
<1> QED  BY <1>1, <1>3 DEF IInv

(* HASH_DEL: the first object of the list goes.                            *)
LEMMA DelKeepsIInv ==
  ASSUME IInv, HASH_DEL
  PROVE  IInv'
<1>1. Shape' /\ Keyed'
  BY DEF IInv, Shape, Keyed, HASH_DEL, NextOf
<1>2. Live' = Live \ {head} /\ head \in Live /\ (NextOf(head) = 0 => Live' = {})
  BY DEF IInv, Shape, Live, HASH_DEL, NextOf
<1>3. Holds(Deleted(tbl, head), Live \ {head}, objects)
  BY <1>2, LiveHashed, DeletedHolds DEF IInv
<1>4. Holds(tbl', Live', objects)
  BY <1>2, <1>3, NewTableHolds DEF HASH_DEL
<1>5. hashv' = hashv /\ objects' = objects
  BY DEF HASH_DEL
<1>6. Holds(tbl, Live, objects)'
  BY <1>4, <1>5, HoldsNext
<1> QED  BY <1>1, <1>6 DEF IInv

LEMMA NextIInv == IInv /\ [Next]_vars => IInv'
<1> SUFFICES ASSUME IInv, [Next]_vars PROVE IInv'
  OBVIOUS
<1>1. ASSUME NEW k \in Keys, NEW v \in Values, hashmap_put(k, v) PROVE IInv'
  BY <1>1, PutKeepsIInv
<1>2. CASE HASH_DEL
  BY <1>2, DelKeepsIInv
<1>3. ASSUME UNCHANGED <<hashv, objects, head, tbl>>, Live' = Live,
             iter' \in 0 .. Len(objects), phase' \in {"live", "destroy", "none"},
             phase' = "live" => phase = "live", phase' = "none" => head = 0
      PROVE  IInv'
  <2>1. Shape' /\ Keyed'
    BY <1>3 DEF IInv, Shape, Keyed
  <2> QED  BY <1>3, <2>1, HoldsNext DEF IInv
<1>4. ASSUME UNCHANGED <<objects, head>> PROVE Live' = Live
  BY <1>4 DEF Live
<1>5. ASSUME NEW k \in Keys, hashmap_get(k) PROVE IInv'
  BY <1>3, <1>4, <1>5 DEF hashmap_get, IInv, Shape, Keyed
<1>6. CASE hashmap_size
  BY <1>3, <1>4, <1>6 DEF hashmap_size, IInv, Shape, Keyed
<1>7. CASE hashmap_iterator_reset
  BY <1>3, <1>4, <1>7 DEF hashmap_iterator_reset, IInv, Shape, Keyed
<1>8. CASE hashmap_iterator_next
  BY <1>3, <1>4, <1>8 DEF hashmap_iterator_next, NextOf, IInv, Shape, Keyed
<1>9. CASE hashmap_destroy
  BY <1>3, <1>4, <1>9 DEF hashmap_destroy, IInv, Shape, Keyed
<1>10. CASE FreeMap
  BY <1>3, <1>4, <1>10 DEF FreeMap, IInv, Shape, Keyed
<1>11. CASE hashmap_create
  <2>1. Shape' /\ Keyed'
    BY <1>11 DEF hashmap_create, IInv, Shape, Keyed
  <2>2. Live = {} /\ Live' = {}
    BY <1>11 DEF hashmap_create, IInv, Keyed, Live
  <2>3. Holds(tbl, {}, objects')
    BY <2>2, LaterObjects DEF IInv
  <2> QED  BY <1>11, <2>1, <2>2, <2>3, HoldsNext DEF hashmap_create, IInv
<1>12. CASE UNCHANGED vars
  BY <1>3, <1>4, <1>12 DEF vars, IInv, Shape, Keyed
<1> QED
  BY <1>1, <1>2, <1>5, <1>6, <1>7, <1>8, <1>9, <1>10, <1>11, <1>12 DEF Next

THEOREM Invariant == Spec => []IInv
BY InitIInv, NextIInv, PTL DEF Spec

(* The state keeps its shape: the head and the iterator are NULL or one of *)
(* the objects, and the table always has its buckets.                      *)
THEOREM TypeCorrect == Spec => []TypeOK
<1>1. IInv => TypeOK
  BY DEF IInv, Shape, TypeOK, Holds, IsTable
<1> QED  BY <1>1, Invariant, PTL

(* However often it expanded, and while it is being destroyed, the table's *)
(* counts are those of its chains, and each object is in its bucket.       *)
THEOREM TableIntact == Spec => []Integrity
<1>1. IInv => Integrity
  BY DEF IInv, Integrity, Holds, IsTable, Chain
<1> QED  BY <1>1, Invariant, PTL

(* The bucket of a key has its object, if there is one, and no other with  *)
(* the same key.                                                           *)
LEMMA FindIsRight ==
  ASSUME IInv, phase = "live", NEW k \in Keys
  PROVE  Find(k) = {o \in DOMAIN objects : objects[o].key = k}
<1>1. CASE head = 0
  BY <1>1 DEF IInv, Shape, Keyed, Find
<1>2. CASE head # 0
  <2>1. Live = DOMAIN objects
    <3>1. head = 1 /\ DOMAIN objects = 1 .. Len(objects) /\ Len(objects) \in Nat
      BY <1>2 DEF IInv, Shape, Keyed
    <3> QED  BY <3>1 DEF Live
  <2>2. tbl.num_buckets \in Nat \ {0} /\ hashv[k] \in Nat
    BY HashMapAssumption DEF IInv, Shape, Holds, IsTable
  <2>3. hashv[k] % tbl.num_buckets \in 0 .. tbl.num_buckets - 1
    BY <2>2
  <2>4. tbl.buckets[hashv[k] % tbl.num_buckets].chain
          = {o \in DOMAIN objects : BucketOf(o, objects, tbl.num_buckets) = hashv[k] % tbl.num_buckets}
    BY <2>1, <2>3 DEF IInv, Holds, Chain
  <2> QED  BY <1>2, <2>4 DEF Find, BucketOf
<1> QED  BY <1>1, <1>2

LEMMA InitRefines == Init => Map!Init
BY DEF Init, Map!Init

LEMMA NextRefines ==
  IInv /\ [Next]_vars =>
    [Map!Next]_<<IF phase = "live" THEN objects ELSE <<>>, IF phase = "live" THEN iter ELSE 0, result>>
<1> SUFFICES ASSUME IInv, [Next]_vars
             PROVE  [Map!Next]_<<IF phase = "live" THEN objects ELSE <<>>,
                                 IF phase = "live" THEN iter ELSE 0, result>>
  OBVIOUS
<1> DEFINE seen == <<IF phase = "live" THEN objects ELSE <<>>,
                     IF phase = "live" THEN iter ELSE 0, result>>
<1>1. ASSUME NEW k \in Keys, NEW v \in Values, hashmap_put(k, v) PROVE Map!Next
  <2>1. Map!Put(k, v)
    BY <1>1 DEF hashmap_put, Map!Put, Map!Present
  <2> QED  BY <2>1 DEF Map!Next
<1>2. ASSUME NEW k \in Keys, hashmap_get(k) PROVE Map!Next
  <2>1. phase = "live" /\ Find(k) = {o \in DOMAIN objects : objects[o].key = k}
    BY <1>2, FindIsRight DEF hashmap_get
  <2>2. Map!Get(k)
    BY <1>2, <2>1 DEF hashmap_get, Map!Get, Map!Present
  <2> QED  BY <2>2 DEF Map!Next
<1>3. CASE hashmap_size
  <2>1. tbl.num_items = Cardinality(Live)
    BY DEF IInv, Holds
  <2>2. head # 0 => Live = 1 .. Len(objects)
    BY <1>3 DEF hashmap_size, IInv, Shape, Keyed, Live
  <2>3. head # 0 => tbl.num_items = Len(objects)
    <3>1. Len(objects) \in Nat
      BY DEF IInv, Shape
    <3>2. Cardinality(1 .. Len(objects)) = Len(objects)
      BY <3>1, FS_Interval
    <3> QED  BY <2>1, <2>2, <3>2
  <2>4. head = 0 => Len(objects) = 0
    BY <1>3 DEF hashmap_size, IInv, Shape, Keyed
  <2>5. Map!Size
    BY <1>3, <2>3, <2>4 DEF hashmap_size, Map!Size
  <2> QED  BY <2>5 DEF Map!Next
<1>4. CASE hashmap_iterator_reset
  <2>1. Map!Reset
    BY <1>4 DEF hashmap_iterator_reset, Map!Reset, IInv, Keyed
  <2> QED  BY <2>1 DEF Map!Next
<1>5. CASE hashmap_iterator_next
  <2>1. /\ objects \in Seq([key : Keys, data : Values]) /\ iter \in 0 .. Len(objects)
        /\ Len(objects) \in Nat /\ DOMAIN objects = 1 .. Len(objects)
    BY DEF IInv, Shape
  <2>2. phase = "live" /\ phase' = "live" /\ objects' = objects
    BY <1>5 DEF hashmap_iterator_next
  <2>3. ASSUME iter = 0 PROVE Map!Following
    BY <1>5, <2>1, <2>2, <2>3 DEF hashmap_iterator_next, Map!Following
  <2>4. ASSUME iter # 0 PROVE Map!Following
    <3>1. iter \in DOMAIN objects
      BY <2>1, <2>4
    <3>2. /\ result' = objects[iter].data
          /\ iter' = IF iter = Len(objects) THEN 0 ELSE iter + 1
      BY <1>5, <2>4 DEF hashmap_iterator_next, NextOf
    <3> QED  BY <2>2, <3>1, <3>2 DEF Map!Following
  <2>5. Map!Following
    BY <2>3, <2>4
  <2> QED  BY <2>5 DEF Map!Next
<1>6. CASE hashmap_destroy
  <2>1. Map!Discard
    BY <1>6 DEF hashmap_destroy, Map!Discard
  <2> QED  BY <2>1 DEF Map!Next
<1>7. CASE HASH_DEL
  BY <1>7 DEF HASH_DEL
<1>8. CASE FreeMap
  BY <1>8 DEF FreeMap
<1>9. CASE hashmap_create
  BY <1>9 DEF hashmap_create
<1>10. CASE UNCHANGED vars
  BY <1>10 DEF vars
<1> QED
  BY <1>1, <1>2, <1>3, <1>4, <1>5, <1>6, <1>7, <1>8, <1>9, <1>10 DEF Next

(* The table gives its callers an ordered map: whatever the hash function  *)
(* and however the table expands, a lookup finds the object of its key and *)
(* an iteration the objects in the order they were put in.                 *)
THEOREM MapImplemented == Spec => ImplementsOrderedMap
BY InitRefines, NextRefines, Invariant, PTL DEF Spec, ImplementsOrderedMap, Map!Spec

-----------------------------------------------------------------------------
(* The bound on the chains. An expansion sets the multipliers of the       *)
(* buckets so that they add up to no more than the number of buckets, and  *)
(* they stay what they are until the next one: by then the table has at    *)
(* most 2 * num_buckets * Threshold objects, and the ideal length of a     *)
(* chain is at most the threshold again.                                   *)
Mults(t)  == [b \in 0 .. t.num_buckets - 1 |-> t.buckets[b].expand_mult]
Counts(t) == [b \in 0 .. t.num_buckets - 1 |-> t.buckets[b].count]
Limit(bucket) == (bucket.expand_mult + 1) * Threshold

Bounded(t) ==
  /\ \A b \in 0 .. t.num_buckets - 1 : t.buckets[b].expand_mult \in Nat
  /\ t.noexpand # 1 =>
       /\ \A b \in 0 .. t.num_buckets - 1 : t.buckets[b].count <= Limit(t.buckets[b])
       /\ SumFunctionOnSet(Mults(t), 0 .. t.num_buckets - 1) <= t.num_buckets
       /\ t.num_items < 2 * (t.num_buckets * Threshold)

LEMMA DivBounds ==
  ASSUME NEW a \in Nat, NEW i \in Nat \ {0}
  PROVE  /\ a \div i \in Nat /\ a % i \in 0 .. i - 1
         /\ a = i * (a \div i) + (a % i)
OBVIOUS

LEMMA Products ==
  ASSUME NEW i \in Nat, NEW x \in Int, NEW y \in Int, x <= y
  PROVE  i * x <= i * y
OBVIOUS

LEMMA Cancel ==
  ASSUME NEW i \in Nat \ {0}, NEW x \in Int, NEW y \in Int, i * x < i * y
  PROVE  x < y
<1> SUFFICES ASSUME y <= x PROVE FALSE
  OBVIOUS
<1> QED  BY Products

(* Objects are as many as the chains they are in have together.            *)
LEMMA ChainsAddUp ==
  ASSUME NEW S, NEW objs, NEW num \in Nat \ {0}, Hashed(S, objs)
  PROVE  Cardinality(S) = SumFunctionOnSet([b \in 0 .. num - 1 |-> Cardinality(Chain(b, num, S, objs))],
                                           0 .. num - 1)
<1> DEFINE R == 0 .. num - 1
           Sizes(s) == [b \in R |-> Cardinality(Chain(b, num, s, objs))]
           Q == {s \in SUBSET S : Cardinality(s) = SumFunctionOnSet(Sizes(s), R)}
<1>0. IsFiniteSet(R) /\ IsFiniteSet(S)
  <2>1. 0 \in Int /\ num - 1 \in Int
    OBVIOUS
  <2>2. IsFiniteSet(R)
    BY <2>1, FS_Interval
  <2> QED  BY <2>2 DEF Hashed
<1>1. {} \in Q
  <2>1. \A b \in R : Sizes({})[b] = 0
    <3>1. \A b \in R : Chain(b, num, {}, objs) = {}
      BY DEF Chain
    <3> QED  BY <3>1, FS_EmptySet
  <2>2. SumFunctionOnSet(Sizes({}), R) = 0
    BY <1>0, <2>1, SumZero
  <2> QED  BY <2>2, FS_EmptySet
<1>2. ASSUME NEW s \in SUBSET S, s # {}, \A x \in s : s \ {x} \in Q
      PROVE  s \in Q
  <2>1. PICK x \in s : TRUE
    BY <1>2
  <2> DEFINE r    == s \ {x}
             home == BucketOf(x, objs, num)
             new  == Sizes(s)
             old  == Sizes(r)
  <2>2. /\ IsFiniteSet(s) /\ Cardinality(s) \in Nat
        /\ IsFiniteSet(r) /\ Cardinality(r) = Cardinality(s) - 1
    BY <1>0, <2>1, FS_Subset, FS_RemoveElement, FS_CardinalityType
  <2>3. home \in R
    BY <2>1, BucketInRange
  <2>4. ASSUME NEW b \in R
        PROVE  /\ new[b] \in Int /\ old[b] \in Int
               /\ b # home => new[b] = old[b]
               /\ b = home => new[b] = old[b] + 1
    <3> DEFINE c == Chain(b, num, s, objs)
    <3>1. IsFiniteSet(c) /\ Cardinality(c) \in Nat
      BY <2>2, FS_Subset, FS_CardinalityType DEF Chain
    <3>2. CASE b = home
      <4>1. Chain(b, num, r, objs) = c \ {x} /\ x \in c
        BY <2>1, <3>2 DEF Chain
      <4>2. Cardinality(c \ {x}) = Cardinality(c) - 1
        BY <3>1, <4>1, FS_RemoveElement
      <4>3. new[b] = Cardinality(c) /\ old[b] = Cardinality(c) - 1
        BY <4>1, <4>2
      <4> HIDE DEF new, old, c, home
      <4> QED  BY <3>1, <3>2, <4>3
    <3>3. CASE b # home
      <4>1. Chain(b, num, r, objs) = c
        BY <2>1, <3>3 DEF Chain
      <4> QED  BY <3>1, <3>3, <4>1
    <3> QED  BY <3>2, <3>3
  <2>5. Cardinality(r) = SumFunctionOnSet(old, R)
    BY <1>2, <2>1
  <2> HIDE DEF new, old, home, R
  <2>6. SumFunctionOnSet(new, R) = SumFunctionOnSet(old, R) + new[home] - old[home]
    <3>1. /\ \A b \in R : old[b] \in Int /\ new[b] \in Int
          /\ \A b \in R \ {home} : new[b] = old[b]
      BY <2>4
    <3> QED  BY <1>0, <2>3, <3>1, SumChange
  <2>7. new[home] \in Int /\ old[home] \in Int /\ new[home] = old[home] + 1
    BY <2>3, <2>4
  <2>8. Cardinality(s) = SumFunctionOnSet(new, R)
    BY <2>2, <2>5, <2>6, <2>7
  <2> QED  BY <2>8 DEF new
<1> HIDE DEF Q
<1>3. S \in Q
  BY <1>0, <1>1, <1>2, SubsetsBySize
<1> QED  BY <1>3 DEF Q

LEMMA CountsAddUp ==
  ASSUME NEW t, NEW S, NEW objs, Holds(t, S, objs), Hashed(S, objs)
  PROVE  /\ t.num_items \in Nat /\ t.num_buckets \in Nat \ {0}
         /\ \A b \in 0 .. t.num_buckets - 1 : t.buckets[b].count \in Nat
         /\ SumFunctionOnSet(Counts(t), 0 .. t.num_buckets - 1) = t.num_items
<1>1. t.num_buckets \in Nat \ {0} /\ t.num_items = Cardinality(S) /\ t.num_items \in Nat
  BY FS_CardinalityType DEF Holds, IsTable, Hashed
<1>2. ASSUME NEW b \in 0 .. t.num_buckets - 1
      PROVE  /\ t.buckets[b].count = Cardinality(Chain(b, t.num_buckets, S, objs))
             /\ t.buckets[b].count \in Nat
  <2>1. IsFiniteSet(Chain(b, t.num_buckets, S, objs))
    BY FS_Subset DEF Hashed, Chain
  <2> QED  BY <2>1, FS_CardinalityType DEF Holds
<1>3. Counts(t) = [b \in 0 .. t.num_buckets - 1 |-> Cardinality(Chain(b, t.num_buckets, S, objs))]
  BY <1>2 DEF Counts
<1> QED  BY <1>1, <1>2, <1>3, ChainsAddUp

LEMMA NewTableBounded == Bounded(NewTable)
<1>1. /\ NewTable.num_buckets = InitialBuckets /\ NewTable.num_items = 0
      /\ \A b \in 0 .. InitialBuckets - 1 : /\ NewTable.buckets[b].count = 0
                                            /\ NewTable.buckets[b].expand_mult = 0
  BY DEF NewTable, EmptyBucket
<1>2. SumFunctionOnSet(Mults(NewTable), 0 .. InitialBuckets - 1) = 0
  <2>1. \A b \in 0 .. InitialBuckets - 1 : Mults(NewTable)[b] = 0
    BY <1>1 DEF Mults
  <2>2. IsFiniteSet(0 .. InitialBuckets - 1)
    BY HashMapAssumption, FS_Interval
  <2> QED  BY <2>1, <2>2, SumZero
<1>3. InitialBuckets * Threshold > 0 /\ Threshold \in Nat
  BY HashMapAssumption
<1> HIDE DEF NewTable
<1>4. \A b \in 0 .. InitialBuckets - 1 : Limit(NewTable.buckets[b]) = Threshold
  BY <1>1, <1>3 DEF Limit
<1> QED  BY <1>1, <1>2, <1>3, <1>4, HashMapAssumption DEF Bounded

(* The table's limits add up to at most 2 * num_buckets * Threshold.       *)
LEMMA LimitsAddUp ==
  ASSUME NEW t, NEW g, NEW m \in Nat, t.num_buckets \in Nat \ {0},
         \A b \in 0 .. t.num_buckets - 1 :
           t.buckets[b].expand_mult \in Nat /\ g[b] \in Int /\ g[b] <= Limit(t.buckets[b]),
         SumFunctionOnSet(g, 0 .. t.num_buckets - 1) = m,
         SumFunctionOnSet(Mults(t), 0 .. t.num_buckets - 1) <= t.num_buckets
  PROVE  m <= 2 * (t.num_buckets * Threshold)
<1> DEFINE num == t.num_buckets
           R == 0 .. num - 1
           T == Threshold
           f == Mults(t)
           h == [b \in R |-> g[b] - T]
           one == [b \in R |-> 1]
<1>0. T \in Nat /\ num \in Nat \ {0} /\ IsFiniteSet(R)
  <2>1. 0 \in Int /\ num - 1 \in Int
    OBVIOUS
  <2> QED  BY <2>1, HashMapAssumption, FS_Interval
<1>1. \A b \in R : f[b] \in Nat /\ g[b] \in Int /\ g[b] <= T * f[b] + T
  <2> SUFFICES ASSUME NEW b \in R
               PROVE  f[b] \in Nat /\ g[b] \in Int /\ g[b] <= T * f[b] + T
    OBVIOUS
  <2>1. f[b] = t.buckets[b].expand_mult /\ f[b] \in Nat /\ g[b] \in Int
    BY DEF Mults
  <2>2. g[b] <= (f[b] + 1) * T
    BY <2>1 DEF Limit
  <2> HIDE DEF f
  <2>3. (f[b] + 1) * T = T * f[b] + T
    BY <1>0, <2>1
  <2> QED  BY <2>1, <2>2, <2>3
<1> HIDE DEF f, R, T
<1>2. SumFunctionOnSet(f, R) \in Nat /\ SumFunctionOnSet(g, R) \in Int
  BY <1>0, <1>1, SumType
<1>3. SumFunctionOnSet(g, R) <= T * SumFunctionOnSet(f, R) + T * num
  BY <1>0, <1>1, LinearSum DEF R
<1>4. T * SumFunctionOnSet(f, R) <= T * num
  <2> DEFINE x == SumFunctionOnSet(f, R)
  <2>1. x <= num /\ x \in Int /\ num \in Int
    BY <1>0, <1>2 DEF f, R
  <2> HIDE DEF x, num
  <2>2. T * x <= T * num
    BY <1>0, <2>1, Products
  <2> QED  BY <2>2 DEF x
<1>5. m <= T * num + T * num
  <2> DEFINE a == T * SumFunctionOnSet(f, R)
             c == T * num
  <2>1. a \in Int /\ c \in Int /\ a <= c /\ m \in Int /\ m <= a + c
    BY <1>0, <1>2, <1>3, <1>4 DEF R
  <2> HIDE DEF a, c
  <2>2. m <= c + c
    BY <2>1
  <2> QED  BY <2>2 DEF c
<1> QED  BY <1>0, <1>5 DEF T

(* An addition: the objects were fewer than the limits allow, and they     *)
(* still are if the chain has not come to its limit.                       *)
LEMMA InChainBounded ==
  ASSUME NEW t, NEW S, NEW objs, NEW o, Holds(t, S, objs), o \notin S,
         Hashed(S \union {o}, objs), Bounded(t), t.noexpand # 1
  PROVE  LET t1   == InChain(t, o, objs)
             home == BucketOf(o, objs, t.num_buckets)
         IN /\ t1.num_items <= 2 * (t1.num_buckets * Threshold)
            /\ ~ MustExpand(t1, t1.buckets[home]) => Bounded(t1)
<1> DEFINE num  == t.num_buckets
           R    == 0 .. num - 1
           home == BucketOf(o, objs, num)
           t1   == InChain(t, o, objs)
           bucket(b) == t1.buckets[b]
<1>1. num \in Nat \ {0} /\ home \in R /\ Threshold \in Nat \ {0}
  BY BucketInRange, HashMapAssumption DEF Holds, IsTable
<1>2. /\ t1.num_buckets = num /\ t1.num_items = t.num_items + 1 /\ t1.noexpand = t.noexpand
      /\ \A b \in R : bucket(b).expand_mult = t.buckets[b].expand_mult
      /\ \A b \in R \ {home} : bucket(b).count = t.buckets[b].count
  <2>1. /\ t1.num_buckets = num /\ t1.num_items = t.num_items + 1 /\ t1.noexpand = t.noexpand
    BY <1>1 DEF InChain, Holds, IsTable
  <2>2. \A b \in R : /\ bucket(b).expand_mult = t.buckets[b].expand_mult
                     /\ b # home => bucket(b).count = t.buckets[b].count
    BY <1>1 DEF InChain, Holds, IsTable, IsBucket
  <2> QED  BY <2>1, <2>2
<1>3. /\ t1.num_items \in Nat /\ t.num_items \in Nat
      /\ \A b \in R : bucket(b).count \in Nat
      /\ SumFunctionOnSet(Counts(t1), R) = t1.num_items
  <2>1. Holds(t1, S \union {o}, objs)
    BY ChainHolds
  <2>2. t.num_items \in Nat
    <3>1. Hashed(S, objs)
      BY FS_Subset DEF Hashed
    <3> QED  BY <3>1, CountsAddUp
  <2> HIDE DEF t1
  <2> QED  BY <1>2, <2>1, <2>2, CountsAddUp
<1> HIDE DEF t1
<1>4. t1.num_items <= 2 * (t1.num_buckets * Threshold)
  <2>1. t.num_items < 2 * (num * Threshold)
    BY DEF Bounded
  <2>2. num * Threshold \in Nat
    BY <1>1
  <2> QED  BY <1>2, <1>3, <2>1, <2>2
<1>5. ASSUME ~ MustExpand(t1, bucket(home)) PROVE Bounded(t1)
  <2>1. \A b \in R : bucket(b).expand_mult \in Nat /\ Limit(bucket(b)) \in Nat
    <3>1. \A b \in R : bucket(b).expand_mult \in Nat
      BY <1>2 DEF Bounded
    <3> QED  BY <1>1, <3>1 DEF Limit
  <2>2. bucket(home).count < Limit(bucket(home))
    BY <1>1, <1>2, <1>3, <1>5, <2>1 DEF MustExpand, Limit
  <2>3. \A b \in R : bucket(b).count <= Limit(bucket(b))
    <3>1. \A b \in R \ {home} : bucket(b).count <= Limit(bucket(b))
      BY <1>2 DEF Bounded, Limit
    <3> QED  BY <1>1, <1>3, <2>1, <2>2, <3>1
  <2>4. Mults(t1) = Mults(t)
    BY <1>2 DEF Mults
  <2>5. SumFunctionOnSet(Mults(t1), R) <= num
    BY <2>4 DEF Bounded
  <2>6. t1.num_items + 1 <= 2 * (num * Threshold)
    <3> DEFINE c == Counts(t1)
               g == [b \in R |-> IF b = home THEN c[b] + 1 ELSE c[b]]
               m == t1.num_items + 1
    <3>1. \A b \in R : c[b] = bucket(b).count /\ c[b] \in Nat /\ g[b] \in Nat
      BY <1>2, <1>3 DEF Counts
    <3>2. SumFunctionOnSet(g, R) = m
      <4>1. g[home] = c[home] + 1 /\ \A b \in R \ {home} : g[b] = c[b]
        BY <1>1
      <4>2. \A b \in R : c[b] \in Int /\ g[b] \in Int
        BY <3>1
      <4>3. IsFiniteSet(R)
        <5>1. 0 \in Int /\ num - 1 \in Int
          BY <1>1
        <5> QED  BY <5>1, FS_Interval
      <4> HIDE DEF c, g, R, home
      <4>4. SumFunctionOnSet(g, R) = SumFunctionOnSet(c, R) + g[home] - c[home]
        BY <1>1, <4>1, <4>2, <4>3, SumChange
      <4>5. c[home] \in Int /\ g[home] \in Int /\ SumFunctionOnSet(c, R) = t1.num_items
        BY <1>1, <1>3, <4>2 DEF c
      <4> QED  BY <1>3, <4>1, <4>4, <4>5
    <3>3. \A b \in R : g[b] <= Limit(bucket(b))
      <4>1. ASSUME NEW b \in R PROVE g[b] <= Limit(bucket(b))
        <5>1. CASE b = home
          <6>1. g[b] = bucket(b).count + 1 /\ bucket(b).count \in Nat /\ Limit(bucket(b)) \in Nat
            BY <1>3, <2>1, <3>1, <5>1
          <6> QED  BY <2>2, <5>1, <6>1
        <5>2. CASE b # home
          BY <2>3, <3>1, <5>2
        <5> QED  BY <5>1, <5>2
      <4> QED  BY <4>1
    <3>4. m \in Nat
      BY <1>3
    <3> HIDE DEF g, m
    <3>5. \A b \in 0 .. t1.num_buckets - 1 :
            t1.buckets[b].expand_mult \in Nat /\ g[b] \in Int /\ g[b] <= Limit(t1.buckets[b])
      <4>1. t1.num_buckets - 1 = num - 1
        BY <1>2
      <4>2. \A b \in R : g[b] \in Int
        BY <3>1
      <4> QED  BY <2>1, <3>3, <4>1, <4>2
    <3>6. SumFunctionOnSet(g, 0 .. t1.num_buckets - 1) = m
      BY <1>2, <3>2
    <3>7. SumFunctionOnSet(Mults(t1), 0 .. t1.num_buckets - 1) <= t1.num_buckets
      BY <1>2, <2>5
    <3>8. m <= 2 * (t1.num_buckets * Threshold)
      BY <1>1, <1>2, <3>4, <3>5, <3>6, <3>7, LimitsAddUp
    <3> QED  BY <1>2, <3>8 DEF m
  <2>7. t1.num_items < 2 * (num * Threshold)
    <3>1. num * Threshold \in Nat
      BY <1>1
    <3> QED  BY <1>3, <2>6, <3>1
  <2> QED  BY <1>2, <2>1, <2>3, <2>5, <2>7 DEF Bounded
<1> QED  BY <1>4, <1>5 DEF t1

(* An expansion: the ideal length is at most the threshold, so that no     *)
(* chain exceeds its new limit, and the multipliers add up to at most the  *)
(* new number of buckets.                                                  *)
LEMMA IdealIs ==
  ASSUME NEW n \in Nat \ {0}, NEW num \in Nat \ {0}, NEW T \in Nat, n <= num * T
  PROVE  LET ideal == (n \div num) + (IF n % num # 0 THEN 1 ELSE 0)
         IN ideal \in Nat \ {0} /\ ideal <= T /\ n <= ideal * num
<1> DEFINE q == n \div num
           r == n % num
           ideal == q + (IF r # 0 THEN 1 ELSE 0)
<1>1. q \in Nat /\ r \in 0 .. num - 1 /\ n = num * q + r
  BY DivBounds
<1> HIDE DEF q, r
<1>2. CASE r = 0
  <2>1. ideal = q /\ n = num * q
    BY <1>1, <1>2
  <2>2. q # 0
    BY <1>1, <2>1
  <2>3. q <= T
    <3>1. ~ (num * T < num * q)
      BY <1>1, <2>1
    <3> QED  BY <1>1, <3>1, Products
  <2> QED  BY <1>1, <2>1, <2>2, <2>3 DEF q, r
<1>3. CASE r # 0
  <2>1. ideal = q + 1
    BY <1>3
  <2>2. q < T
    <3>1. num * q \in Int /\ num * T \in Int /\ num * q < num * T
      BY <1>1, <1>3
    <3> QED  BY <1>1, <3>1, Cancel
  <2>3. n <= (q + 1) * num
    <3>1. (q + 1) * num = num * q + num /\ num * q \in Int
      BY <1>1
    <3> QED  BY <1>1, <3>1
  <2> QED  BY <1>1, <2>1, <2>2, <2>3 DEF q, r
<1> QED  BY <1>2, <1>3

(* The multiplier of a bucket that holds n objects.                        *)
LEMMA MultiplierIs ==
  ASSUME NEW n \in Nat, NEW ideal \in Nat \ {0}, NEW T \in Nat, ideal <= T
  PROVE  /\ Multiplier(n, ideal) \in Nat
         /\ ideal * Multiplier(n, ideal) <= n
         /\ n <= (Multiplier(n, ideal) + 1) * T
<1>1. CASE n > ideal
  <2> DEFINE q == n \div ideal
             r == n % ideal
  <2>1. q \in Nat /\ r \in 0 .. ideal - 1 /\ n = ideal * q + r
    BY DivBounds
  <2>2. Multiplier(n, ideal) = q
    BY <1>1 DEF Multiplier
  <2> HIDE DEF q, r
  <2>3. ideal * q \in Int /\ ideal * (q + 1) = ideal * q + ideal /\ ideal * (q + 1) = (q + 1) * ideal
    BY <2>1
  <2>4. n <= (q + 1) * ideal /\ ideal * q <= n
    BY <2>1, <2>3
  <2>5. (q + 1) * ideal <= (q + 1) * T
    <3>1. q + 1 \in Nat
      BY <2>1
    <3> QED  BY <3>1, Products
  <2>6. (q + 1) * ideal \in Int /\ (q + 1) * T \in Int
    BY <2>1
  <2> QED  BY <2>1, <2>2, <2>4, <2>5, <2>6
<1>2. CASE ~ (n > ideal)
  BY <1>2 DEF Multiplier
<1> QED  BY <1>1, <1>2

LEMMA ExpansionBounded ==
  ASSUME NEW t, NEW S, NEW objs, Holds(t, S, objs), Hashed(S, objs),
         t.num_items # 0, t.num_items <= 2 * (t.num_buckets * Threshold)
  PROVE  Bounded(HASH_EXPAND_BUCKETS(t, objs))
<1> DEFINE num == 2 * t.num_buckets
           n   == t.num_items
           T   == Threshold
           R   == 0 .. num - 1
           t1  == HASH_EXPAND_BUCKETS(t, objs)
           ideal == (n \div num) + (IF n % num # 0 THEN 1 ELSE 0)
           mult(b) == t1.buckets[b].expand_mult
           count(b) == t1.buckets[b].count
<1>1. /\ n \in Nat \ {0} /\ T \in Nat \ {0} /\ num \in Nat \ {0} /\ t.num_buckets \in Nat \ {0}
  BY CountsAddUp, HashMapAssumption
<1>2. n <= num * T
  BY <1>1
<1>3. /\ t1.num_buckets = num /\ t1.num_items = n
      /\ \A b \in R : mult(b) = Multiplier(count(b), ideal)
  BY DEF HASH_EXPAND_BUCKETS
<1>4. Holds(t1, S, objs)
  BY ExpansionHolds
<1> HIDE DEF num, n, t1
<1>5. /\ \A b \in R : count(b) \in Nat
      /\ SumFunctionOnSet(Counts(t1), R) = n
  BY <1>3, <1>4, CountsAddUp
<1>6. ideal \in Nat \ {0} /\ ideal <= T /\ n <= ideal * num
  BY <1>1, <1>2, IdealIs
<1> HIDE DEF ideal
<1>7. \A b \in R : /\ mult(b) \in Nat /\ ideal * mult(b) <= count(b)
                   /\ count(b) <= (mult(b) + 1) * T
  <2> SUFFICES ASSUME NEW b \in R
               PROVE  /\ mult(b) \in Nat /\ ideal * mult(b) <= count(b)
                      /\ count(b) <= (mult(b) + 1) * T
    OBVIOUS
  <2> DEFINE c == count(b)
             m == mult(b)
  <2>1. m = Multiplier(c, ideal) /\ c \in Nat
    BY <1>3, <1>5
  <2> HIDE DEF c, m
  <2>2. m \in Nat /\ ideal * m <= c /\ c <= (m + 1) * T
    BY <1>1, <1>6, <2>1, MultiplierIs
  <2> QED  BY <2>2 DEF c, m
<1>8. SumFunctionOnSet(Mults(t1), R) <= num
  <2> DEFINE f == Mults(t1)
             h == Counts(t1)
  <2>1. IsFiniteSet(R)
    <3>1. 0 \in Int /\ num - 1 \in Int
      BY <1>1
    <3> QED  BY <3>1, FS_Interval
  <2>2. \A b \in R : f[b] \in Nat /\ h[b] \in Nat /\ ideal * f[b] <= h[b]
    BY <1>3, <1>5, <1>7 DEF Mults, Counts
  <2> HIDE DEF f, h, R
  <2> DEFINE x == SumFunctionOnSet(f, R)
  <2>3. x \in Int
    BY <2>1, <2>2, SumType
  <2>4. ideal * x <= SumFunctionOnSet(h, R)
    <3>1. \A b \in R : f[b] \in Int /\ h[b] \in Int /\ ideal * f[b] <= h[b]
      BY <2>2
    <3>2. ideal \in Nat
      BY <1>6
    <3> QED  BY <2>1, <3>1, <3>2, SumScaled
  <2>5. ideal * x <= n
    BY <1>5, <2>4 DEF h
  <2> HIDE DEF x
  <2>6. ~ (num + 1 <= x)
    <3> SUFFICES ASSUME num + 1 <= x PROVE FALSE
      OBVIOUS
    <3>1. ideal * (num + 1) <= ideal * x
      <4>1. num + 1 \in Int /\ ideal \in Nat
        BY <1>1, <1>6
      <4> QED  BY <2>3, <4>1, Products
    <3>2. ideal * (num + 1) = ideal * num + ideal /\ ideal * num \in Int /\ ideal * x \in Int
      BY <1>1, <1>6, <2>3
    <3> QED  BY <1>1, <1>6, <2>5, <3>1, <3>2
  <2> QED  BY <1>1, <2>3, <2>6 DEF f, x
<1>9. t1.num_items < 2 * (t1.num_buckets * T)
  <2>1. num * T \in Nat /\ num * T = T * num /\ num * T # 0
    BY <1>1
  <2> QED  BY <1>1, <1>2, <1>3, <2>1
<1>10. Bounded(t1)
  BY <1>3, <1>7, <1>8, <1>9 DEF Bounded, Limit
<1> QED  BY <1>10 DEF t1

LEMMA AddedBounded ==
  ASSUME NEW t, NEW S, NEW objs, NEW o, Holds(t, S, objs), o \notin S,
         Hashed(S \union {o}, objs), Bounded(t)
  PROVE  Bounded(Added(t, o, objs))
<1> DEFINE t1   == InChain(t, o, objs)
           home == BucketOf(o, objs, t.num_buckets)
<1>1. Holds(t1, S \union {o}, objs)
  BY ChainHolds
<1>2. /\ t1.num_items = t.num_items + 1 /\ t1.noexpand = t.noexpand /\ t1.num_buckets = t.num_buckets
      /\ t.num_items \in Nat
  <2>1. t.num_items \in Nat
    <3>1. Hashed(S, objs)
      BY FS_Subset DEF Hashed
    <3> QED  BY <3>1, CountsAddUp
  <2> QED  BY <2>1 DEF InChain, Holds, IsTable
<1>3. CASE t.noexpand = 1
  <2>1. Added(t, o, objs) = t1
    BY <1>2, <1>3 DEF Added, MustExpand
  <2>2. \A b \in 0 .. t.num_buckets - 1 : t1.buckets[b].expand_mult = t.buckets[b].expand_mult
    BY BucketInRange DEF InChain, Holds, IsTable, IsBucket
  <2> HIDE DEF t1
  <2>3. Bounded(t1)
    BY <1>2, <1>3, <2>2 DEF Bounded
  <2> QED  BY <2>1, <2>3
<1>4. CASE t.noexpand # 1
  <2>1. /\ t1.num_items <= 2 * (t1.num_buckets * Threshold)
        /\ ~ MustExpand(t1, t1.buckets[home]) => Bounded(t1)
    BY <1>4, InChainBounded
  <2>2. t1.num_items # 0
    BY <1>2
  <2>3. Bounded(HASH_EXPAND_BUCKETS(t1, objs))
    BY <1>1, <2>1, <2>2, ExpansionBounded
  <2> QED  BY <2>1, <2>3 DEF Added
<1> QED  BY <1>3, <1>4

(* A deletion shortens a chain and changes no limit.                       *)
LEMMA DeletedBounded ==
  ASSUME NEW t, NEW S, NEW o \in S, Holds(t, S, objects), Hashed(S, objects), Bounded(t)
  PROVE  Bounded(Deleted(t, o))
<1> DEFINE num  == t.num_buckets
           R    == 0 .. num - 1
           home == BucketOf(o, objects, num)
           t1   == Deleted(t, o)
<1>1. /\ home \in R /\ num \in Nat \ {0} /\ t.num_items \in Nat /\ Threshold \in Nat
      /\ \A b \in R : t.buckets[b].count \in Nat
  BY BucketInRange, CountsAddUp, HashMapAssumption DEF Holds, IsTable
<1>2. t1.num_buckets = num /\ t1.num_items = t.num_items - 1 /\ t1.noexpand = t.noexpand
  BY DEF Deleted, Holds, IsTable
<1>3. \A b \in R : /\ t1.buckets[b].expand_mult = t.buckets[b].expand_mult
                   /\ t1.buckets[b].count \in {t.buckets[b].count, t.buckets[b].count - 1}
  BY <1>1 DEF Deleted, Holds, IsTable, IsBucket
<1> HIDE DEF t1
<1>4. \A b \in R : t1.buckets[b].expand_mult \in Nat
  BY <1>3 DEF Bounded
<1>5. ASSUME t1.noexpand # 1
      PROVE  /\ \A b \in R : t1.buckets[b].count <= Limit(t1.buckets[b])
             /\ SumFunctionOnSet(Mults(t1), R) <= num
             /\ t1.num_items < 2 * (num * Threshold)
  <2>1. \A b \in R : /\ Limit(t1.buckets[b]) = Limit(t.buckets[b]) /\ Limit(t.buckets[b]) \in Int
                     /\ t.buckets[b].count <= Limit(t.buckets[b])
    BY <1>1, <1>2, <1>3, <1>4, <1>5 DEF Limit, Bounded
  <2>2. \A b \in R : t1.buckets[b].count <= Limit(t1.buckets[b])
    BY <1>1, <1>3, <2>1
  <2>3. Mults(t1) = Mults(t)
    BY <1>2, <1>3 DEF Mults
  <2>4. t.num_items < 2 * (num * Threshold) /\ num * Threshold \in Int
    BY <1>1, <1>2, <1>5 DEF Bounded
  <2>5. t1.num_items < 2 * (num * Threshold)
    BY <1>1, <1>2, <2>4
  <2> QED  BY <1>2, <1>5, <2>2, <2>3, <2>5 DEF Bounded
<1>6. Bounded(t1)
  BY <1>2, <1>4, <1>5 DEF Bounded
<1> QED  BY <1>6 DEF t1

LEMMA BoundedNext == ASSUME Bounded(tbl') PROVE Bounded(tbl)'
BY DEF Bounded, Limit, Mults

LEMMA NextBounded == IInv /\ Bounded(tbl) /\ [Next]_vars => Bounded(tbl)'
<1> SUFFICES ASSUME IInv, Bounded(tbl), [Next]_vars PROVE Bounded(tbl')
  BY BoundedNext
<1>1. ASSUME NEW k \in Keys, NEW v \in Values, hashmap_put(k, v) PROVE Bounded(tbl')
  <2> DEFINE o == Len(objects')
  <2>1. /\ Holds(Before, Live, objects') /\ o \notin Live /\ Hashed(Live \union {o}, objects')
        /\ tbl' = Added(Before, o, objects')
    BY <1>1, PutIs
  <2>2. Bounded(Before)
    BY NewTableBounded DEF Before
  <2> HIDE DEF o
  <2> QED  BY <2>1, <2>2, AddedBounded
<1>2. CASE HASH_DEL
  <2>1. head \in Live
    BY <1>2 DEF IInv, Shape, Live, HASH_DEL
  <2>2. Bounded(Deleted(tbl, head))
    BY <2>1, LiveHashed, DeletedBounded DEF IInv
  <2> QED  BY <1>2, <2>2, NewTableBounded DEF HASH_DEL
<1>3. CASE UNCHANGED tbl
  BY <1>3
<1> QED
  BY <1>1, <1>2, <1>3 DEF Next, vars, hashmap_get, hashmap_size, hashmap_iterator_reset,
     hashmap_iterator_next, hashmap_destroy, FreeMap, hashmap_create

(* "by expanding buckets the hash keeps a bound on the chain length": as   *)
(* long as the table may expand, no chain exceeds the limit of its bucket, *)
(* whatever the hash function (HASH_ADD_TO_BKT, HASH_EXPAND_BUCKETS).      *)
THEOREM ChainsStayBounded == Spec => []ChainsBounded
<1>1. Init => Bounded(tbl)
  BY NewTableBounded DEF Init
<1>2. IInv /\ Bounded(tbl) => ChainsBounded
  BY DEF IInv, Holds, IsTable, Bounded, Limit, ChainsBounded
<1>3. Spec => []IInv
  BY Invariant
<1> QED  BY <1>1, <1>2, <1>3, NextBounded, PTL DEF Spec
=============================================================================
