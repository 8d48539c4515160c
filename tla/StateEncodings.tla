---------------------------- MODULE StateEncodings ----------------------------
(***************************************************************************)
(* How the bytes of a state of the compressed machine are laid out: the    *)
(* linear encoded, the bitmap encoded, the lookup table and the path       *)
(* compressed state, each as its memory is allocated, filled and read.     *)
(*                                                                         *)
(* The bytes of a state are a sequence; the code's index k is k + 1.  What *)
(* is to be encoded is a record [type, chars, ptrs, types, matches, last]  *)
(* where ptrs are the gotos and last is the failure of a branching state,  *)
(* ptrs are the failures and last is the next state of a path.             *)
(***************************************************************************)
EXTENDS BitArray, SequencesExt

STATE_TYPE_LINEAR_ENCODED == 0
STATE_TYPE_BITMAP_ENCODED == 1
STATE_TYPE_LOOKUP_TABLE   == 2
STATE_TYPE_PATH_COMPRESSED == 3

PTR_TYPE_REGULAR == 0
PTR_TYPE_LEVEL0 == 1
PTR_TYPE_LEVEL1 == 2
PTR_TYPE_LEVEL2 == 3

SIZE_IN_BYTES == 551

Lo(n) == n % 256
Hi(n) == (n \div 256) % 256
Ptr(p) == <<Lo(p), Hi(p)>>
Word(m, k) == m[k + 1] + 256 * m[k + 2]            (* low byte first  *)
BigWord(m, k) == 256 * m[k + 1] + m[k + 2]         (* high byte first *)

(* The first byte: two bits of type, six bits of size. *)
Header(type, size) == type + 4 * (size % 64)
TypeOf(m) == m[1] % 4
HeaderSize(m) == m[1] \div 4

CeilDiv(a, b) == (a + b - 1) \div b
Bytes(n, b) == [k \in 1 .. n |-> b]

(* Bytes written over those of m from index k on. *)
Overlay(m, k, bytes) == SubSeq(m, 1, k) \o bytes \o SubSeq(m, k + Len(bytes) + 1, Len(m))

(* The sequences of seqs one behind the other, joined by halves: there may *)
(* be hundreds of them.                                                    *)
Joined(seqs) ==
  LET from[i \in Nat, n \in Nat] ==
        IF n = 0 THEN <<>>
        ELSE IF n = 1 THEN seqs[i]
        ELSE from[i, n \div 2] \o from[i + n \div 2, n - n \div 2]
  IN from[1, Len(seqs)]

-----------------------------------------------------------------------------
(* Allocation.  The memory malloc returns holds anything, here `junk'.     *)

FlagBytes(size) == CeilDiv(3 * size, 8)

Allocate(header, memsize, junk) == header \o Bytes(memsize - Len(header), junk)

createEmptyState_LE(id, size, levels, junk) ==
  LET memsize == 3 + 1 + size + 2 * (size - levels) + FlagBytes(size) + 2
  IN Allocate(<<Header(STATE_TYPE_LINEAR_ENCODED, size), Hi(id), Lo(id), Lo(memsize)>>,
              memsize, junk)

createEmptyState_BM(id, size, levels, junk) ==
  LET memsize == 3 + 1 + 32 + 2 * (size - levels) + FlagBytes(size) + 2
  IN Allocate(<<Header(STATE_TYPE_BITMAP_ENCODED, size), Hi(id), Lo(id), Lo(memsize)>>,
              memsize, junk)

createEmptyState_LT(id, size, levels, junk) ==
  Allocate(<<Header(STATE_TYPE_LOOKUP_TABLE, size \div 256), Lo(size), Hi(id), Lo(id), 255>>,
           SIZE_IN_BYTES, junk)

createEmptyState_PC(id, size, levels, junk) ==
  LET memsize == 3 + 1 + 2 + size + 2 * (size - levels) + CeilDiv(size, 8) + CeilDiv(size, 4) + 2
  IN Allocate(<<Header(STATE_TYPE_PATH_COMPRESSED, size \div 256), Lo(size), Hi(id), Lo(id),
                Hi(memsize), Lo(memsize)>>, memsize, junk)

(* A branching state too large for its header becomes a lookup table. *)
MAX_NODE_DEGREE == 64
BranchType(d) == IF Len(d.chars) > MAX_NODE_DEGREE THEN STATE_TYPE_LOOKUP_TABLE ELSE d.type

generateEmptyState(d, id, levels, junk) ==
  LET size == Len(d.chars)
  IN IF d.type = STATE_TYPE_PATH_COMPRESSED THEN createEmptyState_PC(id, size, levels, junk)
     ELSE CASE BranchType(d) = STATE_TYPE_LINEAR_ENCODED -> createEmptyState_LE(id, size, levels, junk)
            [] BranchType(d) = STATE_TYPE_BITMAP_ENCODED -> createEmptyState_BM(id, size, levels, junk)
            [] BranchType(d) = STATE_TYPE_LOOKUP_TABLE -> createEmptyState_LT(id, size, levels, junk)

-----------------------------------------------------------------------------
(* Filling. *)

Regulars(types, n) == {i \in 1 .. n : types[i] = PTR_TYPE_REGULAR}
Ptrs(ptrs, types, n) ==
  Joined([i \in 1 .. n |-> IF types[i] = PTR_TYPE_REGULAR THEN Ptr(ptrs[i]) ELSE <<>>])

(* Type and match of each goto, three bits each, after a memset. *)
Flags(d, size) ==
  FoldLeftDomain(LAMBDA m, i : SET_3BITS_ELEMENT(m, i - 1, 2 * d.types[i] + d.matches[i]),
                 Bytes(FlagBytes(size), 0), SubSeq(d.chars, 1, size))

setStateData_LE(m, d) ==
  LET size == HeaderSize(m)
  IN Overlay(m, 4, Ptr(d.last) \o SubSeq(d.chars, 1, size) \o Flags(d, size)
                     \o Ptrs(d.ptrs, d.types, size))

Bitmap(chars) ==
  FoldLeft(LAMBDA m, c : SET_1BIT_ELEMENT(m, c, 1), Bytes(32, 0), chars)

setStateData_BM(m, d) ==
  LET size == HeaderSize(m)
  IN Overlay(m, 4, Ptr(d.last) \o Bitmap(SubSeq(d.chars, 1, size)) \o Flags(d, size)
                     \o Ptrs(d.ptrs, d.types, size))

setStateData_LT(m, d) ==
  LET size == 256 * HeaderSize(m) + m[2]
      At(c) == SelectInSeq(SubSeq(d.chars, 1, size), LAMBDA x : x = c)
      matchmap == FoldLeftDomain(LAMBDA b, i : SET_1BIT_ELEMENT(b, d.chars[i], d.matches[i]),
                                 Bytes(32, 0), SubSeq(d.chars, 1, size))
      table == [k \in 1 .. 512 |->
                  LET i == At((k - 1) \div 2)
                  IN IF i = 0 THEN 0 ELSE IF k % 2 = 1 THEN Lo(d.ptrs[i]) ELSE Hi(d.ptrs[i])]
  IN Overlay(m, 5, Ptr(d.last) \o matchmap \o table)

(* The failure to the root has a type of its own. *)
FailTypes(d) == [i \in DOMAIN d.types |-> IF d.ptrs[i] = 0 THEN PTR_TYPE_LEVEL0 ELSE d.types[i]]

(* A path may be long: each byte of its two arrays is filled by itself.    *)
Part(s, k, n) == SubSeq(s, n * (k - 1) + 1, IF n * k < Len(s) THEN n * k ELSE Len(s))

setStateData_PC(m, d) ==
  LET size    == 256 * HeaderSize(m) + m[2]
      MatchByte(bits)  == FoldLeftDomain(LAMBDA b, i : SET_1BIT_ELEMENT(b, i - 1, bits[i]),
                                         <<0>>, bits)[1]
      FlagByte(types) == FoldLeftDomain(LAMBDA b, i : SET_2BITS_ELEMENT(b, i - 1, types[i]),
                                         <<0>>, types)[1]
      matches == [k \in 1 .. CeilDiv(size, 8) |-> MatchByte(Part(d.matches, k, 8))]
      flags   == [k \in 1 .. CeilDiv(size, 4) |-> FlagByte(Part(FailTypes(d), k, 4))]
  IN Overlay(m, 6, Ptr(d.last) \o d.chars \o matches \o flags \o Ptrs(d.ptrs, FailTypes(d), size))

(* Mutant: the patterns stay where they are. *)
SortGotos(d) ==
  LET order == SortSeq([i \in DOMAIN d.chars |-> i], LAMBDA a, b : d.chars[a] < d.chars[b])
      Moved(s) == [k \in DOMAIN order |-> s[order[k]]]
  IN [d EXCEPT !.chars = Moved(@), !.ptrs = Moved(@), !.types = Moved(@), !.matches = Moved(@)]

(* A bitmap encoded state wants its gotos, and the patterns its matching   *)
(* gotos report, in the order of their characters.                         *)
sortArrays(d) ==
  LET order == SortSeq([i \in DOMAIN d.chars |-> i], LAMBDA a, b : d.chars[a] < d.chars[b])
      Row(i) == Cardinality({j \in 1 .. i : d.matches[j] = 1})
      Moved(s) == [k \in DOMAIN order |-> s[order[k]]]
      matching == SelectSeq(order, LAMBDA i : d.matches[i] = 1)
  IN [d EXCEPT !.chars = Moved(@), !.ptrs = Moved(@), !.types = Moved(@), !.matches = Moved(@),
               !.patterns = [k \in DOMAIN matching |-> @[Row(matching[k])]]]

(* setDataBranchState and setDataPathCompressedState, by the type that was *)
(* written into the header: what is stored in m, and in the pattern row.   *)
setData(m, d) ==
  CASE TypeOf(m) = STATE_TYPE_LINEAR_ENCODED -> [mem |-> setStateData_LE(m, d), row |-> d.patterns]
    [] TypeOf(m) = STATE_TYPE_BITMAP_ENCODED ->
         [mem |-> setStateData_BM(m, sortArrays(d)), row |-> sortArrays(d).patterns]
    [] TypeOf(m) = STATE_TYPE_LOOKUP_TABLE   -> [mem |-> setStateData_LT(m, d), row |-> d.patterns]
    [] TypeOf(m) = STATE_TYPE_PATH_COMPRESSED -> [mem |-> setStateData_PC(m, d), row |-> d.patterns]

-----------------------------------------------------------------------------
(* Reading: sizes, ids and the next state for the bytes str[idx + 1] ..    *)

getStateID(m) == IF TypeOf(m) \in {STATE_TYPE_LINEAR_ENCODED, STATE_TYPE_BITMAP_ENCODED}
                 THEN BigWord(m, 1) ELSE BigWord(m, 2)

getStateSizeInBytes(m) ==
  CASE TypeOf(m) \in {STATE_TYPE_LINEAR_ENCODED, STATE_TYPE_BITMAP_ENCODED} -> m[4]
    [] TypeOf(m) = STATE_TYPE_LOOKUP_TABLE   -> SIZE_IN_BYTES
    [] TypeOf(m) = STATE_TYPE_PATH_COMPRESSED -> BigWord(m, 4)

(* Mutant: the byte in which a lookup table, too, keeps a size is trusted. *)
RecordedSize(m) == IF TypeOf(m) = STATE_TYPE_LOOKUP_TABLE THEN m[5] ELSE getStateSizeInBytes(m)

(* How far from a state the next one begins in the buffer of a dump. *)
getNextStatePointer(m) == getStateSizeInBytes(m)

hashmap_get(map, key) == map[SelectInSeq(map, LAMBDA e : e.key = key)].data

(* Where a pointer of a type leads, by the tables of the machine for the   *)
(* two bytes a and b read last or, for a regular one, by the bytes stored. *)
Target(machine, type, stored, a, b) ==
  CASE type = PTR_TYPE_REGULAR -> stored
    [] type = PTR_TYPE_LEVEL0  -> 0
    [] type = PTR_TYPE_LEVEL1  -> machine.firstLevelLookupTable[b]
    [] type = PTR_TYPE_LEVEL2  -> hashmap_get(machine.secondLevelLookupHash, 256 * a + b)

(* `pattern' is the place, in the row of the state, of the pattern that is *)
(* reported in verbose mode, counted from 1.                               *)
Result(next, match, pattern, fail, idx) ==
  [next |-> next, match |-> match, pattern |-> pattern, fail |-> fail, idx |-> idx]
Failure(next, idx) == Result(next, 0, 0, TRUE, idx)

(* The goto with index i of a branching state whose flags begin at `flags':*)
(* its pointer is behind those of the regular gotos before it.             *)
FollowGoto(machine, m, flags, size, i, str, idx) ==
  LET Type(j)  == GET_3BITS_ELEMENT(m, flags, j) \div 2
      Match(j) == GET_3BITS_ELEMENT(m, flags, j) % 2
      count    == Cardinality({j \in 0 .. i - 1 : Type(j) = PTR_TYPE_REGULAR})
      stored   == IF Type(i) = PTR_TYPE_REGULAR THEN Word(m, flags + FlagBytes(size) + 2 * count) ELSE 0
      before   == Cardinality({j \in 0 .. i - 1 : Match(j) = 1})
  IN Result(Target(machine, Type(i), stored, str[idx], str[idx + 1]),
            Match(i), Match(i) * (before + 1), FALSE, idx + 1)

(* The characters are compared with a byte as signed ones: none of 128 and *)
(* above is ever equal to it.                                              *)
getNextState_LE(machine, m, str, idx) ==
  LET size  == HeaderSize(m)
      Equal(i) == m[6 + i + 1] = str[idx + 1] /\ m[6 + i + 1] < 128
      found == {i \in 0 .. size - 1 : Equal(i)}
  IN IF found = {} THEN Failure(Word(m, 4), idx)
     ELSE FollowGoto(machine, m, 6 + size, size, Min(found), str, idx)

(* The goto of a byte is as many places on as the bitmap has lesser bytes. *)
getNextState_BM(machine, m, str, idx) ==
  LET c == str[idx + 1]
  IN IF GET_1BIT_ELEMENT(m, 6, c) = 0 THEN Failure(Word(m, 4), idx)
     ELSE FollowGoto(machine, m, 38, HeaderSize(m),
                     Cardinality({b \in 0 .. c - 1 : GET_1BIT_ELEMENT(m, 6, b) = 1}), str, idx)

(* The masks for the last four bits of a byte are written as hexadecimal   *)
(* numbers, 0x16 to 0x128; the loop ends after the first byte if c > 8.    *)
CountedBefore(m, c) ==
  LET masks == <<1, 2, 4, 8, 22, 50, 100, 296>>
  IN Cardinality({b \in 0 .. 7 : b < c /\ (m[8] & masks[b + 1]) # 0})

getNextState_LT(machine, m, str, idx) ==
  LET c     == str[idx + 1]
      match == GET_1BIT_ELEMENT(m, 7, c)
  IN IF Word(m, 39 + 2 * c) = 0 THEN Failure(Word(m, 5), idx)
     ELSE Result(Word(m, 39 + 2 * c), match,
                 match * (CountedBefore(m, c) + 1), FALSE, idx + 1)

getNextState_PC(machine, m, str, idx) ==
  LET size  == 256 * HeaderSize(m) + m[2]
      Same(i) == idx + i < Len(str) /\ str[idx + i + 1] = m[8 + i + 1]
      i     == Min({k \in 0 .. size : k = size \/ ~ Same(k)})
      flags == 8 + size + CeilDiv(size, 8)
      Type(j) == GET_2BITS_ELEMENT(m, flags, j)
      count == Cardinality({j \in 0 .. i - 1 : Type(j) = PTR_TYPE_REGULAR})
      stored == IF Type(i) = PTR_TYPE_REGULAR THEN Word(m, flags + CeilDiv(size, 4) + 2 * count) ELSE 0
      match == IF \E j \in 0 .. i - 1 : GET_1BIT_ELEMENT(m, 8 + size, j) = 1 THEN 1 ELSE 0
  IN IF i < size /\ idx + i < Len(str)
     THEN Result(Target(machine, Type(i), stored, str[idx + i - 1], str[idx + i]),
                 match, 0, TRUE, idx + i)
     ELSE Result(Word(m, 6), match, 0, FALSE, idx + i)

getNextState(machine, m, str, idx) ==
  CASE TypeOf(m) = STATE_TYPE_LINEAR_ENCODED -> getNextState_LE(machine, m, str, idx)
    [] TypeOf(m) = STATE_TYPE_BITMAP_ENCODED -> getNextState_BM(machine, m, str, idx)
    [] TypeOf(m) = STATE_TYPE_LOOKUP_TABLE   -> getNextState_LT(machine, m, str, idx)
    [] TypeOf(m) = STATE_TYPE_PATH_COMPRESSED -> getNextState_PC(machine, m, str, idx)
===============================================================================
