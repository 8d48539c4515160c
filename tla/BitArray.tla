------------------------------- MODULE BitArray -------------------------------
(***************************************************************************)
(* Elements of 1, 2 and 3 bits packed into bytes.  An array is the part of *)
(* a sequence of bytes that begins `at' bytes after its start; a set only  *)
(* adds bits to those that are there.                                      *)
(***************************************************************************)
EXTENDS Integers, Sequences, Bitwise

GET_1BIT_ELEMENT(m, at, i) == (m[at + i \div 8 + 1] \div 2^(i % 8)) % 2

SET_1BIT_ELEMENT(m, i, value) ==
  [m EXCEPT ![i \div 8 + 1] = @ | ((value % 2) * 2^(i % 8))]

GET_2BITS_ELEMENT(m, at, i) == (m[at + i \div 4 + 1] \div 2^(2 * (i % 4))) % 4

SET_2BITS_ELEMENT(m, i, value) ==
  [m EXCEPT ![i \div 4 + 1] = @ | ((value % 4) * 2^(2 * (i % 4)))]

(* An element of three bits may lie in two bytes. *)
GET_3BITS_ELEMENT(m, at, i) ==
  LET bit  == (3 * i) % 8
      byte == at + (3 * i) \div 8 + 1
  IN ((m[byte] \div 2^bit) % 8)
     + IF bit > 5 THEN (m[byte + 1] % 2^(bit - 5)) * 2^(8 - bit) ELSE 0

SET_3BITS_ELEMENT(m, i, value) ==
  LET bits == (value % 8) * 2^((3 * i) % 8)
      byte == (3 * i) \div 8 + 1
  IN [k \in DOMAIN m |-> CASE k = byte -> m[k] | (bits % 256)
                           [] k = byte + 1 -> m[k] | (bits \div 256)
                           [] OTHER -> m[k]]
===============================================================================
