-------------------------- MODULE MCCompressedMachine --------------------------
(* Every file of at most two patterns of at most MaxLong characters, and   *)
(* every file of three of at most MaxLength, longer ones before shorter,   *)
(* up to a renaming of the characters; every packet of PacketLength bytes; *)
(* bitmap encoded states, which differ from linear encoded ones in nothing *)
(* here, or lookup tables.                                                 *)
EXTENDS CompressedMachine

CONSTANTS Alphabet, MaxLength, MaxLong, PacketLength

PatternsUpTo(length) == BoundedSeq(Alphabet, length) \ {<<>>}
FilesOf(number, length) ==
  {f \in BoundedSeq(PatternsUpTo(length), number) : f # <<>> /\ IsInjective(f) /\ f[1][1] = 1}

MCFiles ==
  FilesOf(2, MaxLong)
  \cup {f \in FilesOf(3, MaxLength) : \A i \in 2 .. Len(f) : Len(f[i]) <= Len(f[i - 1])}
MCOptions == {<<1, 2>>, <<1, 1>>}
MCPackets == [1 .. PacketLength -> Alphabet]

ASSUME CompressedAssumption == CompressedInputs
================================================================================
