------------------------------- MODULE MCInputs -------------------------------
(***************************************************************************)
(* Every set of options; one, two and three thresholds, of which the last  *)
(* may be an empty one.                                                    *)
(*                                                                         *)
(* Every text of up to three lines of: one and two characters; words, also *)
(* one of four digits; the bytes 0 to 2, which look like sizes; nothing; a *)
(* word that is no number; and lines at the limits of both buffers.        *)
(*                                                                         *)
(* Every text of up to MaxLines lines: headings at three times, bytes that *)
(* look like a size, and bytes that make a packet too long and look like a *)
(* header themselves.                                                      *)
(***************************************************************************)
EXTENDS Inputs

CONSTANT MaxLines

MCThresholds == {<<"0.1">>, <<"0.1", ",", "0.5">>, <<"0.1", ",", "0.5", ",">>}

NoNumber == -1
Words(n) == <<[i \in 1 .. n |-> 1 + (i % 3)]>>
ShortLines ==
  {<<>>, <<<<65>>>>, <<<<65>>, <<66>>>>, <<<<0, 1>>, <<65>>>>, <<<<0, 2, 0>>>>,
   <<<<3338>>, <<1>>>>, <<<<65>>, <<0, NoNumber>>>>}
LongLines == {Words(257), Words(258), Words(261)}

MCPatternTexts == BoundedSeq(ShortLines, 3) \cup BoundedSeq(ShortLines \cup LongLines, 2)

Heading(kind, time) == [kind |-> kind, time |-> time, bytes |-> <<>>]
Bytes(bytes) == [kind |-> "bytes", time |-> 0, bytes |-> bytes]
HeaderBytes == <<0, 0, 0, 1, 0, 0, 0, 0, 0, 0, 0, 0, 0, 0, 0, 5, 9>>
TraceLines ==
  {Heading("ip", 999), Heading("ip", 70000123), Heading("other", 0),
   Bytes(<<7>>), Bytes(<<0, 2>>), Bytes(HeaderBytes)}

MCTraceTexts == BoundedSeq(TraceLines, MaxLines)
===============================================================================
