------------------------------- MODULE PacketScan -------------------------------
(***************************************************************************)
(* What the two machines made of the Aho-Corasick tree have in common: the *)
(* packet that one of them scans, the byte it has come to and its answer.  *)
(***************************************************************************)
EXTENDS AhoCorasick

CONSTANTS
  Packets,                (* the payloads                                  *)
  Drops                   (* the values of drop, 0 for never               *)

VARIABLES packet, drop, idx, res, rootVisits
================================================================================
