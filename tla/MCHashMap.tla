----------------------------- MODULE MCHashMap -----------------------------
EXTENDS HashMap, TLC

(* The keys are interchangeable: a map treats them alike, and every hash   *)
(* of them is a possible initial state.                                    *)
KeySymmetry == Permutations(Keys)
=============================================================================
