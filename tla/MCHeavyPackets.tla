----------------------------- MODULE MCHeavyPackets -----------------------------
(***************************************************************************)
(* Two programs of which one runs, the one `program' says:                 *)
(*   "drain"   a heavy-packet queue at the end of the run (DrainedQueue);  *)
(*   "rate"    the counters of the heavy packets' rate (HeavyRate).        *)
(* The variables of the other stay idle.                                   *)
(***************************************************************************)
EXTENDS DrainedQueue, HeavyRate

VARIABLE program

allVars == <<program, drainVars, rateVars>>

MCInit == program \in {"drain", "rate"} /\ DrainInit /\ RateInit

MCDrain == program = "drain" /\ DrainNext /\ UNCHANGED <<program, rateVars>>
MCRate  == program = "rate" /\ RateNext /\ UNCHANGED <<program, drainVars>>

(* Fairness is that of FairDrainSpec. *)
MCSpec ==
  /\ MCInit /\ [][MCDrain \/ MCRate]_allVars
  /\ WF_allVars(/\ program = "drain" /\ (StartDrain \/ Dequeue("manager"))
                /\ UNCHANGED <<program, rateVars>>)
=================================================================================
