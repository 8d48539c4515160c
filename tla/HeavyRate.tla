------------------------------- MODULE HeavyRate -------------------------------
(***************************************************************************)
(* The rate of heavy packets, on which the manager decides to enter alert  *)
(* mode.  A scanner counts its packets in two locals and adds both to its  *)
(* two counters in the manager once in UpdateEvery packets, one atomic add *)
(* after the other; the manager fetches and zeroes the counters of one     *)
(* scanner after the other, one atomic exchange after the other.           *)
(***************************************************************************)
EXTENDS Integers

CONSTANTS
  NumScanners,
  UpdateEvery,   (* SCANNER_NUM_PACKETS_TO_UPDATE_MANAGER                  *)
  Threshold,     (* work_groups_thresholds[0], in percent                  *)
  MaxPackets     (* bound on the packets of a scanner                      *)

ASSUME RateAssumption ==
  /\ NumScanners \in Nat \ {0}
  /\ UpdateEvery \in Nat \ {0}
  /\ Threshold \in Nat
  /\ MaxPackets \in Nat

VARIABLES
  spc, num_total, num_heavy,    (* per scanner, its locals                 *)
  total_count, heavy_count,     (* per scanner, in the manager             *)
  mpc, mi, sum_total, sum_heavy, (* the manager's locals                   *)
  alert,                        (* alert mode has been entered             *)
  scanned, scannedHeavy,        (* history: packets of each scanner        *)
  readTotal, readHeavy          (* history: what the manager fetched       *)

locals   == <<num_total, num_heavy>>
counters == <<total_count, heavy_count>>
sums     == <<sum_total, sum_heavy>>
seen     == <<scanned, scannedHeavy>>
fetched  == <<readTotal, readHeavy>>
rateVars == <<spc, locals, counters, mpc, mi, sums, alert, seen, fetched>>

Scanners == 0 .. NumScanners - 1
None     == [s \in Scanners |-> 0]
Add(f, s, n) == [f EXCEPT ![s] = @ + n]

RateInit ==
  /\ spc = [s \in Scanners |-> "scan"]
  /\ num_total = None /\ num_heavy = None
  /\ total_count = None /\ heavy_count = None
  /\ mpc = "sleep" /\ mi = 0 /\ sum_total = 0 /\ sum_heavy = 0
  /\ alert = FALSE
  /\ scanned = None /\ scannedHeavy = None
  /\ readTotal = None /\ readHeavy = None

(* A packet is scanned and turns out heavy or not. *)
Scan(s) ==
  /\ spc[s] = "scan"
  /\ scanned[s] < MaxPackets
  /\ \E heavy \in {0, 1} :
       /\ num_heavy' = Add(num_heavy, s, heavy)
       /\ scannedHeavy' = Add(scannedHeavy, s, heavy)
  /\ num_total' = Add(num_total, s, 1)
  /\ scanned' = Add(scanned, s, 1)
  /\ spc' = [spc EXCEPT ![s] = IF num_total'[s] % UpdateEvery = 0 THEN "add_total" ELSE "scan"]
  /\ UNCHANGED <<counters, mpc, mi, sums, alert, fetched>>

(* Mutant: the packets that are not heavy. *)
AddLight(s) ==
  /\ spc[s] = "add_total"
  /\ total_count' = Add(total_count, s, num_total[s] - num_heavy[s])
  /\ spc' = [spc EXCEPT ![s] = "add_heavy"]
  /\ UNCHANGED <<locals, heavy_count, mpc, mi, sums, alert, seen, fetched>>

(* multicore_manager_update: "Updating total first", ... *)
AddTotal(s) ==
  /\ spc[s] = "add_total"
  /\ total_count' = Add(total_count, s, num_total[s])
  /\ spc' = [spc EXCEPT ![s] = "add_heavy"]
  /\ UNCHANGED <<locals, heavy_count, mpc, mi, sums, alert, seen, fetched>>

(* ... then heavy; back in the scanner the locals start anew. *)
AddHeavy(s) ==
  /\ spc[s] = "add_heavy"
  /\ heavy_count' = Add(heavy_count, s, num_heavy[s])
  /\ num_total' = [num_total EXCEPT ![s] = 0]
  /\ num_heavy' = [num_heavy EXCEPT ![s] = 0]
  /\ spc' = [spc EXCEPT ![s] = "scan"]
  /\ UNCHANGED <<total_count, mpc, mi, sums, alert, seen, fetched>>

(* get_heavy_packet_rate, once a second. *)
StartReading ==
  /\ mpc = "sleep"
  /\ mpc' = "heavy"
  /\ mi' = 0 /\ sum_total' = 0 /\ sum_heavy' = 0
  /\ UNCHANGED <<spc, locals, counters, alert, seen, fetched>>

(* Mutants: the counter is only read; the loop goes one too far. *)
Kept(f)   == f
(* __sync_lock_test_and_set(&f[i], 0) *)
Fetched(f) == [f EXCEPT ![mi] = 0]
Last       == mi + 1 >= NumScanners

ReadHeavy ==
  /\ mpc = "heavy"
  /\ sum_heavy' = sum_heavy + heavy_count[mi]
  /\ readHeavy' = Add(readHeavy, mi, heavy_count[mi])
  /\ heavy_count' = Fetched(heavy_count)
  /\ mpc' = "total"
  /\ UNCHANGED <<spc, locals, total_count, mi, sum_total, alert, seen, readTotal>>

ReadTotal ==
  /\ mpc = "total"
  /\ sum_total' = sum_total + total_count[mi]
  /\ readTotal' = Add(readTotal, mi, total_count[mi])
  /\ total_count' = Fetched(total_count)
  /\ IF Last THEN mi' = 0 /\ mpc' = "decide"
             ELSE mi' = mi + 1 /\ mpc' = "heavy"
  /\ UNCHANGED <<spc, locals, heavy_count, sum_heavy, alert, seen, readHeavy>>

(* start_multicore_manager_thread: a rate of nothing is 0.  Alert mode is  *)
(* not left again; the rate goes on being read there and is not used.      *)
High == sum_total > 0 /\ 100 * sum_heavy > Threshold * sum_total

Decide ==
  /\ mpc = "decide"
  /\ alert' = (alert \/ High)
  /\ mpc' = "sleep"
  /\ UNCHANGED <<spc, locals, counters, mi, sums, seen, fetched>>

ScannerStep(s) == Scan(s) \/ AddTotal(s) \/ AddHeavy(s)
ManagerStep    == StartReading \/ ReadHeavy \/ ReadTotal \/ Decide

RateNext == ManagerStep \/ \E s \in Scanners : ScannerStep(s)

RateSpec == RateInit /\ [][RateNext]_rateVars

-----------------------------------------------------------------------------
(* The types of the counters and of the threads' locals. *)
RateTypeOK ==
  /\ spc \in [Scanners -> {"scan", "add_total", "add_heavy"}]
  /\ num_total \in [Scanners -> Nat] /\ num_heavy \in [Scanners -> Nat]
  /\ total_count \in [Scanners -> Nat] /\ heavy_count \in [Scanners -> Nat]
  /\ mpc \in {"sleep", "heavy", "total", "decide"} /\ alert \in BOOLEAN
  /\ mi \in Scanners
  /\ sum_total \in Nat /\ sum_heavy \in Nat
  /\ scanned \in [Scanners -> Nat] /\ scannedHeavy \in [Scanners -> Nat]
  /\ readTotal \in [Scanners -> Nat] /\ readHeavy \in [Scanners -> Nat]

NotYetAdded(s) == IF spc[s] = "add_heavy" THEN 0 ELSE num_total[s]

(* However adds and exchanges interleave, the manager fetches every packet *)
(* of a scanner, and every heavy one, exactly once.                        *)
NoCountLost ==
  \A s \in Scanners :
    /\ scanned[s] = readTotal[s] + total_count[s] + NotYetAdded(s)
    /\ scannedHeavy[s] = readHeavy[s] + heavy_count[s] + num_heavy[s]

(* "Updating total first" does what it is for in the long run: taken over  *)
(* all readings so far the manager has never seen more heavy packets of a  *)
(* scanner than packets, whatever it read in the middle of an update.      *)
NeverHighInTotal ==
  \A s \in Scanners : ~ (mpc = "total" /\ mi = s) => readHeavy[s] <= readTotal[s]
=============================================================================
