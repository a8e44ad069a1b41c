------------------------------- MODULE Sync -------------------------------
(***************************************************************************)
(* hdl/axi_sync/sync.vhd: the counter of seconds from the epoch.  A PPS    *)
(* level from the 64 MHz domain goes through a two-flip-flop synchroniser  *)
(* and an edge detector; a detected edge counts one second and is handed   *)
(* to the formatter as digital_pps_out.  `load` overwrites the counter     *)
(* with the timestamp software wrote.  One step is one rising edge of clk. *)
(*                                                                         *)
(* A level that changes while it is sampled resolves to its old or its new *)
(* value: onepps_in takes any value at any edge, which covers both.        *)
(*                                                                         *)
(* base and pulses are history: the value the counter last restarted from  *)
(* and the pulses that entered the synchroniser since.                     *)
(***************************************************************************)
EXTENDS Integers

CONSTANT SecondMod      \* 2^30 in the code: width of cnt

ASSUME SecondModAssumption == SecondMod \in Nat /\ SecondMod > 1

VARIABLES
  onepps_in, sclr, load, time_load,           \* inputs
  onepps_r_1, onepps_r_2, onepps_r_3, cnt,    \* registers
  base, pulses                                \* history

inputs == <<onepps_in, sclr, load, time_load>>
registers == <<onepps_r_1, onepps_r_2, onepps_r_3, cnt>>
vars == <<inputs, registers, base, pulses>>

Seconds == 0 .. SecondMod - 1

(* Seeded bug: the level counts, not its edge.                             *)
onepps_RE_Level == onepps_r_2

onepps_RE == onepps_r_2 /\ ~onepps_r_3

SynchronizerFFs == /\ onepps_r_1' = onepps_in
                   /\ onepps_r_2' = onepps_r_1

EdgeDetector == onepps_r_3' = onepps_r_2

(* Clear wins over load, load wins over a PPS edge.                        *)
Count ==
  cnt' = IF sclr THEN 0
         ELSE IF load THEN time_load
         ELSE IF onepps_RE THEN (cnt + 1) % SecondMod
         ELSE cnt

Edge == SynchronizerFFs /\ EdgeDetector /\ Count

(* Pulses between the first flip-flop and the counter.                     *)
One(b) == IF b THEN 1 ELSE 0
InFlight == One(onepps_r_1 /\ ~onepps_r_2) + One(onepps_r_2 /\ ~onepps_r_3)

Remember ==
  /\ base' = IF sclr \/ load THEN (cnt' + InFlight') % SecondMod ELSE base
  /\ pulses' = IF sclr \/ load THEN 0
               ELSE (pulses + One(onepps_in /\ ~onepps_r_1)) % SecondMod

NewInputs == /\ onepps_in' \in BOOLEAN
             /\ sclr' \in BOOLEAN
             /\ load' \in BOOLEAN
             /\ time_load' \in Seconds

(* The configuration bit stream sets the synchroniser's registers to one   *)
(* (INIT => 1) and the plain registers to zero; the AXI reset is low.      *)
Init == /\ onepps_in \in BOOLEAN
        /\ sclr = TRUE
        /\ load = FALSE
        /\ time_load = 0
        /\ onepps_r_1 = TRUE
        /\ onepps_r_2 = TRUE
        /\ onepps_r_3 = FALSE
        /\ cnt = 0
        /\ base = InFlight
        /\ pulses = 0

Next == Edge /\ NewInputs /\ Remember

Spec == Init /\ [][Next]_vars

----------------------------------------------------------------------------
(* Properties                                                              *)

TypeOK ==
  /\ onepps_in \in BOOLEAN /\ sclr \in BOOLEAN /\ load \in BOOLEAN
  /\ time_load \in Seconds
  /\ onepps_r_1 \in BOOLEAN /\ onepps_r_2 \in BOOLEAN
  /\ onepps_r_3 \in BOOLEAN
  /\ cnt \in Seconds /\ base \in Seconds /\ pulses \in Seconds

(* Since the last clear or load the counter has advanced by one for every  *)
(* pulse that entered the synchroniser and left it, however long the pulse *)
(* stays high and whatever its phase: none is lost, none counts twice.     *)
EveryPulseCountsOnce ==
  (cnt + InFlight) % SecondMod = (base + pulses) % SecondMod
=============================================================================
