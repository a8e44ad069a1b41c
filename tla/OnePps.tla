------------------------------- MODULE OnePps -------------------------------
(***************************************************************************)
(* src/onepps_gen.vhd in the 64 MHz domain, and the counter of seconds     *)
(* (Sync) in the 100 MHz domain that samples its output.  One step is one  *)
(* rising edge of either clock; one or two edges of the faster clock lie   *)
(* between two of the slower, in any phase.                                *)
(*                                                                         *)
(* Every edge of the slower clock is also one sample: sample and frames    *)
(* say how the frames of samples lie in the seconds of this generator.     *)
(***************************************************************************)
EXTENDS Sync

CONSTANTS
  period, duty_cycle,   \* generics: 64000000 and 9600000 in the block design
  FrameSamples          \* samples of a frame: 32640, sixteen in each of 2040 words

ASSUME FrameSamplesAssumption == FrameSamples \in Nat \ {0}

(* lib_pkg: the least r with x <= 2^r.                                     *)
clog2(x) == CHOOSE r \in 0 .. x : /\ x <= 2 ^ r
                                  /\ \A q \in 0 .. r - 1 : 2 ^ q < x

CarrierMod == 2 ^ clog2(period)

(* A period that is a power of two does not fit the carrier: it would      *)
(* compare as zero, and the generator would never leave zero.              *)
ASSUME PeriodAssumption == /\ CarrierMod \in Nat
                           /\ period \in Nat /\ period < CarrierMod
                           /\ duty_cycle \in 1 .. period - 1

VARIABLES
  carrier,           \* register; the output register is Sync's onepps_in
  edges,             \* edges of the faster clock since the last of the slower
  sample, frames,    \* history: position in a frame; frames ended since the
  lastSecond,        \* last pulse began; frames of the second before it
  apart, interval    \* history: slower edges since the last detected pulse;
                     \* and from the one before it to it

generator == <<carrier, sample, frames, lastSecond>>
allVars == <<vars, generator, edges, apart, interval>>

None == -1

----------------------------------------------------------------------------
(* Seeded bug: the period is one clock short.                              *)
period_end_Early == carrier = (period - 1) % CarrierMod

period_end == carrier = period % CarrierMod

(* Seeded bug: the carrier is not cleared and wraps at its width.          *)
Count_carrier_Free == carrier' = (carrier + 1) % CarrierMod

Count_carrier == carrier' = IF period_end THEN 0 ELSE (carrier + 1) % CarrierMod

(* Seeded bug: the output toggles while the carrier is below the duty      *)
(* cycle.                                                                  *)
pps_generation_Toggle == onepps_in' = (carrier < duty_cycle /\ ~onepps_in)

pps_generation == onepps_in' = (carrier < duty_cycle)

Begins == onepps_in' /\ ~onepps_in

CountFrames ==
  LET ended == IF frames = None THEN None
               ELSE frames + One(sample = FrameSamples - 1)
  IN /\ sample' = (sample + 1) % FrameSamples
     /\ frames' = IF Begins THEN 0 ELSE ended
     /\ lastSecond' = IF Begins THEN ended ELSE lastSecond

AdcEdge == /\ edges >= 1 /\ edges' = 0
           /\ Count_carrier /\ pps_generation /\ CountFrames
           /\ apart' = IF apart = None THEN None ELSE apart + 1
           /\ UNCHANGED <<interval, sclr, load, time_load, registers, base, pulses>>

(* A level that changes while it is sampled resolves to its old or its new *)
(* value: the two edges in either order.                                   *)
CoreEdge == /\ edges < 2 /\ edges' = edges + 1
            /\ UNCHANGED onepps_in /\ Next
            /\ apart' = IF onepps_RE' THEN 0 ELSE apart
            /\ interval' = IF onepps_RE' THEN apart ELSE interval
            /\ UNCHANGED generator

PpsInit == /\ Init /\ onepps_in = FALSE
           /\ carrier = 0 /\ edges = 0
           /\ sample \in 0 .. FrameSamples - 1
           /\ frames = None /\ lastSecond = None
           /\ apart = None /\ interval = None

PpsNext == AdcEdge \/ CoreEdge

PpsSpec == PpsInit /\ [][PpsNext]_allVars

----------------------------------------------------------------------------
(* Properties                                                              *)

(* Between two pulses that the 100 MHz side detects lie period + 1 clocks  *)
(* of the generator, one more or less for the phase of the two clocks: no  *)
(* pulse is missed, seen twice or detected at its other end.               *)
SecondsAreEven ==
  interval \in {None} \cup period .. period + 2

(* However the frames lie, a second holds as many as fit into period + 1   *)
(* samples, or one more: with the block design's numbers 1960 or 1961, not *)
(* the 1953 that main.c counts for one.                                    *)
FramesInASecond ==
  lastSecond # None =>
    LET whole == (period + 1) \div FrameSamples IN
      \/ lastSecond = whole
      \/ lastSecond = whole + 1 /\ (period + 1) % FrameSamples # 0
=============================================================================
