------------------------------ MODULE AdcPath ------------------------------
(***************************************************************************)
(* From the converter's pins to the FIFO: capture of the double data rate  *)
(* lines, the flag that says the pipeline is filled, the packing of Ratio  *)
(* samples into a word, the write side of the FIFO, and the reset, which   *)
(* software raises in the 100 MHz domain and which is stretched and        *)
(* synchronised into the 64 MHz domain of the samples.                     *)
(*                                                                         *)
(* CoreEdge is a rising edge of S_AXI_ACLK, AdcEdge one of S_AXIS_ACLK;    *)
(* between two of the latter come one or two of the former.  Edges that    *)
(* coincide are taken in either order, so a synchroniser that samples a    *)
(* changing level gets its old or its new value.                           *)
(*                                                                         *)
(* A sample is the conversion it comes from: its number, and the release   *)
(* of the reset after which it was taken.  The converter sends the odd     *)
(* bits of a conversion half a period before its even bits, which the      *)
(* extra flip-flop of the odd line makes up for.                           *)
(***************************************************************************)
EXTENDS Integers

CONSTANTS Ratio,        \* samples in a word: 16 in the code
          PulseLength,  \* of the stretched reset: 3 in the code
          CoreMax,      \* core edges in an ADC period: 100/64, at most 2
          FullHold,     \* ADC edges the FIFO stays full after its reset: 5
          FifoDepth,    \* 1024 in the code
          SampleMod,    \* bound: conversions are numbered in turn
          ReleaseMod    \* bound: releases of the reset are numbered in turn

ASSUME RatioAssumption == Ratio \in Nat /\ Ratio > 1
ASSUME SampleAssumption == /\ SampleMod \in Nat /\ SampleMod > 1
                           /\ ReleaseMod \in Nat /\ ReleaseMod > 1
(* The stretched reset is sampled at least once in the 64 MHz domain, and  *)
(* the FIFO takes nothing until it has gone through the synchroniser.      *)
ASSUME ResetAssumption == /\ CoreMax \in Nat \ {0}
                          /\ PulseLength \in Nat /\ PulseLength >= CoreMax
                          /\ FullHold \in Nat /\ FullHold >= 3

VARIABLES
  since,                          \* core edges since the last ADC edge
  rst_i, pulse_cnt,               \* reset and its stretcher, 100 MHz
  rst_sync, adc_rst,              \* reset synchroniser, 64 MHz
  number, release,                \* conversion on the pins
  even_ff, dat_even, dat_odd, dat_odd_d,           \* data_capture
  dvld_1, dvld_2, dout_vld,                        \* data_conditioner
  byte_sel, M_AXIS_TDATA, M_AXIS_TVALID,           \* upsizer
  hold, level,                    \* the FIFO's flags and its words
  last                            \* history: last sample in the FIFO

timing == <<since, rst_i, pulse_cnt, rst_sync, adc_rst>>
capture == <<number, even_ff, dat_even, dat_odd, dat_odd_d>>
conditioner == <<dvld_1, dvld_2, dout_vld>>
upsizer == <<byte_sel, M_AXIS_TDATA, M_AXIS_TVALID>>
vars == <<timing, release, capture, conditioner, upsizer, hold, level, last>>

Positions == 0 .. Ratio - 1
None == [number |-> -1, release |-> -1]
Sample == [number |-> number, release |-> release]
Following(n) == IF n = SampleMod - 1 THEN 0 ELSE n + 1

----------------------------------------------------------------------------
(* Reset: the stretcher and the synchroniser                               *)

(* Seeded bug: the stretcher stops at its first clock.                     *)
Stretch_Short == pulse_cnt' = IF rst_i THEN 1 ELSE 0

Stretch == pulse_cnt' = IF rst_i THEN PulseLength
                        ELSE IF pulse_cnt = 0 THEN 0 ELSE pulse_cnt - 1

adc_rst_i == pulse_cnt > 0

SynchronizeReset == /\ rst_sync' = adc_rst_i
                    /\ adc_rst' = rst_sync

----------------------------------------------------------------------------
(* data_capture: SAME_EDGE_PIPELINED brings both halves of a period to the *)
(* rising edge, the even one through one more flip-flop                    *)

(* Seeded bug: the odd line is not delayed.                                *)
Capture_NotAligned ==
  /\ even_ff' = IF adc_rst THEN None ELSE Sample
  /\ dat_even' = IF adc_rst THEN None ELSE even_ff
  /\ dat_odd' = IF adc_rst THEN None ELSE Sample
  /\ dat_odd_d' = IF adc_rst THEN None ELSE Sample
  /\ number' = Following(number)

Capture ==
  /\ even_ff' = IF adc_rst THEN None ELSE Sample
  /\ dat_even' = IF adc_rst THEN None ELSE even_ff
  /\ dat_odd' = IF adc_rst THEN None ELSE Sample
  /\ dat_odd_d' = IF adc_rst THEN None ELSE dat_odd
  /\ number' = Following(number)

(* data_conditioner: the two most significant bits, one of each half.      *)
dout == [odd |-> dat_odd_d, even |-> dat_even]

Valid == /\ dvld_1' = ~adc_rst
         /\ dvld_2' = (~adc_rst /\ dvld_1)
         /\ dout_vld' = (~adc_rst /\ dvld_2)

----------------------------------------------------------------------------
(* upsizer: byte_sel is the set of the positions whose bit is one          *)

last_byte == Ratio - 1 \in byte_sel

(* Seeded bug: the position wraps one sample late.                         *)
Select_OneMore ==
  byte_sel' = IF adc_rst THEN {0}
              ELSE IF dout_vld
                THEN {IF i = Ratio THEN 0 ELSE i + 1 : i \in byte_sel}
              ELSE byte_sel

Select ==
  byte_sel' = IF adc_rst THEN {0}
              ELSE IF dout_vld
                THEN {IF i = Ratio - 1 THEN 0 ELSE i + 1 : i \in byte_sel}
              ELSE byte_sel

Pack == M_AXIS_TDATA' = [i \in Positions |->
                           IF dout_vld /\ i \in byte_sel
                             THEN dout ELSE M_AXIS_TDATA[i]]

Offer == M_AXIS_TVALID' = (~adc_rst /\ dout_vld /\ last_byte)

----------------------------------------------------------------------------
(* The FIFO's write side                                                   *)

FIFO_full == hold > 0 \/ level = FifoDepth

FIFO_wr_en == ~FIFO_full /\ M_AXIS_TVALID

Write ==
  /\ level' = IF FIFO_wr_en THEN level + 1 ELSE level
  /\ last' = IF FIFO_wr_en THEN M_AXIS_TDATA[Ratio - 1].even
             ELSE IF M_AXIS_TVALID THEN None ELSE last

(* The flag stays up for at least FullHold edges after the reset.          *)
FullFlag == hold' \in {hold} \cup
                      (IF ~rst_i /\ hold > 0 THEN {hold - 1} ELSE {})

(* Reads come when they like; the reset empties the FIFO as it rises.      *)
ReadOrClear ==
  /\ level' \in IF rst_i' THEN {0}
                ELSE {level} \cup (IF level > 0 THEN {level - 1} ELSE {})
  /\ hold' = IF rst_i' THEN FullHold ELSE hold
  /\ last' = IF rst_i' THEN None ELSE last

----------------------------------------------------------------------------
CoreEdge ==
  /\ since < CoreMax
  /\ since' = since + 1
  /\ rst_i' \in BOOLEAN
  /\ release' = IF rst_i /\ ~rst_i' THEN (release + 1) % ReleaseMod ELSE release
  /\ Stretch
  /\ ReadOrClear
  /\ UNCHANGED <<rst_sync, adc_rst, capture, conditioner, upsizer>>

AdcEdge ==
  /\ since > 0
  /\ since' = 0
  /\ SynchronizeReset
  /\ Capture
  /\ Valid
  /\ Select /\ Pack /\ Offer
  /\ Write /\ FullFlag
  /\ UNCHANGED <<rst_i, pulse_cnt, release>>

(* Registers start at zero, the synchroniser's at INIT, the FIFO in reset. *)
Init ==
  /\ since = 0
  /\ rst_i = TRUE /\ pulse_cnt = 0
  /\ rst_sync = TRUE /\ adc_rst = TRUE
  /\ number = 0 /\ release = 0
  /\ even_ff = None /\ dat_even = None
  /\ dat_odd = None /\ dat_odd_d = None
  /\ dvld_1 = FALSE /\ dvld_2 = FALSE /\ dout_vld = FALSE
  /\ byte_sel = {}
  /\ M_AXIS_TDATA = [i \in Positions |-> [odd |-> None, even |-> None]]
  /\ M_AXIS_TVALID = FALSE
  /\ hold = FullHold /\ level = 0
  /\ last = None

Next == CoreEdge \/ AdcEdge

Spec == Init /\ [][Next]_vars

----------------------------------------------------------------------------
(* Properties                                                              *)

(* Both bits of a position come from one conversion, and neighbouring      *)
(* positions hold neighbouring conversions.                                *)
Consecutive(word, n) ==
  /\ \A i \in 0 .. n - 1 : word[i].odd = word[i].even /\ word[i].even # None
  /\ \A i \in 1 .. n - 1 :
       word[i].even.number = Following(word[i - 1].even.number)

(* Whatever the upsizer offers is Ratio consecutive samples, each with its *)
(* two bits from one conversion, wherever a reset fell.                    *)
WordsAreConsecutive == M_AXIS_TVALID => Consecutive(M_AXIS_TDATA, Ratio)

(* No sample from before the release of the last reset gets into the FIFO, *)
(* however short the reset was.                                            *)
WordsAreFresh ==
  FIFO_wr_en => \A i \in Positions : M_AXIS_TDATA[i].even.release = release

(* A word continues where the word before it ended; only a word that meets *)
(* a full FIFO leaves a gap, and the gap is that word.                     *)
WordsContinue ==
  FIFO_wr_en /\ last # None =>
    M_AXIS_TDATA[0].even.number = Following(last.number)
=============================================================================
