--------------------------- MODULE AdcPath_proof ---------------------------
(***************************************************************************)
(* Every word the upsizer offers is Ratio consecutive samples, for every   *)
(* ratio, every length of the reset and whatever the relation of the two   *)
(* clocks; and a word is of conversions after the last release of the      *)
(* reset and follows the word before it, for every reset pulse long enough *)
(* to be seen in the other domain.                                         *)
(*                                                                         *)
(* The inductive invariant follows a sample through the registers.  Each   *)
(* valid flag vouches for one stage of the pipeline; while samples come,   *)
(* the positions below the selected one hold consecutive samples and the   *)
(* sample at the door is the next one; while none come, the first position *)
(* is selected.  For the reset it also says how far each of the five       *)
(* phases of a reset has emptied the stages.                               *)
(***************************************************************************)
EXTENDS AdcPath, TLAPS

Numbers == 0 .. SampleMod - 1
Conversions == [number : Numbers, release : Int]

Typed ==
  /\ number \in Numbers /\ release \in Int
  /\ rst_sync \in BOOLEAN /\ adc_rst \in BOOLEAN
  /\ dvld_1 \in BOOLEAN /\ dvld_2 \in BOOLEAN /\ dout_vld \in BOOLEAN
  /\ M_AXIS_TVALID \in BOOLEAN
  /\ \/ byte_sel = {} /\ adc_rst /\ ~dvld_1
     \/ \E k \in Positions : byte_sel = {k}

Pipeline ==
  /\ dvld_1 => /\ even_ff \in Conversions /\ dat_odd = even_ff
               /\ number = Following(even_ff.number)
  /\ dvld_2 => /\ dvld_1
               /\ dat_even \in Conversions /\ dat_odd_d = dat_even
               /\ even_ff.number = Following(dat_even.number)
  /\ dout_vld => dvld_2

Packed ==
  /\ \A k \in Positions : byte_sel = {k} =>
       /\ ~dout_vld => k = 0
       /\ dout_vld => Consecutive(M_AXIS_TDATA, k)
       /\ dout_vld /\ k > 0 =>
            dat_even.number = Following(M_AXIS_TDATA[k - 1].even.number)
  /\ M_AXIS_TVALID => Consecutive(M_AXIS_TDATA, Ratio)

IInv == Typed /\ Pipeline /\ Packed

LEMMA FollowingType == ASSUME NEW n \in Numbers PROVE Following(n) \in Numbers
  BY SampleAssumption DEF Numbers, Following

(* A conversion is never mistaken for the reset value of a register.       *)
LEMMA NotNone == ASSUME NEW c \in Conversions PROVE c # None
<1>1. c.number # -1
  BY SampleAssumption DEF Conversions, Numbers
<1>2. None.number = -1
  BY DEF None
<1> QED BY <1>1, <1>2

LEMMA SampleType == ASSUME Typed PROVE Sample \in Conversions
  BY DEF Typed, Sample, Conversions

(* One more sample at the selected position: what was packed stays packed, *)
(* and the positions up to the selected one are now consecutive.           *)
LEMMA PackOne ==
  ASSUME NEW k \in Positions, byte_sel = {k}, dout_vld, IInv, Pack
  PROVE  /\ Consecutive(M_AXIS_TDATA', k + 1)
         /\ M_AXIS_TDATA'[k].even = dat_even
<1>k. k \in Int /\ k >= 0 /\ k < Ratio /\ Ratio \in Nat
  BY RatioAssumption DEF Positions
<1>1. M_AXIS_TDATA'[k] = dout
  BY <1>k DEF Pack
<1>2. \A i \in 0 .. k - 1 : M_AXIS_TDATA'[i] = M_AXIS_TDATA[i]
  BY <1>k DEF Pack, Positions
<1>3. dout.odd = dat_even /\ dout.even = dat_even /\ dat_even \in Conversions
  BY DEF dout, IInv, Pipeline
<1>4. /\ Consecutive(M_AXIS_TDATA, k)
      /\ k > 0 => dat_even.number = Following(M_AXIS_TDATA[k - 1].even.number)
  BY DEF IInv, Packed
<1>5. \A i \in 0 .. k : /\ M_AXIS_TDATA'[i].odd = M_AXIS_TDATA'[i].even
                        /\ M_AXIS_TDATA'[i].even # None
  <2> SUFFICES ASSUME NEW i \in 0 .. k
               PROVE  /\ M_AXIS_TDATA'[i].odd = M_AXIS_TDATA'[i].even
                      /\ M_AXIS_TDATA'[i].even # None
    OBVIOUS
  <2>1. CASE i = k
    BY <2>1, <1>1, <1>3, NotNone
  <2>2. CASE i # k
    <3>1. i \in 0 .. k - 1
      BY <2>2, <1>k
    <3> QED BY <3>1, <1>2, <1>4 DEF Consecutive
  <2> QED BY <2>1, <2>2
<1>6. \A i \in 1 .. k : M_AXIS_TDATA'[i].even.number
                          = Following(M_AXIS_TDATA'[i - 1].even.number)
  <2> SUFFICES ASSUME NEW i \in 1 .. k
               PROVE  M_AXIS_TDATA'[i].even.number
                        = Following(M_AXIS_TDATA'[i - 1].even.number)
    OBVIOUS
  <2>0. i - 1 \in 0 .. k - 1 /\ M_AXIS_TDATA'[i - 1] = M_AXIS_TDATA[i - 1]
    BY <1>k, <1>2
  <2>1. CASE i = k
    BY <2>0, <2>1, <1>k, <1>1, <1>3, <1>4
  <2>2. CASE i # k
    <3>1. i \in 1 .. k - 1 /\ i \in 0 .. k - 1
      BY <2>2, <1>k
    <3> QED BY <3>1, <2>0, <1>2, <1>4 DEF Consecutive
  <2> QED BY <2>1, <2>2
<1>7. (k + 1) - 1 = k
  BY <1>k
<1> QED BY <1>1, <1>3, <1>5, <1>6, <1>7 DEF Consecutive

LEMMA InitIInv == Init => IInv
<1> SUFFICES ASSUME Init PROVE IInv
  OBVIOUS
<1> USE DEF Init
<1>1. Typed
  <2>1. number \in Numbers /\ release \in Int
    BY SampleAssumption DEF Numbers
  <2>2. /\ rst_sync \in BOOLEAN /\ adc_rst \in BOOLEAN
        /\ dvld_1 \in BOOLEAN /\ dvld_2 \in BOOLEAN /\ dout_vld \in BOOLEAN
        /\ M_AXIS_TVALID \in BOOLEAN
    OBVIOUS
  <2>3. byte_sel = {} /\ adc_rst /\ ~dvld_1
    OBVIOUS
  <2> QED BY <2>1, <2>2, <2>3 DEF Typed
<1>2. Pipeline
  BY DEF Pipeline
<1>3. Packed
  BY DEF Packed
<1> QED BY <1>1, <1>2, <1>3 DEF IInv

(* The flags vouch for the stages they had vouched for one edge before.    *)
LEMMA PipelineStep == IInv /\ AdcEdge => Pipeline'
<1> SUFFICES ASSUME IInv, AdcEdge PROVE Pipeline'
  OBVIOUS
<1> USE DEF IInv
<1>1. CASE adc_rst
  BY <1>1 DEF Pipeline, AdcEdge, Valid
<1>2. CASE ~adc_rst
  <2>1. /\ even_ff' = Sample /\ dat_odd' = Sample
        /\ dat_even' = even_ff /\ dat_odd_d' = dat_odd
        /\ number' = Following(number)
        /\ dvld_1' /\ dvld_2' = dvld_1 /\ dout_vld' = dvld_2
    BY <1>2 DEF AdcEdge, Capture, Valid, Typed
  <2>2. Sample \in Conversions /\ Sample.number = number
    BY SampleType DEF Sample
  <2>3. dvld_2 => dvld_1
    BY DEF Pipeline
  <2> QED BY <2>1, <2>2, <2>3 DEF Pipeline
<1> QED BY <1>1, <1>2

(* The selected position moves round; it is set up by the first reset.     *)
LEMMA SelectStep ==
  ASSUME IInv, AdcEdge
  PROVE  /\ adc_rst => byte_sel' = {0}
         /\ \A k \in Positions : byte_sel = {k} /\ ~adc_rst =>
              byte_sel' = IF ~dout_vld THEN {k}
                          ELSE IF k = Ratio - 1 THEN {0} ELSE {k + 1}
<1>1. byte_sel' = IF adc_rst THEN {0}
                  ELSE IF dout_vld
                    THEN {IF i = Ratio - 1 THEN 0 ELSE i + 1 : i \in byte_sel}
                  ELSE byte_sel
  BY DEF AdcEdge, Select
<1>2. ASSUME NEW k \in Positions, byte_sel = {k}
      PROVE  {IF i = Ratio - 1 THEN 0 ELSE i + 1 : i \in byte_sel}
               = IF k = Ratio - 1 THEN {0} ELSE {k + 1}
  BY <1>2
<1> QED BY <1>1, <1>2

LEMMA TypedStep == IInv /\ AdcEdge => Typed'
<1> SUFFICES ASSUME IInv, AdcEdge PROVE Typed'
  OBVIOUS
<1> USE DEF IInv
<1>1. number' \in Numbers /\ release' \in Int
  BY FollowingType DEF Typed, AdcEdge, Capture
<1>2. rst_sync' \in BOOLEAN /\ adc_rst' \in BOOLEAN
  BY DEF Typed, AdcEdge, SynchronizeReset, adc_rst_i
<1>3. /\ dvld_1' \in BOOLEAN /\ dvld_2' \in BOOLEAN /\ dout_vld' \in BOOLEAN
      /\ M_AXIS_TVALID' \in BOOLEAN
  BY DEF Typed, AdcEdge, Valid, Offer, last_byte
<1>4. \E k \in Positions : byte_sel' = {k}
  <2>1. CASE adc_rst
    BY <2>1, SelectStep, RatioAssumption DEF Positions
  <2>2. CASE ~adc_rst
    <3>1. PICK k \in Positions : byte_sel = {k}
      BY <2>2 DEF Typed
    <3>2. byte_sel' = IF ~dout_vld THEN {k}
                      ELSE IF k = Ratio - 1 THEN {0} ELSE {k + 1}
      BY <2>2, <3>1, SelectStep
    <3>3. /\ k \in Positions /\ 0 \in Positions
          /\ k # Ratio - 1 => k + 1 \in Positions
      BY RatioAssumption DEF Positions
    <3> QED BY <3>2, <3>3
  <2> QED BY <2>1, <2>2
<1> QED BY <1>1, <1>2, <1>3, <1>4 DEF Typed

(* One edge packs the sample at the door and leaves the next one there.    *)
LEMMA PackedStep == IInv /\ AdcEdge => Packed'
<1> SUFFICES ASSUME IInv, AdcEdge PROVE Packed'
  OBVIOUS
<1>0. Ratio \in Nat /\ Ratio > 1 /\ 0 \in Positions
  BY RatioAssumption DEF Positions
<1>1. CASE adc_rst
  <2>1. byte_sel' = {0} /\ ~M_AXIS_TVALID' /\ ~dout_vld'
    BY <1>1, SelectStep DEF AdcEdge, Offer, Valid
  <2> QED BY <2>1 DEF Packed
<1>2. CASE ~adc_rst
  <2>1. PICK k \in Positions : byte_sel = {k}
    BY <1>2 DEF IInv, Typed
  <2>2. byte_sel' = IF ~dout_vld THEN {k}
                    ELSE IF k = Ratio - 1 THEN {0} ELSE {k + 1}
    BY <1>2, <2>1, SelectStep
  <2>3. M_AXIS_TVALID' = (dout_vld /\ k = Ratio - 1)
    BY <1>2, <2>1 DEF AdcEdge, Offer, last_byte
  <2>4. CASE ~dout_vld
    <3>1. k = 0
      BY <2>1, <2>4 DEF IInv, Packed
    <3>2. byte_sel' = {0} /\ ~M_AXIS_TVALID'
      BY <2>2, <2>3, <2>4, <3>1
    <3>3. Consecutive(M_AXIS_TDATA', 0)
      BY DEF Consecutive
    <3> QED BY <3>2, <3>3 DEF Packed
  <2>5. CASE dout_vld
    <3>1. /\ Consecutive(M_AXIS_TDATA', k + 1)
          /\ M_AXIS_TDATA'[k].even = dat_even
      BY <2>1, <2>5, PackOne DEF AdcEdge
    <3>2. /\ dout_vld'
          /\ dat_even'.number = Following(M_AXIS_TDATA'[k].even.number)
      BY <1>2, <2>5, <3>1 DEF AdcEdge, Capture, Valid, IInv, Pipeline
    <3>3. CASE k = Ratio - 1
      <4>1. byte_sel' = {0} /\ k + 1 = Ratio
        BY <1>0, <2>2, <2>5, <3>3
      <4>2. Consecutive(M_AXIS_TDATA', 0)
        BY DEF Consecutive
      <4> QED BY <3>1, <3>2, <4>1, <4>2 DEF Packed
    <3>4. CASE k # Ratio - 1
      <4>1. byte_sel' = {k + 1} /\ ~M_AXIS_TVALID'
        BY <2>2, <2>3, <2>5, <3>4
      <4>2. (k + 1) - 1 = k
        BY DEF Positions
      <4>3. ASSUME NEW j \in Positions, byte_sel' = {j}
            PROVE  j = k + 1
        BY <4>1, <4>3
      <4> QED BY <3>1, <3>2, <4>1, <4>2, <4>3 DEF Packed
    <3> QED BY <3>3, <3>4
  <2> QED BY <2>4, <2>5
<1> QED BY <1>1, <1>2

(* An edge of the other clock moves nothing the invariant speaks of but    *)
(* the number of the release.                                              *)
LEMMA CoreStep == IInv /\ CoreEdge => IInv'
<1> SUFFICES ASSUME IInv, CoreEdge PROVE IInv'
  OBVIOUS
<1>1. UNCHANGED <<rst_sync, adc_rst, capture, conditioner, upsizer>>
  BY DEF CoreEdge
<1>2. release' \in Int
  BY SampleAssumption DEF CoreEdge, IInv, Typed
<1> USE <1>1 DEF IInv, capture, conditioner, upsizer
<1>3. Typed'
  BY <1>2 DEF Typed
<1>4. Pipeline'
  BY DEF Pipeline
<1>5. Packed'
  BY DEF Packed
<1> QED BY <1>3, <1>4, <1>5

LEMMA StepIInv == IInv /\ [Next]_vars => IInv'
<1> SUFFICES ASSUME IInv, [Next]_vars PROVE IInv'
  OBVIOUS
<1>1. CASE CoreEdge
  BY <1>1, CoreStep
<1>2. CASE AdcEdge
  BY <1>2, TypedStep, PipelineStep, PackedStep DEF IInv
<1>3. CASE UNCHANGED vars
  BY <1>3 DEF vars, timing, capture, conditioner, upsizer, IInv, Typed,
              Pipeline, Packed
<1> QED BY <1>1, <1>2, <1>3 DEF Next

(* What the upsizer offers is Ratio consecutive samples, each with both    *)
(* bits of one conversion (upsizer.vhd, data_capture.vhd).                 *)
THEOREM ConsecutiveWords == Spec => []WordsAreConsecutive
<1>1. IInv => WordsAreConsecutive
  BY DEF IInv, Packed, WordsAreConsecutive
<1> QED BY <1>1, InitIInv, StepIInv, PTL DEF Spec

----------------------------------------------------------------------------
(* What a reset of software does to the pipeline.  After rst_i has fallen, *)
(* the stretched pulse is sampled by the first ADC edge, leaves the        *)
(* synchroniser at the second and empties the pipeline at the third; the   *)
(* FIFO stays full over all three.                                         *)

InReset == rst_i /\ hold = FullHold

Released == /\ ~rst_i /\ hold = FullHold
            /\ since >= 1 /\ pulse_cnt + since > PulseLength

Sampled == /\ ~rst_i /\ hold >= FullHold - 1
           /\ rst_sync

Clearing == /\ ~rst_i /\ hold >= FullHold - 2
            /\ adc_rst
            /\ adc_rst_i => rst_sync

(* The pulse leaves the synchroniser once, before any sample is valid.     *)
PulseOver == /\ adc_rst_i => rst_sync
             /\ rst_sync => adc_rst
             /\ dvld_1 => ~adc_rst
             /\ M_AXIS_TVALID => dout_vld

(* Every stage that a flag vouches for was filled after the release.       *)
Fresh == /\ dvld_1 => even_ff.release = release
         /\ dvld_2 => dat_even.release = release
         /\ \A k \in Positions : byte_sel = {k} /\ dout_vld =>
              \A i \in 0 .. k - 1 : M_AXIS_TDATA[i].even.release = release
         /\ M_AXIS_TVALID =>
              \A i \in Positions : M_AXIS_TDATA[i].even.release = release

(* The sample at the door, the word in the making and the last sample in   *)
(* the FIFO are consecutive.                                               *)
FirstNumber == IF M_AXIS_TVALID \/ byte_sel # {0}
               THEN M_AXIS_TDATA[0].even.number ELSE dat_even.number

Continues ==
  /\ M_AXIS_TVALID =>
       /\ byte_sel = {0}
       /\ dat_even.number = Following(M_AXIS_TDATA[Ratio - 1].even.number)
  /\ last # None => dout_vld /\ FirstNumber = Following(last.number)

Running == ~rst_i /\ PulseOver /\ Fresh /\ Continues

Phases == \/ /\ InReset \/ Released \/ Sampled \/ Clearing
             /\ last = None
          \/ Running

Counts == /\ rst_i \in BOOLEAN /\ since \in 0 .. CoreMax
          /\ pulse_cnt \in Nat /\ hold \in Nat

(* Inductive: IInv says what the stages hold, Phases since when.           *)
RInv == IInv /\ Counts /\ Phases

LEMMA InitRInv == Init => RInv
<1> SUFFICES ASSUME Init PROVE RInv
  OBVIOUS
<1>1. Counts
  BY ResetAssumption DEF Init, Counts
<1>2. Phases
  BY DEF Init, Phases, InReset
<1> QED BY <1>1, <1>2, InitIInv DEF RInv

LEMMA CountsStep == RInv /\ Next => Counts'
<1> SUFFICES ASSUME RInv, Next PROVE Counts'
  OBVIOUS
<1>0. Counts
  BY DEF RInv
<1>1. CASE CoreEdge
  <2>1. rst_i' \in BOOLEAN /\ since' \in 0 .. CoreMax
    BY <1>0, <1>1, ResetAssumption DEF CoreEdge, Counts
  <2>2. pulse_cnt' \in Nat
    BY <1>0, <1>1, ResetAssumption DEF CoreEdge, Stretch, Counts
  <2>3. hold' \in Nat
    BY <1>0, <1>1, ResetAssumption DEF CoreEdge, ReadOrClear, Counts
  <2> QED BY <2>1, <2>2, <2>3 DEF Counts
<1>2. CASE AdcEdge
  <2>1. since' \in 0 .. CoreMax /\ UNCHANGED <<rst_i, pulse_cnt>>
    BY <1>2, ResetAssumption DEF AdcEdge
  <2>2. hold' \in Nat
    BY <1>0, <1>2 DEF AdcEdge, FullFlag, Counts
  <2> QED BY <1>0, <2>1, <2>2 DEF Counts
<1> QED BY <1>1, <1>2 DEF Next

(* An edge of the 100 MHz clock: a reset begins, ends or runs on.          *)
LEMMA CorePhases == RInv /\ CoreEdge => Phases'
<1> SUFFICES ASSUME RInv, CoreEdge PROVE Phases'
  OBVIOUS
<1>0. /\ rst_i \in BOOLEAN /\ since \in Nat /\ since < CoreMax
      /\ pulse_cnt \in Nat /\ hold \in Nat
  BY ResetAssumption DEF RInv, Counts, CoreEdge
<1>1. /\ rst_i' \in BOOLEAN /\ since' = since + 1
      /\ pulse_cnt' = IF rst_i THEN PulseLength
                      ELSE IF pulse_cnt = 0 THEN 0 ELSE pulse_cnt - 1
      /\ hold' = IF rst_i' THEN FullHold ELSE hold
      /\ last' = IF rst_i' THEN None ELSE last
      /\ UNCHANGED <<rst_sync, adc_rst, capture, conditioner, upsizer>>
  BY DEF CoreEdge, Stretch, ReadOrClear
<1>2. CASE rst_i'
  BY <1>1, <1>2 DEF Phases, InReset
<1>3. CASE ~rst_i' /\ rst_i
  <2>1. hold = FullHold /\ last = None
    BY <1>3 DEF RInv, Phases, InReset, Released, Sampled, Clearing, Running
  <2>2. Released'
    BY <1>0, <1>1, <1>3, <2>1, ResetAssumption DEF Released
  <2> QED BY <1>1, <1>3, <2>1, <2>2 DEF Phases
<1>4. CASE ~rst_i' /\ ~rst_i
  <2>0. /\ hold' = hold /\ last' = last /\ release' = release
        /\ adc_rst_i' => adc_rst_i
    BY <1>0, <1>1, <1>4 DEF CoreEdge, adc_rst_i
  <2>1. CASE Released /\ last = None
    <3>1. pulse_cnt' = pulse_cnt - 1
      BY <1>0, <1>1, <1>4, <2>1, ResetAssumption DEF Released
    <3>2. Released'
      BY <1>0, <1>1, <1>4, <2>0, <2>1, <3>1 DEF Released
    <3> QED BY <2>0, <2>1, <3>2 DEF Phases
  <2>2. CASE Sampled /\ last = None
    BY <1>1, <1>4, <2>0, <2>2 DEF Sampled, Phases
  <2>3. CASE Clearing /\ last = None
    BY <1>1, <1>4, <2>0, <2>3 DEF Clearing, Phases
  <2>4. CASE Running
    <3> USE <2>4 DEF Running, capture, conditioner, upsizer
    <3>1. PulseOver'
      BY <1>1, <2>0 DEF PulseOver
    <3>2. Fresh'
      BY <1>1, <2>0 DEF Fresh
    <3>3. Continues'
      BY <1>1, <2>0 DEF Continues, FirstNumber
    <3> QED BY <1>4, <3>1, <3>2, <3>3 DEF Phases
  <2> QED BY <1>4, <2>1, <2>2, <2>3, <2>4 DEF RInv, Phases, InReset
<1> QED BY <1>1, <1>2, <1>3, <1>4

(* An ADC edge under reset leaves an empty pipeline, and a monotone pulse  *)
(* in the synchroniser goes on.                                            *)
LEMMA Emptied ==
  ASSUME RInv, AdcEdge, adc_rst, last' = None, ~rst_i,
         adc_rst_i => rst_sync
  PROVE  Running'
<1>1. /\ ~dvld_1' /\ ~dvld_2' /\ ~dout_vld' /\ ~M_AXIS_TVALID'
      /\ rst_sync' = adc_rst_i /\ adc_rst' = rst_sync
      /\ rst_i' = rst_i /\ pulse_cnt' = pulse_cnt
  BY DEF AdcEdge, Valid, Offer, SynchronizeReset
<1>2. PulseOver'
  BY <1>1 DEF PulseOver, adc_rst_i
<1>3. Fresh'
  BY <1>1 DEF Fresh
<1>4. Continues'
  BY <1>1 DEF Continues
<1> QED BY <1>1, <1>2, <1>3, <1>4 DEF Running

(* What an ADC edge does to the flags, the FIFO and the reset.             *)
LEMMA AdcFacts ==
  ASSUME RInv, AdcEdge
  PROVE  /\ rst_sync' = adc_rst_i /\ adc_rst' = rst_sync
         /\ rst_i' = rst_i /\ release' = release /\ adc_rst_i' = adc_rst_i
         /\ hold' \in Nat /\ hold' >= hold - 1 /\ (rst_i => hold' = hold)
         /\ hold > 0 /\ last = None => last' = None
<1>1. /\ rst_i' = rst_i /\ pulse_cnt' = pulse_cnt /\ release' = release
      /\ rst_sync' = adc_rst_i /\ adc_rst' = rst_sync
  BY DEF AdcEdge, SynchronizeReset
<1>2. hold \in Nat
  BY DEF RInv, Counts
<1>3. hold' \in Nat /\ hold' >= hold - 1 /\ (rst_i => hold' = hold)
  BY <1>2 DEF AdcEdge, FullFlag
<1>4. hold > 0 /\ last = None => last' = None
  BY DEF AdcEdge, Write, FIFO_wr_en, FIFO_full
<1> QED BY <1>1, <1>3, <1>4 DEF adc_rst_i

(* The running pipeline: the flags.                                        *)
LEMMA RunningFlags ==
  ASSUME RInv, AdcEdge, Running, ~adc_rst
  PROVE  /\ PulseOver' /\ ~rst_i'
         /\ dvld_1' /\ dvld_2' = dvld_1 /\ dout_vld' = dvld_2
         /\ dout_vld => dvld_2 /\ dvld_1
<1>1. ~rst_sync /\ ~adc_rst_i
  BY DEF Running, PulseOver
<1>2. ~rst_sync' /\ ~adc_rst' /\ ~adc_rst_i' /\ ~rst_i'
  BY <1>1, AdcFacts DEF Running
<1>3. dout_vld => dvld_2 /\ dvld_1
  BY DEF RInv, IInv, Pipeline
<1>4. dvld_1' /\ dvld_2' = dvld_1 /\ dout_vld' = dvld_2
  BY DEF AdcEdge, Valid, RInv, IInv, Typed
<1>5. M_AXIS_TVALID' => dout_vld'
  BY <1>3, <1>4 DEF AdcEdge, Offer
<1> QED BY <1>2, <1>3, <1>4, <1>5 DEF PulseOver

(* The running pipeline: only samples from after the release come in.      *)
LEMMA RunningFresh ==
  ASSUME RInv, AdcEdge, Running, ~adc_rst
  PROVE  Fresh'
<1>0. Ratio \in Nat /\ Ratio > 1
  BY RatioAssumption
<1>1. /\ even_ff' = Sample /\ dat_even' = even_ff /\ release' = release
      /\ Sample.release = release
  BY DEF AdcEdge, Capture, Sample
<1>2. dvld_1' => even_ff'.release = release'
  BY <1>1
<1>3. dvld_2' => dat_even'.release = release'
  BY <1>1, RunningFlags DEF Running, Fresh
<1>4. PICK k \in Positions : byte_sel = {k}
  BY DEF RInv, IInv, Typed
<1>5. byte_sel' = IF ~dout_vld THEN {k}
                  ELSE IF k = Ratio - 1 THEN {0} ELSE {k + 1}
  BY <1>4, SelectStep DEF RInv
<1>6. M_AXIS_TVALID' = (dout_vld /\ k = Ratio - 1)
  BY <1>4 DEF AdcEdge, Offer, last_byte
<1>7. CASE ~dout_vld
  <2>1. k = 0
    BY <1>4, <1>7 DEF RInv, IInv, Packed
  <2>2. \A j \in Positions : byte_sel' = {j} => j = 0
    BY <1>5, <1>7, <2>1
  <2>3. \A j \in Positions : byte_sel' = {j} =>
          \A i \in 0 .. j - 1 : M_AXIS_TDATA'[i].even.release = release'
    BY <2>2
  <2>4. ~M_AXIS_TVALID'
    BY <1>6, <1>7
  <2> QED BY <1>2, <1>3, <2>3, <2>4 DEF Fresh
<1>8. CASE dout_vld
  <2>1. \A i \in 0 .. k : M_AXIS_TDATA'[i].even.release = release
    <3> SUFFICES ASSUME NEW i \in 0 .. k
                 PROVE  M_AXIS_TDATA'[i].even.release = release
      OBVIOUS
    <3>1. i \in Positions
      BY <1>0 DEF Positions
    <3>2. CASE i = k
      <4>1. M_AXIS_TDATA'[k].even = dat_even
        BY <1>4, <1>8, PackOne DEF AdcEdge, RInv
      <4>2. dat_even.release = release
        BY <1>8, RunningFlags DEF Running, Fresh
      <4> QED BY <3>2, <4>1, <4>2
    <3>3. CASE i # k
      <4>1. M_AXIS_TDATA'[i] = M_AXIS_TDATA[i]
        BY <1>4, <3>1, <3>3 DEF AdcEdge, Pack
      <4>2. i \in 0 .. k - 1
        BY <3>3 DEF Positions
      <4> QED BY <1>4, <1>8, <4>1, <4>2 DEF Running, Fresh
    <3> QED BY <3>2, <3>3
  <2>2. CASE k = Ratio - 1
    <3>1. \A j \in Positions : byte_sel' = {j} => j = 0
      BY <1>5, <1>8, <2>2
    <3>2. \A i \in Positions : M_AXIS_TDATA'[i].even.release = release'
      BY <1>1, <2>1, <2>2 DEF Positions
    <3> QED BY <1>2, <1>3, <3>1, <3>2 DEF Fresh
  <2>3. CASE k # Ratio - 1
    <3>1. \A j \in Positions : byte_sel' = {j} => j = k + 1 /\ j - 1 = k
      BY <1>5, <1>8, <2>3 DEF Positions
    <3>2. \A j \in Positions : byte_sel' = {j} =>
            \A i \in 0 .. j - 1 : M_AXIS_TDATA'[i].even.release = release'
      BY <1>1, <2>1, <3>1
    <3> QED BY <1>2, <1>3, <1>6, <2>3, <3>2 DEF Fresh
  <2> QED BY <2>2, <2>3
<1> QED BY <1>7, <1>8

(* The running pipeline: the sample that opens a word follows the last one *)
(* of the word before it.                                                  *)
LEMMA RunningContinues ==
  ASSUME RInv, AdcEdge, Running, ~adc_rst
  PROVE  Continues'
<1>0. Ratio \in Nat /\ Ratio > 1
  BY RatioAssumption
<1>1. PICK k \in Positions : byte_sel = {k}
  BY DEF RInv, IInv, Typed
<1>2. byte_sel' = IF ~dout_vld THEN {k}
                  ELSE IF k = Ratio - 1 THEN {0} ELSE {k + 1}
  BY <1>1, SelectStep DEF RInv
<1>3. M_AXIS_TVALID' = (dout_vld /\ k = Ratio - 1)
  BY <1>1 DEF AdcEdge, Offer, last_byte
<1>4. last' = IF FIFO_wr_en THEN M_AXIS_TDATA[Ratio - 1].even
              ELSE IF M_AXIS_TVALID THEN None ELSE last
  BY DEF AdcEdge, Write
<1>5. CASE ~dout_vld
  <2>1. last = None /\ ~M_AXIS_TVALID
    BY <1>5 DEF Running, Continues, PulseOver
  <2> QED BY <1>3, <1>4, <1>5, <2>1 DEF Continues, FIFO_wr_en
<1>6. CASE dout_vld
  <2>1. /\ M_AXIS_TDATA'[k].even = dat_even
        /\ \A i \in Positions : i # k => M_AXIS_TDATA'[i] = M_AXIS_TDATA[i]
    BY <1>1, <1>6, PackOne DEF AdcEdge, RInv, Pack
  <2>2. /\ dout_vld' /\ dat_even' = even_ff
        /\ even_ff.number = Following(dat_even.number)
    BY <1>6, RunningFlags DEF AdcEdge, Capture, RInv, IInv, Pipeline
  <2>3. M_AXIS_TVALID' =>
          /\ byte_sel' = {0}
          /\ dat_even'.number = Following(M_AXIS_TDATA'[Ratio - 1].even.number)
    BY <1>2, <1>3, <2>1, <2>2
  <2>4. M_AXIS_TVALID' \/ byte_sel' # {0}
    <3>1. k + 1 # 0
      BY <1>0 DEF Positions
    <3>2. {k + 1} # {0}
      BY ONLY <3>1
    <3> QED BY <1>2, <1>3, <1>6, <3>2
  <2>5. ASSUME last' # None
        PROVE  M_AXIS_TDATA'[0].even.number = Following(last'.number)
    <3>1. CASE M_AXIS_TVALID
      <4>1. k = 0
        BY <1>1, <3>1 DEF Running, Continues
      <4>2. last' = M_AXIS_TDATA[Ratio - 1].even
        BY <1>4, <2>5, <3>1
      <4> QED BY <2>1, <3>1, <4>1, <4>2 DEF Running, Continues
    <3>2. CASE ~M_AXIS_TVALID
      <4>1. last' = last
        BY <1>4, <3>2 DEF FIFO_wr_en
      <4>2. FirstNumber = Following(last.number)
        BY <2>5, <4>1 DEF Running, Continues
      <4>3. CASE k = 0
        BY <1>1, <2>1, <3>2, <4>1, <4>2, <4>3 DEF FirstNumber
      <4>4. CASE k # 0
        <5>1. byte_sel # {0} /\ 0 \in Positions
          BY <1>0, <1>1, <4>4 DEF Positions
        <5> QED BY <2>1, <4>1, <4>2, <4>4, <5>1 DEF FirstNumber
      <4> QED BY <4>3, <4>4
    <3> QED BY <3>1, <3>2
  <2> QED BY <2>2, <2>3, <2>4, <2>5 DEF Continues, FirstNumber
<1> QED BY <1>5, <1>6

(* An edge of the 64 MHz clock carries the pulse one stage further.        *)
LEMMA AdcPhases == RInv /\ AdcEdge => Phases'
<1> SUFFICES ASSUME RInv, AdcEdge PROVE Phases'
  OBVIOUS
<1>0. since \in 0 .. CoreMax /\ pulse_cnt \in Nat /\ hold \in Nat
  BY DEF RInv, Counts
<1>1. CASE InReset /\ last = None
  BY <1>1, AdcFacts, ResetAssumption DEF InReset, Phases
<1>2. CASE Released /\ last = None
  <2>1. adc_rst_i
    BY <1>0, <1>2, ResetAssumption DEF Released, adc_rst_i
  <2>2. Sampled'
    BY <1>0, <1>2, <2>1, AdcFacts, ResetAssumption DEF Released, Sampled
  <2>3. last' = None
    BY <1>2, AdcFacts, ResetAssumption DEF Released
  <2> QED BY <2>2, <2>3 DEF Phases
<1>3. CASE Sampled /\ last = None
  <2>1. Clearing'
    BY <1>0, <1>3, AdcFacts, ResetAssumption DEF Sampled, Clearing
  <2>2. last' = None
    BY <1>0, <1>3, AdcFacts, ResetAssumption DEF Sampled
  <2> QED BY <2>1, <2>2 DEF Phases
<1>4. CASE Clearing /\ last = None
  <2>1. last' = None
    BY <1>0, <1>4, AdcFacts, ResetAssumption DEF Clearing
  <2> QED BY <1>4, <2>1, Emptied DEF Clearing, Phases
<1>5. CASE Running /\ adc_rst
  <2>1. ~dvld_1 /\ ~dvld_2 /\ ~dout_vld
    BY <1>5 DEF Running, PulseOver, RInv, IInv, Pipeline
  <2>2. last = None /\ ~M_AXIS_TVALID
    BY <1>5, <2>1 DEF Running, PulseOver, Continues
  <2>3. last' = None
    BY <2>2 DEF AdcEdge, Write, FIFO_wr_en
  <2> QED BY <1>5, <2>3, Emptied DEF Running, PulseOver, Phases
<1>6. CASE Running /\ ~adc_rst
  BY <1>6, RunningFlags, RunningFresh, RunningContinues DEF Running, Phases
<1> QED BY <1>1, <1>2, <1>3, <1>4, <1>5, <1>6 DEF RInv, Phases

LEMMA StepRInv == RInv /\ [Next]_vars => RInv'
<1> SUFFICES ASSUME RInv, [Next]_vars PROVE RInv'
  OBVIOUS
<1>1. IInv'
  BY StepIInv DEF RInv
<1>2. CASE Next
  BY <1>1, <1>2, CountsStep, CorePhases, AdcPhases DEF RInv, Next
<1>3. CASE UNCHANGED vars
  <2> USE <1>3 DEF vars, timing, capture, conditioner, upsizer, RInv
  <2>1. Counts'
    BY DEF Counts
  <2>2. /\ InReset' = InReset /\ Released' = Released
        /\ Sampled' = Sampled /\ Clearing' = Clearing
    BY DEF InReset, Released, Sampled, Clearing, adc_rst_i
  <2>3. Running' = Running
    BY DEF Running, PulseOver, Fresh, Continues, FirstNumber, adc_rst_i
  <2>4. Phases'
    BY <2>2, <2>3 DEF Phases
  <2> QED BY <1>1, <2>1, <2>4
<1> QED BY <1>2, <1>3

(* While the FIFO takes words the pipeline has been running.               *)
LEMMA WritesRun == RInv /\ FIFO_wr_en => Running
<1> SUFFICES ASSUME RInv, FIFO_wr_en, ~Running PROVE FALSE
  OBVIOUS
<1>1. hold = 0
  BY DEF FIFO_wr_en, FIFO_full, RInv, Counts
<1> QED BY <1>1, ResetAssumption
        DEF RInv, Phases, InReset, Released, Sampled, Clearing

(* No sample taken before the release of the last reset gets into the      *)
(* FIFO, for every ratio of the clocks, pulse and hold of the full flag    *)
(* that ResetAssumption allows (reset_gen.vhd, upsizer.vhd).               *)
THEOREM FreshWords == Spec => []WordsAreFresh
<1>1. RInv => WordsAreFresh
  BY WritesRun DEF WordsAreFresh, Running, Fresh, FIFO_wr_en
<1> QED BY <1>1, InitRInv, StepRInv, PTL DEF Spec

(* A word in the FIFO continues where the word before it ended.            *)
THEOREM ContinuousWords == Spec => []WordsContinue
<1>1. RInv => WordsContinue
  BY WritesRun DEF WordsContinue, Running, Continues, FirstNumber, FIFO_wr_en
<1> QED BY <1>1, InitRInv, StepRInv, PTL DEF Spec
=============================================================================
