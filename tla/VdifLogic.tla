----------------------------- MODULE VdifLogic -----------------------------
(***************************************************************************)
(* hdl/vdif_formatter/vdif_logic.vhd: the FSM that puts a VDIF header in   *)
(* front of every block of samples.  One step is one rising edge of `clk`: *)
(* every clocked process of the entity samples the inputs of the current   *)
(* state, and the inputs then take any new value.  Combinational signals   *)
(* are state functions.                                                    *)
(*                                                                         *)
(* `beat` is a history variable: the word the AXI-Stream sink accepted at  *)
(* the last edge.                                                          *)
(***************************************************************************)
EXTENDS Integers

CONSTANTS
  Frame_length,   \* generic header field, in units of 8 bytes
  NumberMod,      \* 2^24 in the code: width of data_frame_number_u
  SecondMod,      \* 2^30 in the code: width of Sec_from_epoch
  Samples         \* payload words, abstract values

HeaderWords == 8
frame_length_words == 2 * Frame_length

(* A frame holds at least one payload word and its length fits word_cnt's  *)
(* 25 bits.                                                                *)
ASSUME FrameLengthAssumption ==
  Frame_length \in Nat /\ 2 * Frame_length > HeaderWords
ASSUME ModAssumption ==
  /\ NumberMod \in Nat /\ NumberMod > 1
  /\ SecondMod \in Nat /\ SecondMod > 1

VARIABLES
  \* inputs
  rst, M_AXIS_TREADY, S_AXIS_TVALID, S_AXIS_TDATA,
  digital_pps_in, Sec_from_epoch,
  \* registers
  state, word_cnt, frame_number_clr, data_frame_number_u,
  \* history
  beat

inputs == <<rst, M_AXIS_TREADY, S_AXIS_TVALID, S_AXIS_TDATA,
            digital_pps_in, Sec_from_epoch>>
registers == <<state, word_cnt, frame_number_clr, data_frame_number_u>>
vars == <<inputs, registers, beat>>

----------------------------------------------------------------------------
(* Combinational signals                                                   *)

(* Words 0 and 1 carry the two live fields; the others come from registers *)
(* that software writes before it releases the reset.                      *)
HeaderWord(n) ==
  [kind |-> "header", index |-> n,
   value |-> IF n = 0 THEN Sec_from_epoch
             ELSE IF n = 1 THEN data_frame_number_u ELSE 0]

ZeroWord == [kind |-> "zero", index |-> 0, value |-> 0]

(* Seeded bug: the last word of a frame is never offered.                  *)
M_AXIS_TVALID_LastWord ==
  \/ state = "idle_state" /\ ~rst
  \/ state = "transmit_header"
  \/ /\ state = "transmit_payload" /\ S_AXIS_TVALID
     /\ word_cnt < frame_length_words - 1

M_AXIS_TVALID ==
  \/ state = "idle_state" /\ ~rst
  \/ state = "transmit_header"
  \/ state = "transmit_payload" /\ S_AXIS_TVALID

(* Seeded bug: the FIFO is popped behind the header.                       *)
S_AXIS_TREADY_Always == state # "idle_state" /\ M_AXIS_TREADY

S_AXIS_TREADY == state = "transmit_payload" /\ M_AXIS_TREADY

M_AXIS_TDATA ==
  CASE state = "idle_state" -> IF rst THEN ZeroWord ELSE HeaderWord(0)
    [] state = "transmit_header" ->
         IF word_cnt < HeaderWords THEN HeaderWord(word_cnt) ELSE ZeroWord
    [] state = "transmit_payload" ->
         [kind |-> "payload", index |-> word_cnt, value |-> S_AXIS_TDATA]

transfer == M_AXIS_TVALID /\ M_AXIS_TREADY
(* Seeded bugs: stalls are ignored; the frame is one word short.           *)
header_end_Early == M_AXIS_TVALID /\ word_cnt = HeaderWords - 1
frame_end_Short == transfer /\ word_cnt = frame_length_words - 2

header_end == transfer /\ word_cnt = HeaderWords - 1
frame_end == transfer /\ word_cnt = frame_length_words - 1

----------------------------------------------------------------------------
(* Clocked processes                                                       *)

StateProcess ==
  state' = CASE rst -> "idle_state"
             [] ~rst /\ state = "idle_state" -> "transmit_header"
             [] ~rst /\ state = "transmit_header" ->
                  IF header_end THEN "transmit_payload" ELSE state
             [] ~rst /\ state = "transmit_payload" ->
                  IF frame_end THEN "transmit_header" ELSE state

(* Seeded bug: the counter runs past the end of the frame.                 *)
PayloadCounter_NoWrap ==
  word_cnt' = IF rst THEN 0 ELSE IF transfer THEN word_cnt + 1 ELSE word_cnt

PayloadCounter ==
  word_cnt' = IF rst \/ frame_end THEN 0
              ELSE IF transfer THEN word_cnt + 1 ELSE word_cnt

(* Seeded bug: the end of a frame wins over a PPS edge.                    *)
FrameNumberClr_EndFirst ==
  frame_number_clr' = /\ ~rst /\ ~frame_end
                      /\ digital_pps_in \/ frame_number_clr

(* A PPS edge wins over the end of a frame.                                *)
FrameNumberClr ==
  frame_number_clr' = /\ ~rst
                      /\ \/ digital_pps_in
                         \/ frame_number_clr /\ ~frame_end

(* Seeded bugs: the number advances at both ends of the header; the end of *)
(* a frame wins over the clear.                                            *)
FrameCounter_Twice ==
  data_frame_number_u' =
    IF rst \/ frame_number_clr THEN 0
    ELSE IF frame_end \/ header_end THEN (data_frame_number_u + 1) % NumberMod
    ELSE data_frame_number_u

FrameCounter_EndFirst ==
  data_frame_number_u' =
    IF rst THEN 0
    ELSE IF frame_end THEN (data_frame_number_u + 1) % NumberMod
    ELSE IF frame_number_clr THEN 0 ELSE data_frame_number_u

FrameCounter ==
  data_frame_number_u' =
    IF rst \/ frame_number_clr THEN 0
    ELSE IF frame_end THEN (data_frame_number_u + 1) % NumberMod
    ELSE data_frame_number_u

Nothing == [kind |-> "none", index |-> 0, value |-> 0, last |-> FALSE]

Observe ==
  beat' = IF transfer
          THEN [kind |-> M_AXIS_TDATA.kind, index |-> M_AXIS_TDATA.index,
                value |-> M_AXIS_TDATA.value, last |-> frame_end]
          ELSE Nothing

Edge == /\ StateProcess
        /\ PayloadCounter
        /\ FrameNumberClr
        /\ FrameCounter
        /\ Observe

InputsOK == /\ rst \in BOOLEAN
            /\ M_AXIS_TREADY \in BOOLEAN
            /\ S_AXIS_TVALID \in BOOLEAN
            /\ S_AXIS_TDATA \in Samples
            /\ digital_pps_in \in BOOLEAN
            /\ Sec_from_epoch \in 0 .. SecondMod - 1

(* The environment drives any values for the next edge.                    *)
NewInputs == /\ rst' \in BOOLEAN
             /\ M_AXIS_TREADY' \in BOOLEAN
             /\ S_AXIS_TVALID' \in BOOLEAN
             /\ S_AXIS_TDATA' \in Samples
             /\ digital_pps_in' \in BOOLEAN
             /\ Sec_from_epoch' \in 0 .. SecondMod - 1

(* Software holds the core in reset before it uses it (main.c, slv_reg0).  *)
Init == /\ InputsOK
        /\ state = "idle_state"
        /\ word_cnt = 0
        /\ frame_number_clr = FALSE
        /\ data_frame_number_u = 0
        /\ beat = Nothing

Next == Edge /\ NewInputs

Spec == Init /\ [][Next]_vars
(* The clock ticks: an edge that would change a register comes; the inputs *)
(* need never change.                                                      *)
FairSpec == Spec /\ WF_registers(Next)

----------------------------------------------------------------------------
(* Properties                                                              *)

(* Every register has the values its declaration allows.                   *)
TypeOK ==
  /\ InputsOK
  /\ state \in {"idle_state", "transmit_header", "transmit_payload"}
  /\ word_cnt \in 0 .. frame_length_words - 1
  /\ frame_number_clr \in BOOLEAN
  /\ data_frame_number_u \in 0 .. NumberMod - 1

(* The FSM and the word counter, two processes that never look at each     *)
(* other's next value, stay aligned: the FSM is in the header exactly      *)
(* while the counter is below 8, and idle only with the counter at zero.   *)
Aligned ==
  /\ state = "idle_state" => word_cnt = 0
  /\ state = "transmit_header" => word_cnt < HeaderWords
  /\ state = "transmit_payload" => word_cnt >= HeaderWords

(* The mapping to what the formatter promises its sink.                    *)
Stream == INSTANCE FrameStream WITH
            FrameWords <- frame_length_words,
            pos <- word_cnt,
            kind <- beat.kind,
            index <- beat.index,
            last <- beat.last

(* The accepted beats form whole frames, header first, TLAST on the last   *)
(* word only, whatever the stalls of either side and wherever a reset      *)
(* falls.                                                                  *)
StreamSpec == Stream!Spec

(* A FIFO word is popped (rd_en, S_AXI.vhd line 604) at exactly the edges  *)
(* where the sink accepts a payload word: none is lost behind a header and *)
(* none is sent twice.                                                     *)
PopsArePayload ==
  [][(S_AXIS_TVALID /\ S_AXIS_TREADY) <=> (beat'.kind = "payload")]_vars

(* Out of reset, a sink that keeps accepting and a FIFO that keeps filling *)
(* see frame after frame.                                                  *)
FramesKeepEnding ==
  (<>[]~rst /\ []<>(M_AXIS_TREADY /\ S_AXIS_TVALID)) => []<>(beat.last)
=============================================================================
