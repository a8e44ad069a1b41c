--------------------------- MODULE VdifFormatter ---------------------------
(***************************************************************************)
(* The VDIF formatter core with what surrounds it in the block design: the *)
(* asynchronous FIFO that brings the samples into the 100 MHz domain, the  *)
(* counter of seconds (Sync) and the PPS edge that both cores see in the   *)
(* same cycle.  One step is one rising edge of the 100 MHz clock.          *)
(*                                                                         *)
(* The FIFO is vendored (fifo_generator_0): it is modelled by what         *)
(* S_AXI.vhd relies on, first-word fall-through, an empty and a full flag, *)
(* cleared by an asynchronous reset.  At most one word enters in one cycle *)
(* because the write side delivers 4 million words a second.               *)
(*                                                                         *)
(* cur, prev and lastWord are history: the two live header fields of the   *)
(* frame the sink is receiving, those of the frame before it, and the last *)
(* payload word the sink accepted.                                         *)
(***************************************************************************)
EXTENDS Integers, Sequences

CONSTANTS Frame_length, NumberMod, SecondMod,
          FifoDepth,      \* 1024 in the code
          WordTags,       \* payload words are tagged 0 .. WordTags - 1 in turn
          FramesPerSecond \* fewest whole frames between two PPS, 1960 in the code

(* A frame holds at least one payload word (VdifLogic).                    *)
ASSUME FrameLengthAssumption == Frame_length \in Nat /\ 2 * Frame_length > 8
ASSUME ModAssumption == /\ NumberMod \in Nat /\ NumberMod > 1
                        /\ SecondMod \in Nat /\ SecondMod > 1
ASSUME FifoAssumption == /\ FifoDepth \in Nat \ {0}
                         /\ WordTags \in Nat /\ WordTags > FifoDepth + 1
ASSUME PpsAssumption == FramesPerSecond \in Nat

VARIABLES
  rst, M_AXIS_TREADY,                              \* inputs
  fifo, nextTag,                                   \* asynchronous FIFO
  onepps_in, onepps_r_1, onepps_r_2, onepps_r_3, cnt,
  state, word_cnt, frame_number_clr, data_frame_number_u, beat,
  frames,                                          \* frames since the PPS
  cur, prev, lastWord                              \* history

syncVars == <<onepps_r_1, onepps_r_2, onepps_r_3, cnt>>
logicVars == <<state, word_cnt, frame_number_clr, data_frame_number_u, beat>>
clocked == <<syncVars, logicVars>>
vars == <<rst, M_AXIS_TREADY, fifo, nextTag, onepps_in, syncVars, logicVars,
          frames, cur, prev, lastWord>>

Tags == 0 .. WordTags - 1

(* The counter was loaded before the observation and is not touched in it. *)
Seconds == INSTANCE Sync WITH sclr <- FALSE, load <- FALSE, time_load <- 0,
                              base <- 0, pulses <- 0

FIFO_M_tvalid == fifo # <<>>

Logic == INSTANCE VdifLogic WITH
           Samples <- Tags,
           S_AXIS_TVALID <- FIFO_M_tvalid,
           S_AXIS_TDATA <- IF FIFO_M_tvalid THEN Head(fifo) ELSE 0,
           digital_pps_in <- Seconds!onepps_RE,
           Sec_from_epoch <- cnt

----------------------------------------------------------------------------
(* Seeded bug: the FIFO is popped while the sink stalls.                   *)
FIFO_rd_en_Early == FIFO_M_tvalid /\ state = "transmit_payload"

FIFO_rd_en == FIFO_M_tvalid /\ Logic!S_AXIS_TREADY
FIFO_full == rst \/ Len(fifo) = FifoDepth

AfterRead == IF FIFO_rd_en THEN Tail(fifo) ELSE fifo

(* The word of a write that meets FIFO_full is dropped (wr_en is low): the *)
(* same as no write.  The reset clears the FIFO as soon as it rises.       *)
FifoStep ==
  \/ /\ ~rst' /\ ~FIFO_full
     /\ fifo' = Append(AfterRead, nextTag)
     /\ nextTag' = (nextTag + 1) % WordTags
  \/ /\ fifo' = IF rst \/ rst' THEN <<>> ELSE AfterRead
     /\ UNCHANGED nextTag

(* At least FramesPerSecond frames end between two rising edges; a pulse   *)
(* is high for as long as it likes.                                        *)
PpsStep ==
  \/ /\ ~onepps_in /\ onepps_in' = TRUE
     /\ frames = FramesPerSecond
     /\ frames' = 0
  \/ /\ onepps_in' \in {FALSE, onepps_in}
     /\ frames' = IF Logic!frame_end /\ frames < FramesPerSecond
                  THEN frames + 1 ELSE frames

None == [sec |-> -1, num |-> -1]

Accepted(kind, n) ==
  /\ Logic!transfer
  /\ Logic!M_AXIS_TDATA.kind = kind
  /\ Logic!M_AXIS_TDATA.index = n

Watch ==
  /\ cur' = IF rst \/ Logic!frame_end THEN None
            ELSE IF Accepted("header", 0)
              THEN [sec |-> Logic!M_AXIS_TDATA.value, num |-> -1]
            ELSE IF Accepted("header", 1)
              THEN [cur EXCEPT !.num = Logic!M_AXIS_TDATA.value]
            ELSE cur
  /\ prev' = IF rst THEN None ELSE IF Logic!frame_end THEN cur ELSE prev
  /\ lastWord' = IF rst \/ rst' THEN -1
                 ELSE IF Logic!transfer /\ Logic!M_AXIS_TDATA.kind = "payload"
                   THEN Logic!M_AXIS_TDATA.value
                 ELSE lastWord

Init == /\ rst = TRUE
        /\ M_AXIS_TREADY \in BOOLEAN
        /\ fifo = <<>> /\ nextTag = 0
        /\ onepps_in = FALSE
        /\ onepps_r_1 = FALSE /\ onepps_r_2 = FALSE /\ onepps_r_3 = FALSE
        /\ cnt = 0
        /\ state = "idle_state" /\ word_cnt = 0
        /\ frame_number_clr = FALSE /\ data_frame_number_u = 0
        /\ beat = Logic!Nothing
        /\ frames = FramesPerSecond
        /\ cur = None /\ prev = None /\ lastWord = -1

Next == /\ Seconds!Edge
        /\ Logic!Edge
        /\ rst' \in BOOLEAN
        /\ M_AXIS_TREADY' \in BOOLEAN
        /\ FifoStep
        /\ PpsStep
        /\ Watch

Spec == Init /\ [][Next]_vars
(* The clock ticks: an edge that would change a register comes; the inputs *)
(* need never change.                                                      *)
FairSpec == Spec /\ WF_clocked(Next)

----------------------------------------------------------------------------
(* Properties                                                              *)

(* Both header fields of the current frame and of the one before it have   *)
(* been sent.                                                              *)
TwoHeaders == cur.num # -1 /\ prev.num # -1

(* A frame whose header carries a new second carries frame number zero,    *)
(* wherever the PPS falls in the frame before it.                          *)
NewSecondStartsAtZero ==
  TwoHeaders /\ cur.sec # prev.sec => cur.num = 0

(* Frame numbers never skip one: the next number is the previous one plus  *)
(* one, or zero.                                                           *)
NumbersNeverSkip ==
  TwoHeaders => cur.num \in {0, (prev.num + 1) % NumberMod}

(* The payload of consecutive frames is the FIFO's words in their order:   *)
(* none is lost, repeated or swallowed behind a header.                    *)
PayloadContinuous ==
  FIFO_M_tvalid /\ lastWord # -1 => Head(fifo) = (lastWord + 1) % WordTags

(* A word offered and not yet taken stays offered, and stays the word it   *)
(* is, unless the core is reset. Two words are an exception which          *)
(* AXI4-Stream does not know: header words 0 and 1 are wired to the        *)
(* counters (vdif_logic.vhd 108-109), and under a sink that stalls they    *)
(* turn into those of the second that begins.                              *)
OfferStands ==
  [][Logic!M_AXIS_TVALID /\ ~M_AXIS_TREADY /\ ~rst /\ ~rst' =>
       /\ Logic!M_AXIS_TVALID'
       /\ \/ Logic!M_AXIS_TDATA' = Logic!M_AXIS_TDATA
          \/ word_cnt = 0 /\ Seconds!onepps_RE
          \/ word_cnt = 1 /\ frame_number_clr]_vars

(* Lines 216 and 229 of vdif_logic.vhd call the clear of the frame number  *)
(* "if new second": within one second the number only ever advances.       *)
NumberRestartsOnlyAtNewSecond ==
  TwoHeaders /\ cur.sec = prev.sec
    => cur.num = (prev.num + 1) % NumberMod

(* Every PPS is seen in the stream: a frame of the new second with number  *)
(* zero follows, as long as the core runs, the sink accepts and the FIFO   *)
(* is fed.                                                                 *)
PpsReachesStream ==
  (<>[]~rst /\ []<>(M_AXIS_TREADY /\ FIFO_M_tvalid)) =>
    \A s \in 0 .. SecondMod - 1 :
      [](Seconds!onepps_RE /\ cnt = s =>
           <>(rst \/ cur = [sec |-> (s + 1) % SecondMod, num |-> 0]))
=============================================================================
