---------------------------- MODULE FrameStream ----------------------------
(***************************************************************************)
(* What the VDIF formatter promises to the AXI DMA behind it, with no      *)
(* clock, FSM or counter: the accepted beats of the output stream form     *)
(* frames of FrameWords words, the first HeaderWords of a frame are the    *)
(* header words in order, the rest are payload, and only the last word of  *)
(* a frame carries TLAST.  A reset abandons the frame in progress.         *)
(* VdifLogic implements this specification (theorem Implements of          *)
(* Framer_proof).                                                          *)
(***************************************************************************)
EXTENDS Integers

CONSTANTS HeaderWords, FrameWords

VARIABLES pos,     \* words of the current frame accepted so far
          kind,    \* what the last step delivered: "header", "payload" or "none"
          index,   \* its index in the frame
          last     \* its TLAST flag

vars == <<pos, kind, index, last>>

Init == /\ pos = 0
        /\ kind = "none"
        /\ index = 0
        /\ last = FALSE

(* The sink accepts the word at `pos`; `next` is the position after it.    *)
Accept(next) ==
  /\ kind' = IF pos < HeaderWords THEN "header" ELSE "payload"
  /\ index' = pos
  /\ last' = (pos = FrameWords - 1)
  /\ pos' = next

Deliver == Accept(IF pos = FrameWords - 1 THEN 0 ELSE pos + 1)

(* A cycle in which the sink accepts nothing.                              *)
Quiet ==
  /\ kind' = "none"
  /\ index' = 0
  /\ last' = FALSE
  /\ pos' = pos

(* Reset: the frame is abandoned; the word on the bus in the cycle of the  *)
(* reset may still be accepted.                                            *)
Abandon ==
  \/ Accept(0)
  \/ /\ kind' = "none"
     /\ index' = 0
     /\ last' = FALSE
     /\ pos' = 0

Next == Deliver \/ Quiet \/ Abandon

Spec == Init /\ [][Next]_vars
=============================================================================
