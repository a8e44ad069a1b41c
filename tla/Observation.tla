---------------------------- MODULE Observation ----------------------------
(***************************************************************************)
(* One observation after another: the main loop of sw/main.c, the DMA and  *)
(* UDP drivers it calls, the DMA interrupt, and the hardware they drive.   *)
(*                                                                         *)
(*   main loop   one action per statement group between two points where   *)
(*               the interrupt or the hardware can be seen to intervene;   *)
(*               `pc` names the group                                      *)
(*   s2mm_isr    one action: nothing of the main loop runs inside it       *)
(*   formatter   the frame stream of FrameStream: VdifLogic implements it  *)
(*   AXI DMA     external: simple S2MM transfers, an interrupt on          *)
(*               completion or error, and a few words accepted into the    *)
(*               stream's skid buffer while no transfer runs (main.c 571)  *)
(*   Ethernet    external: a datagram's buffer is read by the MAC after    *)
(*               udp_send returned, because the payload is not copied      *)
(*                                                                         *)
(* Timing assumption, a guard of Move and of StartObservation: the MAC has *)
(* sent a datagram before the DMA completes the next frame (70 us against  *)
(* 510 us) and before the next observation starts.                         *)
(***************************************************************************)
EXTENDS Integers, Sequences

CONSTANTS
  FrameWords,        \* words of a frame, PACKET_LENGTH_WORDS
  SkidWords,         \* words the idle DMA accepts, 4 in main.c's comment
  FramesPerSecond,   \* 1953 in main.c
  Seconds,           \* observation periods the operator types
  MaxRuns            \* bound: observations started

ASSUME ObservationAssumption ==
  /\ FrameWords \in Nat \ {0} /\ SkidWords \in Nat \ {0}
  /\ FramesPerSecond \in Nat \ {0}
  /\ Seconds \subseteq Nat
  /\ MaxRuns \in Nat

Buffers == {"rcv_buf_1", "rcv_buf_2"}

VARIABLES
  pc,
  start_obs_flag, set_period_flag, buffer_number,
  packet_count, count_threshold,
  g_s2mm_done, g_dma_err,          \* set by the interrupt
  seconds_recv, reply,             \* time of the host: known, on its way
  rst, pos, frame,                 \* formatter: position in a frame, frame
  dma, dst, fill, skid, irq, irq_en, \* AXI DMA; irq_en: its interrupt is on
  mem,                             \* the two receive buffers
  txq, sent,                       \* datagrams queued in the MAC; sent
  run,                             \* history: number of the observation
  lostStart                        \* history: a transfer was kicked off
                                   \* while the DMA was being reset

consoleVars == <<set_period_flag, count_threshold>>
loopVars == <<start_obs_flag, buffer_number, packet_count>>
flagVars == <<g_s2mm_done, g_dma_err>>
timeVars == <<seconds_recv, reply>>
framerVars == <<rst, pos, frame>>
dmaVars == <<dma, dst, fill, skid, irq, irq_en>>
txVars == <<txq, sent>>
historyVars == <<run, lostStart>>
vars == <<pc, consoleVars, loopVars, flagVars, timeVars, framerVars, dmaVars, mem,
          txVars, historyVars>>

Word(r, f, i) == [run |-> r, frame |-> f, index |-> i]
NoWord == Word(0, 0, 0)
WholeFrame(r, f) == [i \in 0 .. FrameWords - 1 |-> Word(r, f, i)]

(* main.c line 499: buffer 1 was filled when buffer_number is zero.        *)
CurrentBuffer == IF buffer_number = 0 THEN "rcv_buf_1" ELSE "rcv_buf_2"
OtherBuffer == IF buffer_number = 0 THEN "rcv_buf_2" ELSE "rcv_buf_1"

TypeOK ==
  /\ pc \in {"poll", "branch", "console", "dma_reset", "release", "clear_0",
             "first_rcv", "clear", "send", "arm", "count", "halted"}
  /\ start_obs_flag \in BOOLEAN /\ set_period_flag \in BOOLEAN
  /\ buffer_number \in {0, -1}
  /\ packet_count \in Nat
  /\ count_threshold \in {s * FramesPerSecond : s \in Seconds \cup {1}}
  /\ g_s2mm_done \in BOOLEAN /\ g_dma_err \in BOOLEAN
  /\ seconds_recv \in BOOLEAN /\ reply \in BOOLEAN
  /\ rst \in BOOLEAN /\ pos \in 0 .. FrameWords - 1 /\ frame \in Nat
  /\ dma \in {"idle", "running", "resetting"}
  /\ dst \in Buffers /\ fill \in 0 .. FrameWords
  /\ Len(skid) <= SkidWords
  /\ irq \subseteq {"IOC", "ERROR"} /\ irq_en \in BOOLEAN
  /\ DOMAIN mem = Buffers
  /\ txq \in Seq(Buffers)
  /\ run \in 0 .. MaxRuns /\ lostStart \in BOOLEAN

(* main() has configured the peripherals: the formatter is in reset (370), *)
(* the DMA reset and idle (403), the buffers clear (406) and the reference *)
(* epoch sent to the host (457); the datagram or its answer may get lost.  *)
Init ==
  /\ pc = "poll"
  /\ start_obs_flag = FALSE /\ set_period_flag = FALSE
  /\ buffer_number = 0
  /\ packet_count = 0 /\ count_threshold = FramesPerSecond
  /\ g_s2mm_done = FALSE /\ g_dma_err = FALSE
  /\ seconds_recv = FALSE /\ reply \in BOOLEAN
  /\ rst = TRUE /\ pos = 0 /\ frame = 0
  /\ dma = "idle" /\ dst = "rcv_buf_1" /\ fill = 0
  /\ skid = <<>> /\ irq = {} /\ irq_en = TRUE
  /\ mem = [b \in Buffers |-> [i \in 0 .. FrameWords - 1 |-> NoWord]]
  /\ txq = <<>> /\ sent = <<>>
  /\ run = 0 /\ lostStart = FALSE

----------------------------------------------------------------------------
(* Drivers                                                                 *)

(* XAxiDma_Reset drops the transfer, the words in the DMA and a pending    *)
(* interrupt, and switches the interrupt off; the reset takes a while.     *)
XAxiDma_Reset(after) ==
  /\ dma' = after
  /\ skid' = <<>>
  /\ irq' = {} /\ irq_en' = FALSE
  /\ UNCHANGED <<dst, fill>>

(* dma_reset does not wait for ResetIsDone.                                *)
dma_reset == XAxiDma_Reset("resetting")

(* Seeded bug: the interrupt is not switched on again after a reset.       *)
dma_rcv_NoInterrupt(buffer) ==
  /\ UNCHANGED <<skid, irq, irq_en>>
  /\ \/ /\ dma = "idle"
        /\ dma' = "running" /\ dst' = buffer /\ fill' = 0
     \/ /\ dma # "idle"
        /\ UNCHANGED <<dma, dst, fill>>
  /\ lostStart' = (lostStart \/ dma = "resetting")

(* dma_set_rcv_buf and dma_rcv: the interrupt is switched on and the       *)
(* transfer started.  A running DMA refuses the transfer, one that is      *)
(* being reset loses both; no caller looks at the status.                  *)
dma_rcv(buffer) ==
  /\ UNCHANGED <<skid, irq>>
  /\ irq_en' = (dma # "resetting" \/ irq_en)
  /\ \/ /\ dma = "idle"
        /\ dma' = "running" /\ dst' = buffer /\ fill' = 0
     \/ /\ dma # "idle"
        /\ UNCHANGED <<dma, dst, fill>>
  /\ lostStart' = (lostStart \/ dma = "resetting")

(* Queued for the MAC, or not: pbuf_alloc or udp_send may fail, and the    *)
(* callers ignore the status.                                              *)
udp_client_send(buffer) ==
  /\ txq' \in {Append(txq, buffer), txq}
  /\ UNCHANGED sent

vdif_formatter_set_rst(bit) == rst' = bit /\ pos' = 0 /\ frame' = 0

----------------------------------------------------------------------------
(* Main loop: the observing branch                                         *)

hardware == <<framerVars, dmaVars, mem, txVars>>

Goto(from, to) == pc = from /\ pc' = to

(* xemacif_input (484): the host's timestamp, if it arrived, is loaded     *)
(* into axi_sync by the receive callback.                                  *)
Poll ==
  /\ Goto("poll", "branch")
  /\ \/ reply /\ reply' = FALSE /\ seconds_recv' = TRUE
     \/ UNCHANGED timeVars
  /\ UNCHANGED <<consoleVars, loopVars, flagVars, hardware, historyVars>>

(* The tests of lines 486, 487, 490 and 529.                               *)
Branch ==
  /\ \/ Goto("branch", "poll") /\ start_obs_flag /\ ~g_s2mm_done /\ ~g_dma_err
     \/ Goto("branch", "halted") /\ start_obs_flag /\ g_dma_err
     \/ Goto("branch", "clear") /\ start_obs_flag /\ g_s2mm_done /\ ~g_dma_err
     \/ Goto("branch", "poll") /\ ~start_obs_flag /\ ~seconds_recv
     \/ Goto("branch", "console") /\ ~start_obs_flag /\ seconds_recv
  /\ UNCHANGED <<consoleVars, loopVars, flagVars, timeVars, hardware,
                 historyVars>>

ClearFlags ==
  /\ Goto("clear", "send")
  /\ g_s2mm_done' = FALSE /\ g_dma_err' = FALSE
  /\ UNCHANGED <<consoleVars, loopVars, timeVars, hardware, historyVars>>

SendBuffer ==
  /\ Goto("send", "arm")
  /\ udp_client_send(CurrentBuffer)
  /\ UNCHANGED <<consoleVars, loopVars, flagVars, timeVars, framerVars,
                 dmaVars, mem, historyVars>>

(* Seeded bug: the buffer that was just sent is filled again.              *)
ArmOther_Same ==
  /\ Goto("arm", "count")
  /\ dma_rcv(CurrentBuffer)
  /\ UNCHANGED <<consoleVars, loopVars, flagVars, timeVars, framerVars, mem,
                 txVars, run>>

ArmOther ==
  /\ Goto("arm", "count")
  /\ dma_rcv(OtherBuffer)
  /\ UNCHANGED <<consoleVars, loopVars, flagVars, timeVars, framerVars, mem,
                 txVars, run>>

(* Seeded bug: the observation ends one frame late.                        *)
CountPacket_OneMore ==
  /\ Goto("count", "poll")
  /\ buffer_number' = -1 - buffer_number
  /\ packet_count' = packet_count + 1
  /\ \/ /\ packet_count = count_threshold
        /\ start_obs_flag' = FALSE
        /\ vdif_formatter_set_rst(TRUE)
     \/ /\ packet_count # count_threshold
        /\ UNCHANGED <<start_obs_flag, framerVars>>
  /\ UNCHANGED <<consoleVars, flagVars, timeVars, dmaVars, mem, txVars,
                 historyVars>>

(* Lines 518-525: the last frame ends the observation and puts the         *)
(* formatter back in reset; the transfer just started stays pending.       *)
CountPacket ==
  /\ Goto("count", "poll")
  /\ buffer_number' = -1 - buffer_number
  /\ packet_count' = packet_count + 1
  /\ \/ /\ packet_count' = count_threshold
        /\ start_obs_flag' = FALSE
        /\ vdif_formatter_set_rst(TRUE)
     \/ /\ packet_count' # count_threshold
        /\ UNCHANGED <<start_obs_flag, framerVars>>
  /\ UNCHANGED <<consoleVars, flagVars, timeVars, dmaVars, mem, txVars,
                 historyVars>>

----------------------------------------------------------------------------
(* Main loop: the console, one action per character or line                *)

(* Any byte or line that is no command, or help.                           *)
TypeOther ==
  /\ Goto("console", "poll")
  /\ UNCHANGED <<consoleVars, loopVars, flagVars, timeVars, hardware,
                 historyVars>>

TypeSetPeriod ==
  /\ Goto("console", "poll")
  /\ ~set_period_flag
  /\ set_period_flag' = TRUE
  /\ UNCHANGED <<count_threshold, loopVars, flagVars, timeVars, hardware,
                 historyVars>>

(* A period of zero becomes one second (540-544).                          *)
TypeSeconds(s) ==
  /\ Goto("console", "poll")
  /\ set_period_flag
  /\ set_period_flag' = FALSE
  /\ count_threshold' = (IF s = 0 THEN 1 ELSE s) * FramesPerSecond
  /\ UNCHANGED <<loopVars, flagVars, timeVars, hardware, historyVars>>

(* txq is empty: what the console prints from the end of one observation   *)
(* to the start of the next keeps a UART busy for milliseconds.            *)
StartObservation ==
  /\ Goto("console", "dma_reset")
  /\ ~set_period_flag
  /\ run < MaxRuns /\ txq = <<>>
  /\ run' = run + 1
  /\ start_obs_flag' = TRUE
  /\ packet_count' = 0
  /\ buffer_number' = 0
  /\ UNCHANGED <<consoleVars, flagVars, timeVars, hardware, lostStart>>

(* Seeded bug: the DMA is not reset between observations.                  *)
ResetDma_Skipped ==
  /\ Goto("dma_reset", "release")
  /\ UNCHANGED <<consoleVars, loopVars, flagVars, timeVars, hardware,
                 historyVars>>

ResetDma ==
  /\ Goto("dma_reset", "release")
  /\ dma_reset
  /\ UNCHANGED <<consoleVars, loopVars, flagVars, timeVars, framerVars, mem,
                 txVars, historyVars>>

ReleaseFormatter ==
  /\ Goto("release", "clear_0")
  /\ vdif_formatter_set_rst(FALSE)
  /\ UNCHANGED <<consoleVars, loopVars, flagVars, timeVars, dmaVars, mem,
                 txVars, historyVars>>

(* Seeded bug: the flags of the last transfer are kept.                    *)
ClearFirst_Forgets ==
  /\ Goto("clear_0", "first_rcv")
  /\ UNCHANGED <<consoleVars, loopVars, flagVars, timeVars, hardware,
                 historyVars>>

ClearFirst ==
  /\ Goto("clear_0", "first_rcv")
  /\ g_s2mm_done' = FALSE /\ g_dma_err' = FALSE
  /\ UNCHANGED <<consoleVars, loopVars, timeVars, hardware, historyVars>>

ArmFirst ==
  /\ Goto("first_rcv", "poll")
  /\ dma_rcv("rcv_buf_1")
  /\ UNCHANGED <<consoleVars, loopVars, flagVars, timeVars, framerVars, mem,
                 txVars, run>>

----------------------------------------------------------------------------
(* Interrupt: the status is read and acknowledged; an error wins over a    *)
(* completion and resets the DMA, waiting for the reset to finish but not  *)
(* for ever (main.c 667-673).                                              *)
s2mm_isr ==
  /\ irq # {} /\ irq_en
  /\ \/ /\ "ERROR" \in irq
        /\ g_dma_err' = TRUE
        /\ \E after \in {"idle", "resetting"} : XAxiDma_Reset(after)
        /\ UNCHANGED g_s2mm_done
     \/ /\ "ERROR" \notin irq
        /\ g_s2mm_done' = TRUE
        /\ irq' = {}
        /\ UNCHANGED <<g_dma_err, dma, dst, fill, skid, irq_en>>
  /\ UNCHANGED <<pc, consoleVars, loopVars, timeVars, framerVars, mem,
                 txVars, historyVars>>

----------------------------------------------------------------------------
(* Hardware and host                                                       *)

software == <<pc, consoleVars, loopVars, flagVars, historyVars>>

(* The formatter hands one word to the DMA, transfer or not, while the     *)
(* DMA has room.                                                           *)
Deliver ==
  /\ ~rst /\ dma # "resetting" /\ Len(skid) < SkidWords
  /\ skid' = Append(skid, Word(run, frame, pos))
  /\ pos' = (pos + 1) % FrameWords
  /\ frame' = IF pos = FrameWords - 1 THEN frame + 1 ELSE frame
  /\ UNCHANGED <<software, timeVars, rst, dma, dst, fill, irq, irq_en,
                 mem, txVars>>

(* The DMA writes one word; TLAST completes the transfer, a full buffer    *)
(* without TLAST is an error.                                              *)
Move ==
  /\ dma = "running" /\ skid # <<>>
  /\ mem' = [mem EXCEPT ![dst][fill] = Head(skid)]
  /\ fill' = fill + 1
  /\ skid' = Tail(skid)
  /\ \/ /\ Head(skid).index # FrameWords - 1 /\ fill' < FrameWords
        /\ UNCHANGED <<dma, irq>>
     \/ /\ Head(skid).index = FrameWords - 1
        /\ txq = <<>>
        /\ dma' = "idle" /\ irq' = irq \cup {"IOC"}
     \/ /\ Head(skid).index # FrameWords - 1 /\ fill' = FrameWords
        /\ dma' = "idle" /\ irq' = irq \cup {"ERROR"}
  /\ UNCHANGED <<software, timeVars, framerVars, dst, irq_en, txVars>>

(* A bus error stops the transfer.                                         *)
Fault ==
  /\ dma = "running"
  /\ dma' = "idle" /\ irq' = irq \cup {"ERROR"}
  /\ UNCHANGED <<software, timeVars, framerVars, dst, fill, skid, irq_en,
                 mem, txVars>>

ResetDone ==
  /\ dma = "resetting"
  /\ dma' = "idle"
  /\ UNCHANGED <<software, timeVars, framerVars, dst, fill, skid, irq,
                 irq_en, mem, txVars>>

(* The MAC reads the buffer and sends it.                                  *)
Transmit ==
  /\ txq # <<>>
  /\ sent' = Append(sent, mem[Head(txq)])
  /\ txq' = Tail(txq)
  /\ UNCHANGED <<software, timeVars, framerVars, dmaVars, mem>>

----------------------------------------------------------------------------
MainLoop == \/ Poll \/ Branch \/ ClearFlags \/ SendBuffer \/ ArmOther
            \/ CountPacket \/ ResetDma \/ ReleaseFormatter \/ ClearFirst
            \/ ArmFirst

Console == \/ TypeOther \/ TypeSetPeriod \/ StartObservation
           \/ \E s \in Seconds : TypeSeconds(s)

Next == MainLoop \/ Console \/ s2mm_isr \/ Deliver \/ Move \/ Fault
          \/ ResetDone \/ Transmit

Spec == Init /\ [][Next]_vars

(* The processor executes, the interrupt is taken, the clocked hardware    *)
(* moves; the operator, the host and a bus fault promise nothing.          *)
FairSpec == /\ Spec
            /\ WF_vars(MainLoop) /\ WF_vars(s2mm_isr)
            /\ WF_vars(Deliver) /\ WF_vars(Move)
            /\ WF_vars(ResetDone) /\ WF_vars(Transmit)

----------------------------------------------------------------------------
(* Properties                                                              *)

(* The buffer about to be sent holds one whole frame, header first, of     *)
(* this observation, and it is the next one: no word of an earlier         *)
(* observation, no part of two frames, none skipped, none sent twice.      *)
SendsNextFrame ==
  pc = "send" => mem[CurrentBuffer] = WholeFrame(run, packet_count)

(* Clearing both flags at line 496 throws no interrupt away: nothing runs  *)
(* that could raise one between the test of the flags and their clearing.  *)
ClearLosesNothing ==
  pc = "clear" => dma # "running" /\ irq = {} /\ ~g_dma_err

(* No transfer is asked of a DMA that still runs one.                      *)
NeverRefused == pc \in {"arm", "first_rcv"} => dma # "running"

(* The back end as the recording host sees it.                             *)
FrameId(datagram) ==
  LET first == datagram[0]
  IN IF datagram = WholeFrame(first.run, first.frame)
     THEN <<first.run, first.frame>> ELSE <<0, 0>>

Host == INSTANCE Recording WITH
          Targets <- {s * FramesPerSecond : s \in Seconds \cup {1}},
          phase <- IF pc = "halted" THEN "failed"
                   ELSE IF start_obs_flag THEN "observing" ELSE "idle",
          target <- count_threshold,
          taken <- packet_count,
          log <- [i \in 1 .. Len(sent) |-> FrameId(sent[i])]

(* What the MAC sends is what the recording host was promised: whole       *)
(* frames in order, an observation of exactly the frames asked for.        *)
HostSpec == Host!Spec

(* An observation that has started ends, by its last frame or by a         *)
(* reported DMA error, unless its first transfer was lost in the DMA's     *)
(* reset.                                                                  *)
ObservationEnds ==
  []~lostStart => (start_obs_flag ~> ~start_obs_flag \/ pc = "halted")
=============================================================================
