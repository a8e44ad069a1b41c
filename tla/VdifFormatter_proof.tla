------------------------ MODULE VdifFormatter_proof ------------------------
(***************************************************************************)
(* What the formatter core, the FIFO in front of it and the counter of     *)
(* seconds together do to the stream, for every frame length, depth of the *)
(* FIFO, width of the frame number and of the second, and every distance   *)
(* of the PPS.                                                             *)
(*                                                                         *)
(* The composition drives the inputs of the core within their ranges, so   *)
(* what Framer_proof proves for all inputs holds here too (theorem         *)
(* CoreIsVdifLogic).                                                       *)
(***************************************************************************)
EXTENDS VdifFormatter, TLAPS

Following(t) == (t + 1) % WordTags

(* The words in the FIFO, the one that enters it next and the one that     *)
(* left it last are consecutive.                                           *)
Queue ==
  /\ fifo \in Seq(Tags) /\ nextTag \in Tags
  /\ lastWord \in Tags \cup {-1}
  /\ \A i \in 1 .. Len(fifo) - 1 : fifo[i + 1] = Following(fifo[i])
  /\ fifo # <<>> => nextTag = Following(fifo[Len(fifo)])
  /\ lastWord # -1 => IF fifo = <<>> THEN nextTag = Following(lastWord)
                      ELSE Head(fifo) = Following(lastWord)

Headers == [sec : 0 .. SecondMod - 1, num : 0 .. NumberMod - 1]

(* The fields of the current frame are known from its first and its second *)
(* word on, those of the frame before it all or none.                      *)
Read ==
  /\ prev \in Headers \cup {None}
  /\ cur \in [sec : {-1} \cup (0 .. SecondMod - 1), num : {-1} \cup (0 .. NumberMod - 1)]
  /\ cur.sec # -1 <=> word_cnt >= 1
  /\ cur.num # -1 <=> word_cnt >= 2

(* The frame number that the next header will carry.                       *)
Numbered ==
  /\ prev # None /\ cur.num = -1 =>
       data_frame_number_u \in {0, (prev.num + 1) % NumberMod}
  /\ cur.num # -1 => frame_number_clr \/ data_frame_number_u = cur.num
  /\ prev # None /\ cur.num # -1 => cur.num \in {0, (prev.num + 1) % NumberMod}

(* A second that began since the header was sent leaves the clear pending  *)
(* to the end of the frame; one that the header was first to carry found   *)
(* the number cleared, or one word later finds it so.                      *)
Restarted ==
  /\ prev # None /\ cur.sec = -1 /\ cnt # prev.sec =>
       frame_number_clr \/ data_frame_number_u = 0
  /\ prev # None /\ cur.sec # -1 /\ cur.num = -1 /\ cur.sec # prev.sec =>
       data_frame_number_u = 0
  /\ cur.sec # -1 /\ cnt # cur.sec => frame_number_clr
  /\ prev # None /\ cur.num # -1 /\ cur.sec # prev.sec => cur.num = 0

Core == Logic!TypeOK /\ Logic!Aligned

(* Inductive: the core is typed and aligned, and the three parts above.    *)
IInv == Core /\ Queue /\ Read /\ Numbered /\ Restarted

----------------------------------------------------------------------------
(* The core                                                                *)

(* The numbers the assumptions leave to the provers.                       *)
LEMMA Lengths ==
  /\ Logic!HeaderWords = 8
  /\ Logic!frame_length_words \in Nat /\ Logic!frame_length_words > 8
BY FrameLengthAssumption DEF Logic!HeaderWords, Logic!frame_length_words

(* What Core says of the registers.                                        *)
LEMMA CoreTypes ==
  ASSUME Core
  PROVE  /\ rst \in BOOLEAN /\ M_AXIS_TREADY \in BOOLEAN
         /\ cnt \in 0 .. SecondMod - 1
         /\ word_cnt \in 0 .. Logic!frame_length_words - 1
         /\ frame_number_clr \in BOOLEAN
         /\ data_frame_number_u \in 0 .. NumberMod - 1
         /\ state \in {"idle_state", "transmit_header", "transmit_payload"}
         /\ state = "transmit_payload" <=> word_cnt >= 8
BY Lengths DEF Core, Logic!TypeOK, Logic!InputsOK, Logic!Aligned

(* The word on the bus, by its position in the frame.                      *)
LEMMA Word ==
  ASSUME Core, Logic!transfer
  PROVE  /\ word_cnt = 0 => Logic!M_AXIS_TDATA = Logic!HeaderWord(0)
         /\ word_cnt = 1 => Logic!M_AXIS_TDATA = Logic!HeaderWord(1)
         /\ Logic!M_AXIS_TDATA.kind =
              IF word_cnt < 8 THEN "header" ELSE "payload"
         /\ Logic!M_AXIS_TDATA.index = word_cnt
         /\ word_cnt >= 8 => Logic!M_AXIS_TDATA.value = Head(fifo) /\ fifo # <<>>
<1>1. /\ state = "idle_state" => word_cnt = 0
      /\ state = "transmit_header" => word_cnt < 8
      /\ state = "transmit_payload" => word_cnt >= 8
      /\ state \in {"idle_state", "transmit_header", "transmit_payload"}
      /\ word_cnt \in Nat
  BY Lengths DEF Core, Logic!Aligned, Logic!TypeOK
<1>2. CASE state = "idle_state"
  <2>1. ~rst
    BY <1>2 DEF Logic!transfer, Logic!M_AXIS_TVALID
  <2>2. Logic!M_AXIS_TDATA = Logic!HeaderWord(0)
    BY <1>2, <2>1 DEF Logic!M_AXIS_TDATA
  <2> QED BY <1>1, <1>2, <2>2 DEF Logic!HeaderWord
<1>3. CASE state = "transmit_header"
  <2>1. Logic!M_AXIS_TDATA = Logic!HeaderWord(word_cnt)
    BY <1>1, <1>3, Lengths DEF Logic!M_AXIS_TDATA
  <2> QED BY <1>1, <1>3, <2>1 DEF Logic!HeaderWord
<1>4. CASE state = "transmit_payload"
  <2>1. FIFO_M_tvalid
    BY <1>4 DEF Logic!transfer, Logic!M_AXIS_TVALID
  <2>2. Logic!M_AXIS_TDATA = [kind |-> "payload", index |-> word_cnt, value |-> Head(fifo)]
    BY <1>4, <2>1 DEF Logic!M_AXIS_TDATA
  <2> QED BY <1>1, <1>4, <2>1, <2>2 DEF FIFO_M_tvalid
<1> QED BY <1>1, <1>2, <1>3, <1>4

(* The FIFO is read exactly where the sink takes a payload word.           *)
LEMMA Reads ==
  ASSUME Core
  PROVE  FIFO_rd_en <=> Logic!transfer /\ Logic!M_AXIS_TDATA.kind = "payload"
<1>1. FIFO_rd_en <=> Logic!transfer /\ state = "transmit_payload"
  BY DEF FIFO_rd_en, Logic!S_AXIS_TREADY, Logic!transfer, Logic!M_AXIS_TVALID
<1>2. state = "transmit_payload" <=> word_cnt >= 8
  BY CoreTypes
<1>3. word_cnt \in Nat
  BY CoreTypes, Lengths
<1> QED BY <1>1, <1>2, <1>3, Word

----------------------------------------------------------------------------
(* The queue                                                               *)

LEMMA Tagged ==
  /\ 0 \in Tags /\ -1 \notin Tags
  /\ \A t \in Tags : Following(t) \in Tags
BY FifoAssumption DEF Tags, Following

LEMMA InitQueue == Init => Queue
BY Tagged DEF Init, Queue

(* What the FIFO and the history of the sink do in one clock.              *)
LEMMA QueueFacts ==
  ASSUME Core, Next
  PROVE  /\ \/ fifo' = Append(AfterRead, nextTag) /\ nextTag' = Following(nextTag)
               /\ ~rst /\ ~rst'
            \/ fifo' = AfterRead /\ nextTag' = nextTag /\ ~rst /\ ~rst'
            \/ fifo' = <<>> /\ nextTag' = nextTag /\ (rst \/ rst')
         /\ lastWord' = IF rst \/ rst' THEN -1
                        ELSE IF FIFO_rd_en THEN Head(fifo) ELSE lastWord
         /\ FIFO_rd_en => fifo # <<>>
<1>1. FifoStep /\ Watch
  BY DEF Next
<1>2. lastWord' = IF rst \/ rst' THEN -1
                  ELSE IF FIFO_rd_en THEN Logic!M_AXIS_TDATA.value ELSE lastWord
  BY <1>1, Reads DEF Watch
<1>3. FIFO_rd_en => Logic!M_AXIS_TDATA.value = Head(fifo) /\ fifo # <<>>
  <2> SUFFICES ASSUME FIFO_rd_en
               PROVE  Logic!M_AXIS_TDATA.value = Head(fifo) /\ fifo # <<>>
    OBVIOUS
  <2>1. Logic!transfer /\ Logic!M_AXIS_TDATA.kind = "payload"
    BY Reads
  <2>2. word_cnt >= 8
    BY <2>1, Word, CoreTypes, Lengths
  <2> QED BY <2>1, <2>2, Word
<1>4. \/ /\ ~rst' /\ ~rst
         /\ fifo' = Append(AfterRead, nextTag)
         /\ nextTag' = Following(nextTag)
      \/ fifo' = (IF rst \/ rst' THEN <<>> ELSE AfterRead) /\ nextTag' = nextTag
  BY <1>1 DEF FifoStep, FIFO_full, Following
<1> QED BY <1>2, <1>3, <1>4

(* Reading keeps the queue in order.                                       *)
LEMMA AfterReadOrdered ==
  ASSUME Queue, FIFO_rd_en => fifo # <<>>
  PROVE  /\ AfterRead \in Seq(Tags)
         /\ \A i \in 1 .. Len(AfterRead) - 1 :
               AfterRead[i + 1] = Following(AfterRead[i])
         /\ AfterRead # <<>> => nextTag = Following(AfterRead[Len(AfterRead)])
         /\ FIFO_rd_en => /\ Head(fifo) \in Tags
                          /\ IF AfterRead = <<>> THEN nextTag = Following(Head(fifo))
                             ELSE Head(AfterRead) = Following(Head(fifo))
<1>1. fifo \in Seq(Tags)
  BY DEF Queue
<1>2. CASE ~FIFO_rd_en
  BY <1>2 DEF AfterRead, Queue
<1>3. CASE FIFO_rd_en
  <2>1. fifo # <<>> /\ AfterRead = Tail(fifo)
    BY <1>3 DEF AfterRead
  <2>2. Len(fifo) \in Nat /\ Len(fifo) >= 1
    BY <1>1, <2>1
  <2>3. /\ AfterRead \in Seq(Tags) /\ Len(AfterRead) = Len(fifo) - 1
        /\ \A i \in 1 .. Len(AfterRead) : AfterRead[i] = fifo[i + 1]
    BY <1>1, <2>1, <2>2
  <2>4. \A i \in 1 .. Len(fifo) - 1 : fifo[i + 1] = Following(fifo[i])
    BY DEF Queue
  <2>5. ASSUME NEW i \in 1 .. Len(AfterRead) - 1
        PROVE  AfterRead[i + 1] = Following(AfterRead[i])
    <3>1. /\ i \in 1 .. Len(AfterRead) /\ i + 1 \in 1 .. Len(AfterRead)
          /\ i + 1 \in 1 .. Len(fifo) - 1
      BY <2>2, <2>3
    <3> QED BY <2>3, <2>4, <3>1
  <2>6. Head(fifo) = fifo[1] /\ fifo[1] \in Tags
    BY <1>1, <2>1, <2>2
  <2>7. CASE Len(fifo) = 1
    <3>1. AfterRead = <<>>
      BY <2>2, <2>3, <2>7
    <3> QED BY <2>1, <2>3, <2>5, <2>6, <2>7, <3>1 DEF Queue
  <2>8. CASE Len(fifo) > 1
    <3>1. AfterRead # <<>> /\ Head(AfterRead) = AfterRead[1]
      BY <2>2, <2>3, <2>8
    <3>2. AfterRead[1] = fifo[2] /\ AfterRead[Len(AfterRead)] = fifo[Len(fifo)]
      BY <2>2, <2>3, <2>8
    <3>3. fifo[2] = Following(fifo[1])
      BY <2>2, <2>4, <2>8
    <3> QED BY <2>1, <2>3, <2>5, <2>6, <3>1, <3>2, <3>3 DEF Queue
  <2>9. Len(fifo) = 1 \/ Len(fifo) > 1
    BY <1>1, <2>2
  <2> QED BY <2>7, <2>8, <2>9
<1> QED BY <1>2, <1>3

(* Appending what follows keeps a sequence in order.                       *)
LEMMA AppendOrdered ==
  ASSUME NEW q \in Seq(Tags), NEW t \in Tags,
         \A i \in 1 .. Len(q) - 1 : q[i + 1] = Following(q[i]),
         q # <<>> => t = Following(q[Len(q)])
  PROVE  /\ Append(q, t) \in Seq(Tags) /\ Append(q, t) # <<>>
         /\ Head(Append(q, t)) = IF q = <<>> THEN t ELSE Head(q)
         /\ Append(q, t)[Len(Append(q, t))] = t
         /\ \A i \in 1 .. Len(Append(q, t)) - 1 :
               Append(q, t)[i + 1] = Following(Append(q, t)[i])
<1> DEFINE a == Append(q, t)
<1>1. /\ a \in Seq(Tags) /\ Len(a) = Len(q) + 1 /\ Len(q) \in Nat
      /\ a[Len(q) + 1] = t /\ \A i \in 1 .. Len(q) : a[i] = q[i]
  OBVIOUS
<1>2. a # <<>> /\ Head(a) = a[1]
  BY <1>1
<1>3. q # <<>> => Len(q) >= 1 /\ Head(q) = q[1] /\ a[1] = q[1]
  BY <1>1
<1>4. q = <<>> => Len(q) = 0
  OBVIOUS
<1> HIDE DEF a
<1>5. ASSUME NEW i \in 1 .. Len(a) - 1
      PROVE  a[i + 1] = Following(a[i])
  <2>1. CASE i = Len(q)
    <3>1. q # <<>>
      BY <1>1, <1>4, <2>1
    <3> QED BY <1>1, <2>1, <3>1
  <2>2. CASE i # Len(q)
    <3>1. i \in 1 .. Len(q) - 1 /\ i + 1 \in 1 .. Len(q) /\ i \in 1 .. Len(q)
      BY <1>1, <2>2
    <3> QED BY <1>1, <3>1
  <2> QED BY <2>1, <2>2
<1>6. Head(a) = IF q = <<>> THEN t ELSE Head(q)
  BY <1>1, <1>2, <1>3, <1>4
<1> QED BY <1>1, <1>2, <1>5, <1>6 DEF a

LEMMA QueueStep == ASSUME Core, Queue, Next PROVE Queue'
<1> DEFINE q == AfterRead
<1>1. /\ q \in Seq(Tags)
      /\ \A i \in 1 .. Len(q) - 1 : q[i + 1] = Following(q[i])
      /\ q # <<>> => nextTag = Following(q[Len(q)])
  BY QueueFacts, AfterReadOrdered
<1>2. nextTag \in Tags /\ lastWord \in Tags \cup {-1}
  BY DEF Queue
<1>3. ASSUME ~rst, ~rst'
      PROVE  /\ lastWord' \in Tags \cup {-1}
             /\ lastWord' # -1 => IF q = <<>> THEN nextTag = Following(lastWord')
                                 ELSE Head(q) = Following(lastWord')
  <2>1. CASE FIFO_rd_en
    BY <1>3, <2>1, QueueFacts, AfterReadOrdered
  <2>2. CASE ~FIFO_rd_en
    <3>1. q = fifo /\ lastWord' = lastWord
      BY <1>3, <2>2, QueueFacts DEF AfterRead
    <3> QED BY <1>2, <3>1 DEF Queue
  <2> QED BY <2>1, <2>2
<1> HIDE DEF q
<1>4. CASE /\ fifo' = Append(q, nextTag) /\ nextTag' = Following(nextTag)
           /\ ~rst /\ ~rst'
  <2>1. /\ fifo' \in Seq(Tags) /\ fifo' # <<>>
        /\ Head(fifo') = IF q = <<>> THEN nextTag ELSE Head(q)
        /\ fifo'[Len(fifo')] = nextTag
        /\ \A i \in 1 .. Len(fifo') - 1 : fifo'[i + 1] = Following(fifo'[i])
    BY <1>1, <1>2, <1>4, AppendOrdered
  <2>2. nextTag' \in Tags
    BY <1>2, <1>4, Tagged
  <2>3. lastWord' # -1 => Head(fifo') = Following(lastWord')
    BY <1>3, <1>4, <2>1
  <2> QED BY <1>3, <1>4, <2>1, <2>2, <2>3 DEF Queue, Following
<1>5. CASE fifo' = q /\ nextTag' = nextTag /\ ~rst /\ ~rst'
  BY <1>1, <1>2, <1>3, <1>5 DEF Queue, Following
<1>6. CASE fifo' = <<>> /\ nextTag' = nextTag /\ (rst \/ rst')
  <2>1. lastWord' = -1
    BY <1>6, QueueFacts
  <2> QED BY <1>2, <1>6, <2>1 DEF Queue
<1> QED BY <1>4, <1>5, <1>6, QueueFacts DEF q

----------------------------------------------------------------------------
(* The core stays aligned                                                  *)

LEMMA InitCore == Init => Core
<1> SUFFICES ASSUME Init PROVE Core
  OBVIOUS
<1>1. (IF FIFO_M_tvalid THEN Head(fifo) ELSE 0) = 0 /\ FIFO_M_tvalid \in BOOLEAN
  BY DEF Init, FIFO_M_tvalid
<1>2. cnt \in 0 .. SecondMod - 1 /\ data_frame_number_u \in 0 .. NumberMod - 1
  BY ModAssumption DEF Init
<1>3. Logic!InputsOK
  BY <1>1, <1>2, Tagged DEF Init, Logic!InputsOK, Seconds!onepps_RE
<1>4. word_cnt \in 0 .. Logic!frame_length_words - 1 /\ Logic!Aligned
  BY Lengths DEF Init, Logic!Aligned
<1> QED BY <1>2, <1>3, <1>4 DEF Init, Core, Logic!TypeOK

(* What one clock does to the registers of the core and to the second.     *)
LEMMA CoreFacts ==
  ASSUME Core, Next
  PROVE  /\ word_cnt' = IF rst \/ Logic!frame_end THEN 0
                        ELSE IF Logic!transfer THEN word_cnt + 1 ELSE word_cnt
         /\ frame_number_clr' = /\ ~rst
                                /\ \/ Seconds!onepps_RE
                                   \/ frame_number_clr /\ ~Logic!frame_end
         /\ data_frame_number_u' =
              IF rst \/ frame_number_clr THEN 0
              ELSE IF Logic!frame_end THEN (data_frame_number_u + 1) % NumberMod
              ELSE data_frame_number_u
         /\ cnt' = IF Seconds!onepps_RE THEN (cnt + 1) % SecondMod ELSE cnt
         /\ Logic!frame_end <=> Logic!transfer /\ word_cnt = Logic!frame_length_words - 1
<1>1. Logic!Edge /\ Seconds!Edge
  BY DEF Next
<1> QED BY <1>1 DEF Logic!Edge, Logic!PayloadCounter, Logic!FrameNumberClr,
                    Logic!FrameCounter, Seconds!Edge, Seconds!Count, Logic!frame_end

(* The state of the FSM after one clock.                                   *)
LEMMA StateStep ==
  ASSUME Core, Next
  PROVE  /\ rst => state' = "idle_state"
         /\ ~rst /\ state = "idle_state" => state' = "transmit_header"
         /\ ~rst /\ state = "transmit_header" =>
              state' = IF Logic!transfer /\ word_cnt = 7
                       THEN "transmit_payload" ELSE "transmit_header"
         /\ ~rst /\ state = "transmit_payload" =>
              state' = IF Logic!frame_end THEN "transmit_header" ELSE "transmit_payload"
<1>1. Logic!StateProcess
  BY DEF Next, Logic!Edge
<1>2. Logic!header_end <=> Logic!transfer /\ word_cnt = 7
  BY Lengths DEF Logic!header_end
<1>3. CASE rst
  BY <1>1, <1>3 DEF Logic!StateProcess
<1>4. CASE ~rst /\ state = "idle_state"
  BY <1>1, <1>4 DEF Logic!StateProcess
<1>5. CASE ~rst /\ state = "transmit_header"
  BY <1>1, <1>2, <1>5 DEF Logic!StateProcess
<1>6. CASE ~rst /\ state = "transmit_payload"
  BY <1>1, <1>6 DEF Logic!StateProcess
<1> QED BY <1>3, <1>4, <1>5, <1>6, CoreTypes

LEMMA AlignedStep ==
  ASSUME Core, Next
  PROVE  /\ state' \in {"idle_state", "transmit_header", "transmit_payload"}
         /\ word_cnt' \in 0 .. Logic!frame_length_words - 1
         /\ Logic!Aligned'
<1> DEFINE L == Logic!frame_length_words
<1>0. L \in Nat /\ L > 8 /\ word_cnt \in 0 .. L - 1 /\ Logic!HeaderWords = 8
  BY CoreTypes, Lengths
<1>1. /\ state = "idle_state" => word_cnt = 0
      /\ state = "transmit_header" => word_cnt < 8
      /\ state = "transmit_payload" => word_cnt >= 8
  BY <1>0 DEF Core, Logic!Aligned
<1>2. /\ word_cnt' = IF rst \/ Logic!frame_end THEN 0
                     ELSE IF Logic!transfer THEN word_cnt + 1 ELSE word_cnt
      /\ Logic!frame_end <=> Logic!transfer /\ word_cnt = L - 1
  BY CoreFacts
<1>3. word_cnt' \in 0 .. L - 1
  BY <1>0, <1>2
<1> HIDE DEF L
<1>4. CASE rst
  <2>1. state' = "idle_state" /\ word_cnt' = 0
    BY <1>2, <1>4, StateStep
  <2> QED BY <1>0, <1>3, <2>1 DEF Logic!Aligned, L
<1>5. CASE ~rst /\ state = "idle_state"
  <2>1. state' = "transmit_header" /\ word_cnt' < 8
    BY <1>0, <1>1, <1>2, <1>5, StateStep
  <2> QED BY <1>0, <1>3, <2>1 DEF Logic!Aligned, L
<1>6. CASE ~rst /\ state = "transmit_header"
  <2>1. CASE Logic!transfer /\ word_cnt = 7
    <3>1. state' = "transmit_payload" /\ word_cnt' = 8
      BY <1>0, <1>2, <1>6, <2>1, StateStep
    <3> QED BY <1>0, <1>3, <3>1 DEF Logic!Aligned, L
  <2>2. CASE ~(Logic!transfer /\ word_cnt = 7)
    <3>1. state' = "transmit_header" /\ word_cnt' < 8
      BY <1>0, <1>1, <1>2, <1>6, <2>2, StateStep
    <3> QED BY <1>0, <1>3, <3>1 DEF Logic!Aligned, L
  <2> QED BY <2>1, <2>2
<1>7. CASE ~rst /\ state = "transmit_payload"
  <2>1. CASE Logic!frame_end
    <3>1. state' = "transmit_header" /\ word_cnt' = 0
      BY <1>2, <1>7, <2>1, StateStep
    <3> QED BY <1>0, <1>3, <3>1 DEF Logic!Aligned, L
  <2>2. CASE ~Logic!frame_end
    <3>1. state' = "transmit_payload" /\ word_cnt' >= 8
      BY <1>0, <1>1, <1>2, <1>7, <2>2, StateStep
    <3> QED BY <1>0, <1>3, <3>1 DEF Logic!Aligned, L
  <2> QED BY <2>1, <2>2
<1> QED BY <1>4, <1>5, <1>6, <1>7, CoreTypes

(* The inputs the core sees are within their ranges.                       *)
LEMMA InputsStep ==
  ASSUME Core, Next, Queue'
  PROVE  Logic!NewInputs
<1>1. rst' \in BOOLEAN /\ M_AXIS_TREADY' \in BOOLEAN
  BY DEF Next
<1>2. FIFO_M_tvalid' \in BOOLEAN /\ Seconds!onepps_RE' \in BOOLEAN
  BY DEF FIFO_M_tvalid, Seconds!onepps_RE
<1>3. IF FIFO_M_tvalid' THEN Head(fifo') \in Tags ELSE 0 \in Tags
  <2>1. fifo' \in Seq(Tags)
    BY DEF Queue
  <2> QED BY <2>1, Tagged DEF FIFO_M_tvalid
<1>4. cnt' \in 0 .. SecondMod - 1
  <2>1. cnt \in 0 .. SecondMod - 1
    BY CoreTypes
  <2>2. cnt' = IF Seconds!onepps_RE THEN (cnt + 1) % SecondMod ELSE cnt
    BY CoreFacts
  <2> QED BY <2>1, <2>2, ModAssumption
<1> QED BY <1>1, <1>2, <1>3, <1>4 DEF Logic!NewInputs

LEMMA CoreStep == ASSUME Core, Next, Queue' PROVE Core'
<1>1. Logic!InputsOK'
  BY InputsStep DEF Logic!NewInputs, Logic!InputsOK
<1>2. frame_number_clr' \in BOOLEAN
  BY CoreFacts
<1>3. data_frame_number_u' \in 0 .. NumberMod - 1
  <2>1. data_frame_number_u \in 0 .. NumberMod - 1
    BY CoreTypes
  <2>2. \/ data_frame_number_u' = 0
        \/ data_frame_number_u' = (data_frame_number_u + 1) % NumberMod
        \/ data_frame_number_u' = data_frame_number_u
    BY CoreFacts
  <2> QED BY <2>1, <2>2, ModAssumption
<1> QED BY <1>1, <1>2, <1>3, AlignedStep DEF Core, Logic!TypeOK

----------------------------------------------------------------------------
(* Seconds and frame numbers in the stream                                 *)

(* What one clock means to the reader of the headers: a reset, the end of  *)
(* a frame, its first or its second word, or none of these.                *)
ResetCut == rst /\ cur' = None /\ prev' = None /\ word_cnt' = 0

Ends == /\ ~rst /\ Logic!frame_end /\ word_cnt >= 2
        /\ cur' = None /\ prev' = cur /\ word_cnt' = 0

FirstWord == /\ ~rst /\ ~Logic!frame_end /\ word_cnt = 0 /\ word_cnt' = 1
             /\ cur' = [sec |-> cnt, num |-> -1] /\ prev' = prev

SecondWord == /\ ~rst /\ ~Logic!frame_end /\ word_cnt = 1 /\ word_cnt' = 2
              /\ cur' = [cur EXCEPT !.num = data_frame_number_u] /\ prev' = prev

Elsewhere == /\ ~rst /\ ~Logic!frame_end
             /\ \/ word_cnt' = word_cnt
                \/ word_cnt >= 2 /\ word_cnt' = word_cnt + 1
             /\ cur' = cur /\ prev' = prev

LEMMA Outcomes ==
  ASSUME Core, Next
  PROVE  ResetCut \/ Ends \/ FirstWord \/ SecondWord \/ Elsewhere
<1>1. /\ word_cnt' = IF rst \/ Logic!frame_end THEN 0
                     ELSE IF Logic!transfer THEN word_cnt + 1 ELSE word_cnt
      /\ Logic!frame_end <=> Logic!transfer /\ word_cnt = Logic!frame_length_words - 1
  BY CoreFacts
<1>2. word_cnt \in Nat
  BY CoreTypes, Lengths
<1>3. /\ Accepted("header", 0) <=> Logic!transfer /\ word_cnt = 0
      /\ Accepted("header", 1) <=> Logic!transfer /\ word_cnt = 1
  BY <1>2, Word DEF Accepted
<1>4. /\ Logic!transfer /\ word_cnt = 0 => Logic!M_AXIS_TDATA.value = cnt
      /\ Logic!transfer /\ word_cnt = 1 =>
           Logic!M_AXIS_TDATA.value = data_frame_number_u
  BY Word DEF Logic!HeaderWord
<1>5. /\ cur' = IF rst \/ Logic!frame_end THEN None
                ELSE IF Logic!transfer /\ word_cnt = 0 THEN [sec |-> cnt, num |-> -1]
                ELSE IF Logic!transfer /\ word_cnt = 1
                  THEN [cur EXCEPT !.num = data_frame_number_u]
                ELSE cur
      /\ prev' = IF rst THEN None ELSE IF Logic!frame_end THEN cur ELSE prev
  BY <1>3, <1>4 DEF Next, Watch
<1>6. CASE rst
  BY <1>1, <1>5, <1>6 DEF ResetCut
<1>7. CASE ~rst /\ Logic!frame_end
  BY <1>1, <1>5, <1>7, Lengths DEF Ends
<1>8. CASE ~rst /\ ~Logic!frame_end /\ Logic!transfer /\ word_cnt = 0
  BY <1>1, <1>5, <1>8 DEF FirstWord
<1>9. CASE ~rst /\ ~Logic!frame_end /\ Logic!transfer /\ word_cnt = 1
  BY <1>1, <1>5, <1>9 DEF SecondWord
<1>10. CASE ~rst /\ ~Logic!frame_end /\ Logic!transfer /\ word_cnt >= 2
  BY <1>1, <1>2, <1>5, <1>10 DEF Elsewhere
<1>11. CASE ~rst /\ ~Logic!frame_end /\ ~Logic!transfer
  BY <1>1, <1>5, <1>11 DEF Elsewhere
<1>12. word_cnt = 0 \/ word_cnt = 1 \/ word_cnt >= 2
  BY <1>2
<1> QED BY <1>6, <1>7, <1>8, <1>9, <1>10, <1>11, <1>12

(* None is no header, and both its fields are absent.                      *)
LEMMA NoHeader ==
  /\ None.sec = -1 /\ None.num = -1 /\ None \notin Headers
  /\ \A h \in Headers : /\ h.sec \in 0 .. SecondMod - 1 /\ h.sec # -1
                        /\ h.num \in 0 .. NumberMod - 1 /\ h.num # -1
<1>1. None.sec = -1 /\ None.num = -1
  BY DEF None
<1>2. \A h \in Headers : /\ h.sec \in 0 .. SecondMod - 1 /\ h.sec # -1
                        /\ h.num \in 0 .. NumberMod - 1 /\ h.num # -1
  BY ModAssumption DEF Headers
<1> QED BY <1>1, <1>2

LEMMA ReadStep == ASSUME IInv, Next PROVE Read'
<1> DEFINE Fields == [sec : {-1} \cup (0 .. SecondMod - 1),
                      num : {-1} \cup (0 .. NumberMod - 1)]
<1>1. /\ prev \in Headers \cup {None} /\ cur \in Fields
      /\ cur.sec # -1 <=> word_cnt >= 1
      /\ cur.num # -1 <=> word_cnt >= 2
  BY DEF IInv, Read
<1>2. /\ word_cnt \in Nat /\ cnt \in 0 .. SecondMod - 1
      /\ data_frame_number_u \in 0 .. NumberMod - 1
  BY CoreTypes, Lengths DEF IInv
<1>3. None \in Fields
  BY DEF None
<1>4. -1 \notin 0 .. SecondMod - 1 /\ -1 \notin 0 .. NumberMod - 1
  BY ModAssumption
<1>5. CASE ResetCut
  BY <1>3, <1>5, NoHeader DEF ResetCut, Read
<1>6. CASE Ends
  <2>1. cur \in Headers
    <3>1. cur.sec # -1 /\ cur.num # -1
      BY <1>1, <1>2, <1>6 DEF Ends
    <3> QED BY <1>1, <3>1 DEF Headers
  <2> QED BY <1>3, <1>6, <2>1, NoHeader DEF Ends, Read
<1>7. CASE FirstWord
  <2>1. /\ cur' = [sec |-> cnt, num |-> -1] /\ word_cnt' = 1 /\ prev' = prev
    BY <1>7 DEF FirstWord
  <2>2. cur' \in Fields /\ cur'.sec # -1 /\ cur'.num = -1
    BY <1>2, <1>4, <2>1
  <2> QED BY <1>1, <2>1, <2>2 DEF Read
<1>8. CASE SecondWord
  <2>1. /\ cur' = [cur EXCEPT !.num = data_frame_number_u]
        /\ word_cnt = 1 /\ word_cnt' = 2 /\ prev' = prev
    BY <1>8 DEF SecondWord
  <2>2. cur' \in Fields /\ cur'.sec = cur.sec /\ cur'.num = data_frame_number_u
    BY <1>1, <1>2, <2>1
  <2> QED BY <1>1, <1>2, <1>4, <2>1, <2>2 DEF Read
<1>9. CASE Elsewhere
  <2>1. /\ word_cnt' >= 1 <=> word_cnt >= 1
        /\ word_cnt' >= 2 <=> word_cnt >= 2
    BY <1>2, <1>9 DEF Elsewhere
  <2> QED BY <1>1, <1>9, <2>1 DEF Elsewhere, Read
<1> QED BY <1>5, <1>6, <1>7, <1>8, <1>9, Outcomes DEF IInv

LEMMA NumberedStep == ASSUME IInv, Next PROVE Numbered'
<1>1. /\ frame_number_clr' = /\ ~rst
                             /\ \/ Seconds!onepps_RE
                                \/ frame_number_clr /\ ~Logic!frame_end
      /\ data_frame_number_u' =
           IF rst \/ frame_number_clr THEN 0
           ELSE IF Logic!frame_end THEN (data_frame_number_u + 1) % NumberMod
           ELSE data_frame_number_u
  BY CoreFacts DEF IInv
<1>2. /\ prev # None /\ cur.num = -1 =>
           data_frame_number_u \in {0, (prev.num + 1) % NumberMod}
      /\ cur.num # -1 => frame_number_clr \/ data_frame_number_u = cur.num
      /\ prev # None /\ cur.num # -1 => cur.num \in {0, (prev.num + 1) % NumberMod}
  BY DEF IInv, Numbered
<1>3. /\ word_cnt \in Nat /\ cur.num # -1 <=> word_cnt >= 2
  BY CoreTypes, Lengths DEF IInv, Read
<1>4. CASE ResetCut
  BY <1>4, NoHeader DEF ResetCut, Numbered
<1>5. CASE Ends
  <2>1. data_frame_number_u' \in {0, (cur.num + 1) % NumberMod}
    BY <1>1, <1>2, <1>3, <1>5 DEF Ends
  <2>2. cur'.num = -1 /\ prev' = cur
    BY <1>5, NoHeader DEF Ends
  <2> QED BY <2>1, <2>2 DEF Numbered
<1>6. CASE FirstWord
  <2>1. cur'.num = -1 /\ prev' = prev /\ cur.num = -1
    BY <1>3, <1>6 DEF FirstWord
  <2>2. data_frame_number_u' \in {0, data_frame_number_u}
    BY <1>1, <1>6 DEF FirstWord
  <2> QED BY <1>2, <2>1, <2>2 DEF Numbered
<1>7. CASE SecondWord
  <2>1. cur'.num = data_frame_number_u /\ prev' = prev /\ cur.num = -1
    BY <1>3, <1>7 DEF SecondWord, IInv, Read
  <2>2. frame_number_clr' \/ data_frame_number_u' = data_frame_number_u
    BY <1>1, <1>7 DEF SecondWord
  <2>3. cur'.num # -1
    BY <2>1, CoreTypes, ModAssumption DEF IInv
  <2> QED BY <1>2, <2>1, <2>2, <2>3 DEF Numbered
<1>8. CASE Elsewhere
  <2>1. cur' = cur /\ prev' = prev
    BY <1>8 DEF Elsewhere
  <2>2. data_frame_number_u' = IF frame_number_clr THEN 0 ELSE data_frame_number_u
    BY <1>1, <1>8 DEF Elsewhere
  <2>3. frame_number_clr => frame_number_clr'
    BY <1>1, <1>8 DEF Elsewhere
  <2> QED BY <1>2, <2>1, <2>2, <2>3 DEF Numbered
<1> QED BY <1>4, <1>5, <1>6, <1>7, <1>8, Outcomes DEF IInv

LEMMA RestartedStep == ASSUME IInv, Next PROVE Restarted'
<1>1. /\ frame_number_clr' = /\ ~rst
                             /\ \/ Seconds!onepps_RE
                                \/ frame_number_clr /\ ~Logic!frame_end
      /\ data_frame_number_u' =
           IF rst \/ frame_number_clr THEN 0
           ELSE IF Logic!frame_end THEN (data_frame_number_u + 1) % NumberMod
           ELSE data_frame_number_u
  BY CoreFacts DEF IInv
<1>2. ~rst /\ cnt' # cnt => frame_number_clr'
  BY <1>1, CoreFacts DEF IInv
<1>3. /\ prev # None /\ cur.sec = -1 /\ cnt # prev.sec =>
           frame_number_clr \/ data_frame_number_u = 0
      /\ prev # None /\ cur.sec # -1 /\ cur.num = -1 /\ cur.sec # prev.sec =>
           data_frame_number_u = 0
      /\ cur.sec # -1 /\ cnt # cur.sec => frame_number_clr
      /\ prev # None /\ cur.num # -1 /\ cur.sec # prev.sec => cur.num = 0
  BY DEF IInv, Restarted
<1>4. /\ word_cnt \in Nat
      /\ cur.sec # -1 <=> word_cnt >= 1
      /\ cur.num # -1 <=> word_cnt >= 2
  BY CoreTypes, Lengths DEF IInv, Read
<1>5. CASE ResetCut
  BY <1>5, NoHeader DEF ResetCut, Restarted
<1>6. CASE Ends
  <2>1. cnt' # cur.sec => frame_number_clr' \/ data_frame_number_u' = 0
    BY <1>1, <1>2, <1>3, <1>4, <1>6 DEF Ends
  <2>2. cur'.sec = -1 /\ cur'.num = -1 /\ prev' = cur
    BY <1>6, NoHeader DEF Ends
  <2> QED BY <2>1, <2>2 DEF Restarted
<1>7. CASE FirstWord
  <2>1. cur'.sec = cnt /\ cur'.num = -1 /\ prev' = prev
    BY <1>7 DEF FirstWord
  <2>2. cnt # -1
    BY CoreTypes, ModAssumption DEF IInv
  <2>3. cur.sec = -1 /\ ~rst
    BY <1>4, <1>7 DEF FirstWord
  <2>4. prev # None /\ cnt # prev.sec => data_frame_number_u' = 0
    BY <1>1, <1>3, <1>7, <2>3 DEF FirstWord
  <2>5. cnt' # cnt => frame_number_clr'
    BY <1>2, <2>3
  <2> QED BY <2>1, <2>2, <2>4, <2>5 DEF Restarted
<1>8. CASE SecondWord
  <2>1. cur'.sec = cur.sec /\ cur'.num = data_frame_number_u /\ prev' = prev
    BY <1>8 DEF SecondWord, IInv, Read
  <2>2. cur.sec # -1 /\ cur.num = -1
    BY <1>4, <1>8 DEF SecondWord
  <2>3. cur'.num # -1
    BY <2>1, CoreTypes, ModAssumption DEF IInv
  <2>4. cnt' # cur.sec => frame_number_clr'
    BY <1>1, <1>2, <1>3, <1>8, <2>2 DEF SecondWord
  <2> QED BY <1>3, <2>1, <2>2, <2>3, <2>4 DEF Restarted
<1>9. CASE Elsewhere
  <2>1. cur' = cur /\ prev' = prev /\ ~rst /\ ~Logic!frame_end
    BY <1>9 DEF Elsewhere
  <2>2. frame_number_clr => frame_number_clr'
    BY <1>1, <2>1
  <2>3. data_frame_number_u = 0 => data_frame_number_u' = 0
    BY <1>1, <2>1
  <2>4. cnt' = cnt \/ frame_number_clr'
    BY <1>2, <2>1
  <2> QED BY <1>3, <2>1, <2>2, <2>3, <2>4 DEF Restarted
<1> QED BY <1>5, <1>6, <1>7, <1>8, <1>9, Outcomes DEF IInv

----------------------------------------------------------------------------
(* The inductive invariant and what follows from it                        *)

LEMMA InitIInv == Init => IInv
<1> SUFFICES ASSUME Init PROVE IInv
  OBVIOUS
<1>1. cur = None /\ prev = None /\ word_cnt = 0
  BY DEF Init
<1>2. Read
  BY <1>1, NoHeader DEF Read, None
<1>3. Numbered /\ Restarted
  BY <1>1, NoHeader DEF Numbered, Restarted
<1> QED BY <1>2, <1>3, InitCore, InitQueue DEF IInv

(* The state functions read the variables only.                            *)
LEMMA Stutter == IInv /\ UNCHANGED vars => IInv'
<1> SUFFICES ASSUME IInv, UNCHANGED vars PROVE IInv'
  OBVIOUS
<1> USE DEF vars, syncVars, logicVars
<1>1. Core'
  BY DEF IInv, Core, Logic!TypeOK, Logic!InputsOK, Logic!Aligned,
         FIFO_M_tvalid, Seconds!onepps_RE
<1>2. Queue'
  BY DEF IInv, Queue
<1>3. Read' /\ Numbered' /\ Restarted'
  BY DEF IInv, Read, Numbered, Restarted
<1> QED BY <1>1, <1>2, <1>3 DEF IInv

LEMMA NextIInv == IInv /\ Next => IInv'
<1> SUFFICES ASSUME IInv, Next PROVE IInv'
  OBVIOUS
<1>1. Queue'
  BY QueueStep DEF IInv
<1>2. Core'
  BY <1>1, CoreStep DEF IInv
<1> QED BY <1>1, <1>2, ReadStep, NumberedStep, RestartedStep DEF IInv

THEOREM Invariance == Spec => []IInv
<1>1. IInv /\ [Next]_vars => IInv'
  BY Stutter, NextIInv
<1> QED BY InitIInv, <1>1, PTL DEF Spec

(* A previous frame whose number is known has a whole header.              *)
LEMMA BothHeaders == IInv /\ TwoHeaders => prev # None /\ cur.num # -1
BY NoHeader DEF TwoHeaders

(* Wherever the PPS falls in a frame, the first frame whose header carries *)
(* the new second carries number zero: the second is counted by the Sync   *)
(* core and the number cleared by vdif_logic.vhd, which see the same edge. *)
THEOREM SecondsStartAtZero == Spec => []NewSecondStartsAtZero
<1>1. IInv => NewSecondStartsAtZero
  BY BothHeaders DEF IInv, Restarted, NewSecondStartsAtZero
<1> QED BY <1>1, Invariance, PTL

(* The numbers of two consecutive frames follow each other or the second   *)
(* of them is zero, whenever the clear of the number falls (FrameCounter   *)
(* and FrameNumberClr of vdif_logic.vhd).                                  *)
THEOREM NumbersFollow == Spec => []NumbersNeverSkip
<1>1. IInv => NumbersNeverSkip
  BY BothHeaders DEF IInv, Numbered, NumbersNeverSkip
<1> QED BY <1>1, Invariance, PTL

(* The word at the head of the FIFO follows the payload word the sink took *)
(* last: S_AXI.vhd's read enable pops a word exactly where the sink takes  *)
(* it, so that none is lost behind a header and none is sent twice.        *)
THEOREM PayloadFollows == Spec => []PayloadContinuous
<1>1. IInv => PayloadContinuous
  BY DEF IInv, Queue, PayloadContinuous, FIFO_M_tvalid, Following
<1> QED BY <1>1, Invariance, PTL

(* The word a stalling sink is offered at the next edge.                   *)
LiveWord == \/ word_cnt = 0 /\ Seconds!onepps_RE
            \/ word_cnt = 1 /\ frame_number_clr

LEMMA Offered ==
  ASSUME IInv, Next, Logic!M_AXIS_TVALID, ~M_AXIS_TREADY, ~rst, ~rst'
  PROVE  /\ Logic!M_AXIS_TVALID'
         /\ Logic!M_AXIS_TDATA' = Logic!M_AXIS_TDATA \/ LiveWord
<1>1. ~Logic!transfer /\ ~Logic!frame_end
  BY DEF Logic!transfer, Logic!frame_end
<1>2. Core /\ Core'
  BY NextIInv DEF IInv
<1>3. word_cnt' = word_cnt /\ word_cnt \in Nat
  BY <1>1, <1>2, CoreFacts, CoreTypes, Lengths
<1>4. CASE state = "transmit_payload"
  <2>1. state' = "transmit_payload"
    BY <1>1, <1>4, StateStep DEF IInv
  <2>2. fifo # <<>> /\ fifo \in Seq(Tags) /\ nextTag \in Tags
    BY <1>4 DEF IInv, Queue, Logic!M_AXIS_TVALID, FIFO_M_tvalid
  <2>3. fifo' = Append(fifo, nextTag) \/ fifo' = fifo
    <3>1. AfterRead = fifo
      BY DEF AfterRead, FIFO_rd_en, Logic!S_AXIS_TREADY
    <3> QED BY <1>2, <3>1, QueueFacts
  <2>4. fifo' # <<>> /\ Head(fifo') = Head(fifo)
    BY <2>2, <2>3
  <2>5. Logic!M_AXIS_TVALID'
    BY <2>1, <2>4 DEF Logic!M_AXIS_TVALID, FIFO_M_tvalid
  <2>6. Logic!M_AXIS_TDATA =
          [kind |-> "payload", index |-> word_cnt, value |-> Head(fifo)]
    BY <1>4, <2>2 DEF Logic!M_AXIS_TDATA, FIFO_M_tvalid
  <2>7. Logic!M_AXIS_TDATA' =
          [kind |-> "payload", index |-> word_cnt', value |-> Head(fifo')]
    BY <2>1, <2>4 DEF Logic!M_AXIS_TDATA, FIFO_M_tvalid
  <2> QED BY <1>3, <2>4, <2>5, <2>6, <2>7
<1>5. CASE state # "transmit_payload"
  <2>1. state' = "transmit_header"
    BY <1>1, <1>2, <1>5, StateStep, CoreTypes
  <2>2. Logic!M_AXIS_TVALID'
    BY <2>1 DEF Logic!M_AXIS_TVALID
  <2>3. word_cnt < 8 /\ (state = "idle_state" => word_cnt = 0)
    BY <1>2, <1>3, <1>5, CoreTypes DEF Core, Logic!Aligned
  <2>4. Logic!M_AXIS_TDATA = Logic!HeaderWord(word_cnt)
    BY <1>2, <1>5, <2>3, CoreTypes, Lengths DEF Logic!M_AXIS_TDATA
  <2>5. Logic!M_AXIS_TDATA' = Logic!HeaderWord(word_cnt)'
    BY <1>3, <2>1, <2>3, Lengths DEF Logic!M_AXIS_TDATA, Logic!HeaderWords
  <2>6. Logic!HeaderWord(word_cnt)' = Logic!HeaderWord(word_cnt) \/ LiveWord
    <3>1. CASE word_cnt = 0
      BY <1>2, <1>3, <3>1, CoreFacts DEF Logic!HeaderWord, LiveWord
    <3>2. CASE word_cnt = 1
      BY <1>1, <1>2, <1>3, <3>2, CoreFacts DEF Logic!HeaderWord, LiveWord
    <3>3. CASE word_cnt # 0 /\ word_cnt # 1
      BY <1>3, <3>3 DEF Logic!HeaderWord
    <3> QED BY <3>1, <3>2, <3>3
  <2> QED BY <2>2, <2>4, <2>5, <2>6
<1> QED BY <1>4, <1>5

(* What vdif_logic.vhd offers stands, word and data, until the sink takes  *)
(* it: the FSM leaves a state with the last word taken only, only the      *)
(* core's own read moves the FIFO, and of the header only word 0, when a   *)
(* second begins, and word 1, when the number is cleared, can change.      *)
THEOREM OffersStand == Spec => OfferStands
<1>1. IInv /\ [Next]_vars =>
        [Logic!M_AXIS_TVALID /\ ~M_AXIS_TREADY /\ ~rst /\ ~rst' =>
           /\ Logic!M_AXIS_TVALID'
           /\ \/ Logic!M_AXIS_TDATA' = Logic!M_AXIS_TDATA
              \/ word_cnt = 0 /\ Seconds!onepps_RE
              \/ word_cnt = 1 /\ frame_number_clr]_vars
  BY Offered DEF LiveWord
<1> QED BY <1>1, Invariance, PTL DEF Spec, OfferStands

(* The core in its surroundings is the core with any inputs: the FIFO, the *)
(* counter of seconds and the PPS drive its ports within their ranges, so  *)
(* that what Framer_proof shows holds in the block design.                 *)
THEOREM CoreIsVdifLogic == Spec => Logic!Spec
<1>1. Init => Logic!Init
  <2> SUFFICES ASSUME Init PROVE Logic!Init
    OBVIOUS
  <2>1. Logic!InputsOK
    BY InitCore DEF Core, Logic!TypeOK
  <2> QED BY <2>1 DEF Init, Logic!Init
<1>2. IInv /\ Next => Logic!Next
  BY QueueStep, InputsStep DEF IInv, Next, Logic!Next
<1>3. UNCHANGED vars => UNCHANGED Logic!vars
  BY DEF vars, syncVars, logicVars, Logic!vars, Logic!inputs, Logic!registers,
         FIFO_M_tvalid, Seconds!onepps_RE
<1>4. IInv /\ [Next]_vars => [Logic!Next]_Logic!vars
  BY <1>2, <1>3
<1> QED BY <1>1, <1>4, Invariance, PTL DEF Spec, Logic!Spec

=============================================================================
