-------------------------- MODULE Observation_proof --------------------------
(***************************************************************************)
(* For frames of any length, any number of words that the idle DMA accepts *)
(* and observations of any number of frames: the loop sends the next whole *)
(* frame each time, clears no interrupt that it has not seen and asks no   *)
(* running DMA for a transfer.  What the MAC then sends is what the        *)
(* recording host was promised.                                            *)
(***************************************************************************)
EXTENDS Observation, SequenceTheorems, TLAPS

----------------------------------------------------------------------------
(* The stream of words                                                     *)

Words == [run : Nat, frame : Nat, index : 0 .. FrameWords - 1]

Successor(w) == IF w.index = FrameWords - 1 THEN Word(w.run, w.frame + 1, 0)
                ELSE Word(w.run, w.frame, w.index + 1)

(* The words of q and the word after them follow each other from `first`.  *)
Chained(q, next, first) ==
  /\ Append(q, next)[1] = first
  /\ \A j \in 1 .. Len(q) : Append(q, next)[j + 1] = Successor(Append(q, next)[j])

(* What the DMA holds and the formatter delivers next starts with `first`. *)
Stream(first) == Chained(skid, Word(run, frame, pos), first)

----------------------------------------------------------------------------
(* The inductive invariant                                                 *)

Data == /\ skid \in Seq(Words)
        /\ mem \in [Buffers -> [0 .. FrameWords - 1 -> Words]]
        /\ dma = "running" => fill < FrameWords

(* The frame that is received, or was received last, and its buffer.       *)
Due == IF pc = "count" THEN packet_count + 1 ELSE packet_count
Target == IF pc = "count" THEN OtherBuffer ELSE CurrentBuffer

Quiet == irq = {} /\ ~g_s2mm_done /\ ~g_dma_err

(* The first transfer of an observation was lost in the DMA's reset.       *)
NeverStarted == dma # "running" /\ Quiet

Receiving == /\ dma = "running" /\ dst = Target /\ Quiet
             /\ \A i \in 0 .. fill - 1 : mem[Target][i] = Word(run, Due, i)
             /\ Stream(Word(run, Due, fill))

Received == /\ dma = "idle" /\ ~g_dma_err
            /\ mem[Target] = WholeFrame(run, Due)
            /\ Stream(Word(run, Due + 1, 0))

Reported == \/ irq = {"IOC"} /\ ~g_s2mm_done
            \/ irq = {} /\ g_s2mm_done

Failed == /\ dma # "running" /\ ~g_s2mm_done
          /\ irq = {"ERROR"} \/ (irq = {} /\ g_dma_err)

UnderWay == NeverStarted \/ Receiving \/ (Received /\ Reported) \/ Failed

(* What holds while the main loop stands at each statement group.          *)
Waits == pc \in {"poll", "branch"} =>
           IF start_obs_flag THEN UnderWay ELSE rst

Types == pc = "console" => ~start_obs_flag /\ rst

Resets == pc \in {"dma_reset", "release", "clear_0", "first_rcv"} =>
            /\ start_obs_flag /\ packet_count = 0 /\ buffer_number = 0
            /\ pc \in {"dma_reset", "release"} => rst
            /\ pc # "dma_reset" => dma # "running" /\ irq = {}
            /\ pc = "release" => skid = <<>>
            /\ pc \in {"clear_0", "first_rcv"} => Stream(Word(run, 0, 0))
            /\ pc = "first_rcv" => Quiet

Sends == pc \in {"clear", "send", "arm"} =>
           /\ start_obs_flag /\ irq = {} /\ Received
           /\ pc # "clear" => ~g_s2mm_done

Counts == pc = "count" => start_obs_flag /\ UnderWay

Control == Waits /\ Types /\ Resets /\ Sends /\ Counts

IInv == TypeOK /\ Data /\ Control

----------------------------------------------------------------------------
(* Lemmas about the stream                                                 *)

(* The assumptions in the form the proofs use.                             *)
LEMMA Sizes == /\ FrameWords \in Nat /\ FrameWords > 0
               /\ SkidWords \in Nat /\ SkidWords > 0
               /\ FramesPerSecond \in Nat /\ FramesPerSecond > 0
               /\ Seconds \subseteq Nat /\ MaxRuns \in Nat
BY ObservationAssumption

(* Words are words.                                                        *)
LEMMA WordType ==
  ASSUME NEW r \in Nat, NEW f \in Nat, NEW i \in 0 .. FrameWords - 1
  PROVE  /\ Word(r, f, i) \in Words
         /\ Word(r, f, i).run = r /\ Word(r, f, i).frame = f /\ Word(r, f, i).index = i
BY DEF Word, Words

(* The word after a word is a word.                                        *)
LEMMA SuccessorType == ASSUME NEW w \in Words PROVE Successor(w) \in Words
BY Sizes DEF Words, Successor, Word

(* The formatter delivers one more word.                                   *)
LEMMA ChainAppend ==
  ASSUME NEW q \in Seq(Words), NEW w \in Words, NEW first, Chained(q, w, first)
  PROVE  Chained(Append(q, w), Successor(w), first)
<1> DEFINE p == Append(q, w)
           s == Append(p, Successor(w))
<1>1. p \in Seq(Words) /\ Len(p) = Len(q) + 1 /\ Successor(w) \in Words
  BY SuccessorType
<1>2. \A j \in 1 .. Len(p) : s[j] = p[j]  BY <1>1
<1>3. s[Len(p) + 1] = Successor(w) /\ p[Len(p)] = w  BY <1>1
<1>4. Len(q) \in Nat  OBVIOUS
<1>5. s[1] = first  BY <1>1, <1>2, <1>4 DEF Chained
<1>6. ASSUME NEW j \in 1 .. Len(p) PROVE s[j + 1] = Successor(s[j])
  <2>1. CASE j = Len(p)  BY <1>2, <1>3, <2>1
  <2>2. CASE j # Len(p)
    <3>1. j \in 1 .. Len(q) /\ j + 1 \in 1 .. Len(p)  BY <1>1, <1>4, <2>2
    <3> QED  BY <1>2, <3>1 DEF Chained
  <2> QED  BY <2>1, <2>2
<1> QED  BY <1>5, <1>6 DEF Chained

(* The DMA moves one word to memory.                                       *)
LEMMA ChainTail ==
  ASSUME NEW q \in Seq(Words), NEW w \in Words, NEW first, Chained(q, w, first), q # <<>>
  PROVE  Head(q) = first /\ Chained(Tail(q), w, Successor(first))
<1> DEFINE p == Append(q, w)
           s == Append(Tail(q), w)
<1>1. /\ Len(q) \in Nat /\ Len(q) >= 1 /\ Head(q) = q[1]
      /\ Tail(q) \in Seq(Words) /\ Len(Tail(q)) = Len(q) - 1
      /\ \A j \in 1 .. Len(q) - 1 : Tail(q)[j] = q[j + 1]
  OBVIOUS
<1>2. \A j \in 1 .. Len(q) : s[j] = p[j + 1]
  <2> TAKE j \in 1 .. Len(q)
  <2>1. CASE j = Len(q)  BY <1>1, <2>1
  <2>2. CASE j # Len(q)
    <3> DEFINE n == Len(q)
    <3>1. j \in 1 .. n - 1 /\ j + 1 \in 1 .. n
      <4>1. n \in Nat /\ j \in 1 .. n /\ j # n  BY <2>2
      <4> HIDE DEF n
      <4> QED  BY <4>1
    <3>2. s[j] = Tail(q)[j]  BY <1>1, <3>1
    <3>3. p[j + 1] = q[j + 1]  BY <1>1, <3>1
    <3> QED  BY <1>1, <3>1, <3>2, <3>3
  <2> QED  BY <2>1, <2>2
<1>3. p[1] = first /\ p[1] = q[1]  BY <1>1 DEF Chained
<1>4. s[1] = Successor(first)
  <2>1. 1 \in 1 .. Len(q)  BY <1>1
  <2>2. s[1] = p[1 + 1]  BY <1>2, <2>1
  <2>3. p[1 + 1] = Successor(p[1])  BY <2>1, Zenon DEF Chained
  <2> QED  BY <1>3, <2>2, <2>3
<1>5. ASSUME NEW j \in 1 .. Len(Tail(q)) PROVE s[j + 1] = Successor(s[j])
  <2>1. j \in 1 .. Len(q) /\ j + 1 \in 1 .. Len(q)  BY <1>1
  <2>2. s[j] = p[j + 1] /\ s[j + 1] = p[j + 1 + 1]  BY <1>2, <2>1
  <2> QED  BY <2>1, <2>2 DEF Chained
<1> QED  BY <1>1, <1>3, <1>4, <1>5 DEF Chained

(* With nothing delivered the formatter's next word is the first.          *)
LEMMA ChainEmpty == ASSUME NEW w PROVE Chained(<<>>, w, w)
BY DEF Chained

----------------------------------------------------------------------------
(* The hardware and the interrupt                                          *)

(* The parts of the types that the stream needs.                           *)
LEMMA StreamTypes ==
  ASSUME IInv
  PROVE  /\ skid \in Seq(Words) /\ Word(run, frame, pos) \in Words
         /\ run \in Nat /\ frame \in Nat /\ pos \in 0 .. FrameWords - 1
         /\ packet_count \in Nat /\ Due \in Nat
         /\ CurrentBuffer \in Buffers /\ OtherBuffer \in Buffers /\ Target \in Buffers
<1>1. /\ run \in Nat /\ frame \in Nat /\ pos \in 0 .. FrameWords - 1
      /\ packet_count \in Nat /\ Due \in Nat
  BY Sizes DEF IInv, TypeOK, Due
<1> QED
  BY <1>1, WordType DEF IInv, Data, Target, CurrentBuffer, OtherBuffer, Buffers

(* Where the main loop stands, and what it expects.                        *)
LEMMA SameFrame ==
  ASSUME UNCHANGED <<pc, buffer_number, packet_count>>
  PROVE  Due' = Due /\ Target' = Target
BY DEF Due, Target, CurrentBuffer, OtherBuffer

LEMMA DeliverKeeps == ASSUME IInv, Deliver PROVE IInv'
<1> DEFINE word == Word(run, frame, pos)
<1>1. /\ ~rst /\ dma # "resetting" /\ Len(skid) < SkidWords
      /\ skid' = Append(skid, word)
      /\ UNCHANGED <<software, timeVars, rst, dma, dst, fill, irq, irq_en, mem, txVars>>
  BY DEF Deliver
<1>2. /\ pos' = IF pos = FrameWords - 1 THEN 0 ELSE pos + 1
      /\ frame' = IF pos = FrameWords - 1 THEN frame + 1 ELSE frame
  <2>1. pos' = (pos + 1) % FrameWords  BY DEF Deliver
  <2>2. \A a, m \in Nat : a < m => a % m = a  BY Z3
  <2>3. \A m \in Nat : m > 0 => m % m = 0  BY Z3
  <2>4. CASE pos = FrameWords - 1
    <3>1. pos + 1 = FrameWords  BY <2>4, Sizes
    <3> QED  BY <2>1, <2>3, <2>4, <3>1, Sizes DEF Deliver
  <2>5. CASE pos # FrameWords - 1
    <3>1. pos + 1 \in Nat /\ pos + 1 < FrameWords  BY <2>5, StreamTypes, Sizes
    <3> QED  BY <2>1, <2>2, <2>5, <3>1, Sizes DEF Deliver
  <2> QED  BY <2>4, <2>5
<1>3. Word(run', frame', pos') = Successor(word)
  <2>1. word.run = run /\ word.frame = frame /\ word.index = pos  BY DEF Word
  <2> QED  BY <1>1, <1>2, <2>1 DEF Successor, software, historyVars
<1>4. ASSUME NEW first, Chained(skid, word, first)
      PROVE  Chained(skid', Word(run', frame', pos'), first)
  BY <1>1, <1>3, <1>4, ChainAppend, StreamTypes
<1>5. TypeOK'
  <2>1. pos' \in 0 .. FrameWords - 1 /\ frame' \in Nat
    BY <1>2, StreamTypes, Sizes
  <2>2. Len(skid') <= SkidWords  BY <1>1, StreamTypes, Sizes
  <2> QED
    BY <1>1, <2>1, <2>2 DEF IInv, TypeOK, software, timeVars, txVars, consoleVars, loopVars,
                            flagVars, historyVars
<1>6. Data'
  <2>1. skid' \in Seq(Words)  BY <1>1, StreamTypes
  <2> QED  BY <1>1, <2>1 DEF IInv, Data
<1>7. UNCHANGED <<pc, start_obs_flag, buffer_number, packet_count, run, g_s2mm_done,
                  g_dma_err>>
  BY <1>1 DEF software, loopVars, flagVars, historyVars
<1>8. Due' = Due /\ Target' = Target  BY <1>7, SameFrame
<1>9. Received => Received'
  BY <1>1, <1>4, <1>7, <1>8 DEF Received, Stream, WholeFrame
<1>10. UnderWay => UnderWay'
  <2>1. Receiving => Receiving'
    BY <1>1, <1>4, <1>7, <1>8 DEF Receiving, Stream, Quiet
  <2> QED
    BY <1>1, <1>7, <1>9, <2>1 DEF UnderWay, NeverStarted, Quiet, Reported, Failed
<1>11. Control'
  <2>1. Waits' /\ Counts'  BY <1>1, <1>7, <1>10 DEF IInv, Control, Waits, Counts
  <2>2. Types' /\ Sends'  BY <1>1, <1>7, <1>9 DEF IInv, Control, Types, Sends
  <2>3. Resets'
    BY <1>1, <1>4, <1>7 DEF IInv, Control, Resets, Stream, Quiet
  <2> QED  BY <2>1, <2>2, <2>3 DEF Control
<1> QED  BY <1>5, <1>6, <1>11 DEF IInv

(* A word that the DMA writes goes to the position that the stream gives   *)
(* it, and TLAST is the last of the buffer.                                *)
LEMMA MoveKeeps == ASSUME IInv, Move PROVE IInv'
<1>1. /\ dma = "running" /\ skid # <<>>
      /\ mem' = [mem EXCEPT ![dst][fill] = Head(skid)]
      /\ fill' = fill + 1 /\ skid' = Tail(skid)
      /\ UNCHANGED <<software, timeVars, framerVars, dst, irq_en, txVars>>
  BY DEF Move
<1>2. UNCHANGED <<pc, start_obs_flag, buffer_number, packet_count, run, g_s2mm_done,
                  g_dma_err, rst, pos, frame>>
  BY <1>1 DEF software, loopVars, flagVars, historyVars, framerVars
<1>3. /\ fill \in Nat /\ fill < FrameWords /\ dst \in Buffers
      /\ mem \in [Buffers -> [0 .. FrameWords - 1 -> Words]]
      /\ irq \subseteq {"IOC", "ERROR"}
  BY <1>1, Sizes DEF IInv, Data, TypeOK
<1>4. /\ Head(skid) \in Words /\ skid' \in Seq(Words) /\ Len(skid') = Len(skid) - 1
      /\ Len(skid) \in Nat
  BY <1>1, StreamTypes
<1>5. dma' \in {"running", "idle"} /\ (dma' = "running" => fill' < FrameWords)
  BY <1>1 DEF Move
<1>6. mem' \in [Buffers -> [0 .. FrameWords - 1 -> Words]]
  BY <1>1, <1>3, <1>4, Sizes
<1>7. TypeOK'
  <2>1. irq' \subseteq {"IOC", "ERROR"}  BY <1>3 DEF Move
  <2>2. fill' \in 0 .. FrameWords  BY <1>1, <1>3, Sizes
  <2>3. Len(skid') <= SkidWords  BY <1>4, Sizes DEF IInv, TypeOK
  <2>4. DOMAIN mem' = Buffers  BY <1>6
  <2> QED
    BY <1>1, <1>5, <2>1, <2>2, <2>3, <2>4
    DEF IInv, TypeOK, software, timeVars, txVars, consoleVars, loopVars, flagVars,
        historyVars, framerVars
<1>8. Data'  BY <1>4, <1>5, <1>6 DEF Data
<1>9. Due' = Due /\ Target' = Target  BY <1>2, SameFrame
<1>10. UnderWay => UnderWay'
  <2> SUFFICES ASSUME UnderWay PROVE UnderWay'
    OBVIOUS
  <2>1. Receiving  BY <1>1 DEF UnderWay, NeverStarted, Received, Failed
  <2> DEFINE word == Word(run, Due, fill)
  <2>2. /\ word \in Words
        /\ word.run = run /\ word.frame = Due /\ word.index = fill
    <3>1. fill \in 0 .. FrameWords - 1
      BY <1>3, Sizes
    <3>2. run \in Nat /\ Due \in Nat
      BY StreamTypes
    <3> QED BY <3>1, <3>2, WordType
  <2>3. /\ Head(skid) = word
        /\ Chained(skid', Word(run, frame, pos), Successor(word))
    BY <1>1, <2>1, ChainTail, StreamTypes DEF Receiving, Stream
  <2>4. mem'[Target] = [mem[Target] EXCEPT ![fill] = word]
    BY <1>1, <1>3, <2>1, <2>3, StreamTypes DEF Receiving
  <2>5. ASSUME NEW i \in 0 .. fill PROVE mem'[Target][i] = Word(run, Due, i)
    <3>1. mem[Target] \in [0 .. FrameWords - 1 -> Words]
      BY <1>3, StreamTypes
    <3>2. i \in 0 .. FrameWords - 1 /\ (i = fill \/ i \in 0 .. fill - 1)
      BY <1>3, Sizes
    <3>3. CASE i = fill  BY <2>4, <3>1, <3>2, <3>3
    <3>4. CASE i # fill
      BY <2>1, <2>4, <3>1, <3>2, <3>4 DEF Receiving
    <3> QED  BY <3>3, <3>4
  <2>6. CASE fill = FrameWords - 1
    <3>1. dma' = "idle" /\ irq' = {"IOC"}
      BY <2>1, <2>2, <2>3, <2>6 DEF Move, Receiving, Quiet
    <3>2. mem'[Target] = WholeFrame(run, Due)
      <4>1. mem'[Target] \in [0 .. FrameWords - 1 -> Words]
        BY <1>6, StreamTypes
      <4> QED  BY <2>5, <2>6, <4>1 DEF WholeFrame
    <3>3. Successor(word) = Word(run, Due + 1, 0)
      BY <2>2, <2>6 DEF Successor
    <3>4. Received'
      BY <1>2, <1>9, <2>1, <2>3, <3>1, <3>2, <3>3
      DEF Received, Receiving, Quiet, Stream, WholeFrame
    <3>5. Reported'  BY <1>2, <2>1, <3>1 DEF Reported, Receiving, Quiet
    <3> QED  BY <3>4, <3>5 DEF UnderWay
  <2>7. CASE fill # FrameWords - 1
    <3>1. fill' < FrameWords  BY <1>1, <1>3, <2>7, Sizes
    <3>2. UNCHANGED <<dma, irq>>
      BY <1>3, <2>2, <2>3, <2>7, <3>1, Sizes DEF Move
    <3>3. Successor(word) = Word(run, Due, fill')
      BY <1>1, <2>2, <2>7 DEF Successor
    <3>4. \A i \in 0 .. fill' - 1 : mem'[Target][i] = Word(run, Due, i)
      BY <1>1, <1>3, <2>5
    <3>5. Receiving'
      BY <1>1, <1>2, <1>9, <2>1, <2>3, <3>2, <3>3, <3>4 DEF Receiving, Quiet, Stream
    <3> QED  BY <3>5 DEF UnderWay
  <2> QED  BY <2>6, <2>7
<1>11. Control'
  <2>1. Waits' /\ Counts'  BY <1>2, <1>10 DEF IInv, Control, Waits, Counts
  <2>2. Types' /\ Sends'  BY <1>1, <1>2 DEF IInv, Control, Types, Sends, Received
  <2>3. Resets'  BY <1>1, <1>2 DEF IInv, Control, Resets
  <2> QED  BY <2>1, <2>2, <2>3 DEF Control
<1> QED  BY <1>7, <1>8, <1>11 DEF IInv

(* An error leaves a failed transfer, and the loop stops at it.            *)
LEMMA FaultKeeps == ASSUME IInv, Fault PROVE IInv'
<1>1. /\ dma = "running" /\ dma' = "idle" /\ irq' = irq \cup {"ERROR"}
      /\ UNCHANGED <<software, timeVars, framerVars, dst, fill, skid, irq_en, mem, txVars>>
  BY DEF Fault
<1>2. UNCHANGED <<pc, start_obs_flag, buffer_number, packet_count, g_s2mm_done,
                  g_dma_err, rst>>
  BY <1>1 DEF software, loopVars, flagVars, framerVars
<1>3. TypeOK'
  BY <1>1 DEF IInv, TypeOK, software, timeVars, txVars, consoleVars, loopVars, flagVars,
              historyVars, framerVars
<1>4. Data'  BY <1>1 DEF IInv, Data
<1>5. UnderWay => UnderWay'
  BY <1>1, <1>2 DEF UnderWay, NeverStarted, Receiving, Received, Failed, Quiet
<1>6. Control'
  BY <1>1, <1>2, <1>5
  DEF IInv, Control, Waits, Counts, Types, Sends, Resets, Received
<1> QED  BY <1>3, <1>4, <1>6 DEF IInv

(* The DMA's reset ends; what the loop expects of it does not change.      *)
LEMMA ResetDoneKeeps == ASSUME IInv, ResetDone PROVE IInv'
<1>1. /\ dma = "resetting" /\ dma' = "idle"
      /\ UNCHANGED <<software, timeVars, framerVars, dst, fill, skid, irq, irq_en, mem, txVars>>
  BY DEF ResetDone
<1>2. UNCHANGED <<pc, start_obs_flag, buffer_number, packet_count, g_s2mm_done,
                  g_dma_err, rst, run, pos, frame>>
  BY <1>1 DEF software, loopVars, flagVars, framerVars, historyVars
<1>3. TypeOK'
  BY <1>1 DEF IInv, TypeOK, software, timeVars, txVars, consoleVars, loopVars, flagVars,
              historyVars, framerVars
<1>4. Data'  BY <1>1 DEF IInv, Data
<1>5. UnderWay => UnderWay'
  BY <1>1, <1>2 DEF UnderWay, NeverStarted, Receiving, Received, Failed, Quiet
<1>6. Control'
  BY <1>1, <1>2, <1>5
  DEF IInv, Control, Waits, Counts, Types, Sends, Resets, Received, Quiet, Stream
<1> QED  BY <1>3, <1>4, <1>6 DEF IInv

(* The MAC takes a datagram from the queue.                                *)
LEMMA TransmitKeeps == ASSUME IInv, Transmit PROVE IInv'
<1>1. /\ txq # <<>> /\ txq' = Tail(txq)
      /\ UNCHANGED <<software, timeVars, framerVars, dmaVars, mem>>
  BY DEF Transmit
<1>2. UNCHANGED <<pc, start_obs_flag, buffer_number, packet_count, g_s2mm_done, g_dma_err,
                  rst, run, pos, frame, dma, dst, fill, skid, irq, irq_en, mem>>
  BY <1>1 DEF software, loopVars, flagVars, framerVars, historyVars, dmaVars
<1>3. txq' \in Seq(Buffers)  BY <1>1 DEF IInv, TypeOK
<1>4. TypeOK'
  BY <1>1, <1>2, <1>3 DEF IInv, TypeOK, software, timeVars, consoleVars, loopVars, flagVars,
                          historyVars
<1>5. Data'  BY <1>2 DEF IInv, Data
<1>6. Due' = Due /\ Target' = Target  BY <1>2, SameFrame
<1>7. Received' <=> Received  BY <1>2, <1>6 DEF Received, Stream, WholeFrame
<1>8. UnderWay' <=> UnderWay
  BY <1>2, <1>6, <1>7 DEF UnderWay, NeverStarted, Receiving, Failed, Quiet, Stream, Reported
<1>9. Control'
  BY <1>2, <1>7, <1>8
  DEF IInv, Control, Waits, Counts, Types, Sends, Resets, Quiet, Stream
<1> QED  BY <1>4, <1>5, <1>9 DEF IInv

(* The interrupt turns a completion into its flag, or an error into the    *)
(* other; no statement that relies on their absence can be interrupted.    *)
LEMMA InterruptKeeps == ASSUME IInv, s2mm_isr PROVE IInv'
<1>1. /\ irq # {}
      /\ UNCHANGED <<pc, consoleVars, loopVars, timeVars, framerVars, mem, txVars, historyVars>>
  BY DEF s2mm_isr
<1>2. UNCHANGED <<pc, start_obs_flag, buffer_number, packet_count, rst, run, pos, frame, mem>>
  BY <1>1 DEF loopVars, framerVars, historyVars
<1>3. Due' = Due /\ Target' = Target  BY <1>2, SameFrame
<1>4. /\ pc \in {"poll", "branch", "count"} /\ start_obs_flag => UnderWay
      /\ pc \notin {"release", "clear_0", "first_rcv", "clear", "send", "arm"}
  BY <1>1 DEF IInv, Control, Waits, Counts, Resets, Sends
<1>5. CASE /\ "ERROR" \in irq /\ g_dma_err' = TRUE /\ UNCHANGED g_s2mm_done
           /\ \E after \in {"idle", "resetting"} : XAxiDma_Reset(after)
  <2>1. /\ dma' \in {"idle", "resetting"} /\ skid' = <<>> /\ irq' = {} /\ irq_en' = FALSE
        /\ UNCHANGED <<dst, fill>>
    BY <1>5 DEF XAxiDma_Reset
  <2>2. skid' \in Seq(Words) /\ Len(skid') = 0  BY <2>1
  <2>3. TypeOK'
    <3>1. Len(skid') <= SkidWords  BY <2>2, Sizes
    <3>2. g_dma_err' \in BOOLEAN /\ g_s2mm_done' \in BOOLEAN
      BY <1>5 DEF IInv, TypeOK
    <3>3. dma' \in {"idle", "running", "resetting"} /\ irq' \subseteq {"IOC", "ERROR"}
      BY <2>1
    <3> QED
      BY <1>1, <2>1, <3>1, <3>2, <3>3
      DEF IInv, TypeOK, timeVars, txVars, consoleVars, loopVars, historyVars, framerVars
  <2>4. Data'  BY <1>2, <2>1, <2>2 DEF IInv, Data
  <2>5. UnderWay => UnderWay'
    BY <1>5, <2>1
    DEF UnderWay, NeverStarted, Receiving, Received, Reported, Failed, Quiet
  <2>6. Control'
    BY <1>2, <1>4, <2>5 DEF IInv, Control, Waits, Counts, Types, Sends, Resets
  <2> QED  BY <2>3, <2>4, <2>6 DEF IInv
<1>6. CASE /\ "ERROR" \notin irq /\ g_s2mm_done' = TRUE /\ irq' = {}
           /\ UNCHANGED <<g_dma_err, dma, dst, fill, skid, irq_en>>
  <2>1. TypeOK'
    BY <1>1, <1>6
    DEF IInv, TypeOK, timeVars, txVars, consoleVars, loopVars, historyVars, framerVars
  <2>2. Data'  BY <1>2, <1>6 DEF IInv, Data
  <2>3. Received => Received'
    BY <1>2, <1>3, <1>6 DEF Received, Stream, WholeFrame
  <2>4. UnderWay => UnderWay'
    BY <1>1, <1>6, <2>3
    DEF UnderWay, NeverStarted, Receiving, Reported, Failed, Quiet
  <2>5. Control'
    BY <1>2, <1>4, <2>4 DEF IInv, Control, Waits, Counts, Types, Sends, Resets
  <2> QED  BY <2>1, <2>2, <2>5 DEF IInv
<1> QED  BY <1>5, <1>6 DEF s2mm_isr

----------------------------------------------------------------------------
(* The main loop and the console                                           *)

(* Between two statement groups with the hardware standing still.          *)
LEMMA Still ==
  ASSUME UNCHANGED <<framerVars, dmaVars, mem, flagVars, run>>,
         Due' = Due, Target' = Target
  PROVE  (UnderWay' <=> UnderWay) /\ (Received' <=> Received)
<1>1. UNCHANGED <<g_s2mm_done, g_dma_err, run, pos, frame, dma, dst, fill, skid, irq, mem>>
  BY DEF flagVars, framerVars, dmaVars
<1>2. Received' <=> Received  BY <1>1 DEF Received, Stream, WholeFrame
<1> QED
  BY <1>1, <1>2 DEF UnderWay, NeverStarted, Receiving, Failed, Quiet, Stream, Reported

LEMMA SameDue ==
  ASSUME UNCHANGED <<buffer_number, packet_count>>, pc # "count", pc' # "count"
  PROVE  Due' = Due /\ Target' = Target
BY DEF Due, Target, CurrentBuffer, OtherBuffer

(* Polling and the tests of the flags: a frame is taken only when its      *)
(* interrupt was seen and none is outstanding.                             *)
LEMMA PollKeeps == ASSUME IInv, Poll \/ Branch PROVE IInv'
<1>1. UNCHANGED <<consoleVars, loopVars, flagVars, hardware, historyVars>>
  BY DEF Poll, Branch
<1>2. UNCHANGED <<framerVars, dmaVars, mem, txVars, flagVars, start_obs_flag, buffer_number,
                  packet_count, run, rst, g_s2mm_done, g_dma_err, irq>>
  BY <1>1 DEF hardware, loopVars, historyVars, framerVars, dmaVars, flagVars
<1>3. pc \in {"poll", "branch"} /\ pc' \in {"poll", "branch", "halted", "clear", "console"}
  BY DEF Poll, Branch, Goto
<1>4. (UnderWay' <=> UnderWay) /\ (Received' <=> Received)
  BY <1>2, <1>3, Still, SameDue
<1>5. IF start_obs_flag THEN UnderWay ELSE rst  BY <1>3 DEF IInv, Control, Waits
<1>6. seconds_recv' \in BOOLEAN /\ reply' \in BOOLEAN
  BY DEF Poll, Branch, IInv, TypeOK, timeVars
<1>7. TypeOK'
  BY <1>1, <1>3, <1>6
  DEF IInv, TypeOK, hardware, consoleVars, loopVars, flagVars, historyVars, framerVars,
      dmaVars, txVars
<1>8. Data'  BY <1>2 DEF IInv, Data, dmaVars
<1>9. Control'
  <2>1. Waits' /\ Resets' /\ Counts'
    BY <1>2, <1>3, <1>4, <1>5 DEF Waits, Resets, Counts
  <2>2. Types'  BY <1>2, <1>3, <1>5 DEF Types, Branch, Poll, Goto
  <2>3. Sends'
    <3> SUFFICES ASSUME pc' = "clear" PROVE Sends'
      BY <1>3 DEF Sends
    <3>1. start_obs_flag /\ g_s2mm_done /\ ~g_dma_err
      BY DEF Poll, Branch, Goto
    <3>2. Received /\ irq = {}
      BY <1>5, <3>1 DEF UnderWay, NeverStarted, Receiving, Quiet, Reported, Failed
    <3> QED  BY <1>2, <1>4, <3>1, <3>2 DEF Sends
  <2> QED  BY <2>1, <2>2, <2>3 DEF Control
<1> QED  BY <1>7, <1>8, <1>9 DEF IInv

(* The frame stays where it is while the flags are cleared and it is sent. *)
LEMMA SendKeeps == ASSUME IInv, ClearFlags \/ SendBuffer PROVE IInv'
<1>1. /\ pc \in {"clear", "send"} /\ pc' \in {"send", "arm"}
      /\ UNCHANGED <<consoleVars, loopVars, timeVars, framerVars, dmaVars, mem, historyVars>>
  BY DEF ClearFlags, SendBuffer, Goto, hardware
<1>2. UNCHANGED <<start_obs_flag, buffer_number, packet_count, run, pos, frame, dma, dst,
                  fill, skid, irq, mem>>
  BY <1>1 DEF loopVars, historyVars, framerVars, dmaVars
<1>3. start_obs_flag /\ irq = {} /\ Received  BY <1>1 DEF IInv, Control, Sends
<1>4. ~g_s2mm_done' /\ ~g_dma_err'
  BY <1>3 DEF ClearFlags, SendBuffer, Goto, flagVars, Received, IInv, Control, Sends
<1>5. txq' \in Seq(Buffers)
  <2>1. txq \in Seq(Buffers)  BY DEF IInv, TypeOK
  <2>2. CASE ClearFlags  BY <2>1, <2>2 DEF ClearFlags, hardware, txVars
  <2>3. CASE SendBuffer
    <3>1. CurrentBuffer \in Buffers  BY StreamTypes
    <3> QED  BY <2>1, <2>3, <3>1 DEF SendBuffer, udp_client_send
  <2> QED  BY <2>2, <2>3
<1>6. g_s2mm_done' \in BOOLEAN /\ g_dma_err' \in BOOLEAN
  BY DEF ClearFlags, SendBuffer, flagVars, IInv, TypeOK
<1>7. TypeOK'
  BY <1>1, <1>5, <1>6
  DEF IInv, TypeOK, consoleVars, loopVars, timeVars, historyVars, framerVars, dmaVars
<1>8. Data'  BY <1>2 DEF IInv, Data
<1>9. Due' = Due /\ Target' = Target  BY <1>1, <1>2, SameDue
<1>10. Received'  BY <1>2, <1>3, <1>4, <1>9 DEF Received, Stream, WholeFrame
<1>11. Control'
  BY <1>1, <1>2, <1>3, <1>4, <1>10 DEF Control, Waits, Types, Resets, Sends, Counts
<1> QED  BY <1>7, <1>8, <1>11 DEF IInv

(* The DMA is idle and quiet when the next transfer is started.            *)
LEMMA ArmOtherKeeps == ASSUME IInv, ArmOther PROVE IInv'
<1>1. /\ pc = "arm" /\ pc' = "count" /\ dma_rcv(OtherBuffer)
      /\ UNCHANGED <<consoleVars, loopVars, flagVars, timeVars, framerVars, mem, txVars, run>>
  BY DEF ArmOther, Goto
<1>2. UNCHANGED <<start_obs_flag, buffer_number, packet_count, run, pos, frame, skid, irq, mem,
                  g_s2mm_done, g_dma_err>>
  BY <1>1 DEF loopVars, flagVars, framerVars, dma_rcv
<1>3. start_obs_flag /\ irq = {} /\ Received /\ ~g_s2mm_done
  BY <1>1 DEF IInv, Control, Sends
<1>4. dma' = "running" /\ dst' = OtherBuffer /\ fill' = 0
  BY <1>1, <1>3 DEF dma_rcv, Received
<1>5. Due' = Due + 1 /\ Target' = OtherBuffer
  BY <1>1, <1>2 DEF Due, Target, OtherBuffer
<1>6. TypeOK'
  <2>1. OtherBuffer \in Buffers  BY StreamTypes
  <2>2. irq_en' \in BOOLEAN /\ lostStart' \in BOOLEAN
    BY <1>1 DEF dma_rcv, IInv, TypeOK
  <2> QED
    BY <1>1, <1>2, <1>4, <2>1, <2>2, Sizes
    DEF IInv, TypeOK, consoleVars, loopVars, flagVars, timeVars, framerVars, txVars
<1>7. Data'  BY <1>2, <1>4, Sizes DEF IInv, Data
<1>8. Receiving'
  <2>1. Chained(skid', Word(run', frame', pos'), Word(run', Due', fill'))
    BY <1>2, <1>3, <1>4, <1>5 DEF Received, Stream
  <2>2. Quiet'  BY <1>2, <1>3 DEF Quiet, Received
  <2>3. \A i \in 0 .. fill' - 1 : mem'[Target'][i] = Word(run', Due', i)
    BY <1>4
  <2> QED  BY <1>4, <1>5, <2>1, <2>2, <2>3 DEF Receiving, Stream
<1>9. Control'
  BY <1>1, <1>2, <1>3, <1>8 DEF Control, Waits, Types, Resets, Sends, Counts, UnderWay
<1> QED  BY <1>6, <1>7, <1>9 DEF IInv

(* Counting turns the next frame into the current one, or ends the         *)
(* observation with the formatter in reset.                                *)
LEMMA CountKeeps == ASSUME IInv, CountPacket PROVE IInv'
<1>1. /\ pc = "count" /\ pc' = "poll"
      /\ buffer_number' = -1 - buffer_number /\ packet_count' = packet_count + 1
      /\ UNCHANGED <<consoleVars, flagVars, timeVars, dmaVars, mem, txVars, historyVars>>
  BY DEF CountPacket, Goto
<1>2. buffer_number \in {0, -1} /\ packet_count \in Nat  BY DEF IInv, TypeOK
<1>3. Due' = Due /\ Target' = Target
  <2>1. Due' = Due  BY <1>1 DEF Due
  <2>2. CASE buffer_number = 0
    BY <1>1, <2>1, <2>2 DEF Target, CurrentBuffer, OtherBuffer
  <2>3. CASE buffer_number = -1
    BY <1>1, <2>1, <2>3 DEF Target, CurrentBuffer, OtherBuffer
  <2> QED  BY <1>2, <2>1, <2>2, <2>3
<1>4. run' = run  BY <1>1 DEF historyVars
<1>5. Data'  BY <1>1 DEF IInv, Data, dmaVars
<1>6. buffer_number' \in {0, -1} /\ packet_count' \in Nat  BY <1>1, <1>2
<1>7. CASE /\ start_obs_flag' = FALSE /\ vdif_formatter_set_rst(TRUE)
  <2>1. TypeOK'
    <3>1. /\ rst' \in BOOLEAN /\ pos' \in 0 .. FrameWords - 1 /\ frame' \in Nat
          /\ start_obs_flag' \in BOOLEAN
      <4>1. 0 \in 0 .. FrameWords - 1 /\ 0 \in Nat  BY Sizes
      <4> QED  BY <1>7, <4>1, Zenon DEF vdif_formatter_set_rst
    <3> QED
      BY <1>1, <1>6, <3>1
      DEF IInv, TypeOK, consoleVars, flagVars, timeVars, dmaVars, txVars, historyVars
  <2>2. Control'
    BY <1>1, <1>7
    DEF Control, Waits, Types, Resets, Sends, Counts, vdif_formatter_set_rst
  <2> QED  BY <1>5, <2>1, <2>2 DEF IInv
<1>8. CASE UNCHANGED <<start_obs_flag, framerVars>>
  <2>1. TypeOK'
    BY <1>1, <1>6, <1>8
    DEF IInv, TypeOK, consoleVars, flagVars, timeVars, dmaVars, txVars, historyVars, framerVars
  <2>2. start_obs_flag /\ UnderWay  BY <1>1 DEF IInv, Control, Counts
  <2>3. UnderWay'  BY <1>1, <1>3, <1>4, <1>8, <2>2, Still
  <2>4. Control'
    BY <1>1, <1>8, <2>2, <2>3 DEF Control, Waits, Types, Resets, Sends, Counts
  <2> QED  BY <1>5, <2>1, <2>4 DEF IInv
<1> QED  BY <1>7, <1>8 DEF CountPacket

(* The four statement groups that start an observation: whatever the last  *)
(* one left is gone before the first word of this one is delivered.        *)
LEMMA ResetDmaKeeps == ASSUME IInv, ResetDma PROVE IInv'
<1>1. /\ pc = "dma_reset" /\ pc' = "release"
      /\ dma' = "resetting" /\ skid' = <<>> /\ irq' = {} /\ irq_en' = FALSE
      /\ UNCHANGED <<dst, fill, consoleVars, loopVars, flagVars, timeVars, framerVars, mem,
                      txVars, historyVars>>
  BY DEF ResetDma, Goto, dma_reset, XAxiDma_Reset
<1>2. skid' \in Seq(Words) /\ Len(skid') = 0  BY <1>1
<1>3. TypeOK'
  <2>1. Len(skid') <= SkidWords  BY <1>2, Sizes
  <2> QED
    BY <1>1, <2>1
    DEF IInv, TypeOK, consoleVars, loopVars, flagVars, timeVars, framerVars, txVars, historyVars
<1>4. Data'  BY <1>1, <1>2 DEF IInv, Data
<1>5. Control'
  BY <1>1 DEF IInv, Control, Waits, Types, Resets, Sends, Counts, loopVars, framerVars
<1> QED  BY <1>3, <1>4, <1>5 DEF IInv

LEMMA ReleaseKeeps == ASSUME IInv, ReleaseFormatter PROVE IInv'
<1>1. /\ pc = "release" /\ pc' = "clear_0" /\ rst' = FALSE /\ pos' = 0 /\ frame' = 0
      /\ UNCHANGED <<consoleVars, loopVars, flagVars, timeVars, dmaVars, mem, txVars,
                      historyVars>>
  BY DEF ReleaseFormatter, Goto, vdif_formatter_set_rst
<1>2. TypeOK'
  <2>1. rst' \in BOOLEAN /\ pos' \in 0 .. FrameWords - 1 /\ frame' \in Nat
    <3>1. 0 \in 0 .. FrameWords - 1 /\ 0 \in Nat  BY Sizes
    <3> QED  BY <1>1, <3>1, Zenon
  <2> QED
    BY <1>1, <2>1
    DEF IInv, TypeOK, consoleVars, loopVars, flagVars, timeVars, dmaVars, txVars, historyVars
<1>3. Data'  BY <1>1 DEF IInv, Data, dmaVars
<1>4. Stream(Word(run, 0, 0))'
  <2>1. skid' = <<>>  BY <1>1 DEF IInv, Control, Resets, dmaVars
  <2> QED  BY <1>1, <2>1, ChainEmpty DEF Stream
<1>5. Control'
  BY <1>1, <1>4 DEF IInv, Control, Waits, Types, Resets, Sends, Counts, loopVars, dmaVars
<1> QED  BY <1>2, <1>3, <1>5 DEF IInv

LEMMA ClearFirstKeeps == ASSUME IInv, ClearFirst PROVE IInv'
<1>1. /\ pc = "clear_0" /\ pc' = "first_rcv" /\ ~g_s2mm_done' /\ ~g_dma_err'
      /\ g_s2mm_done' \in BOOLEAN /\ g_dma_err' \in BOOLEAN
      /\ UNCHANGED <<consoleVars, loopVars, timeVars, framerVars, dmaVars, mem, txVars,
                      historyVars>>
  BY DEF ClearFirst, Goto, hardware
<1>2. TypeOK'
  BY <1>1 DEF IInv, TypeOK, consoleVars, loopVars, timeVars, framerVars, dmaVars, txVars,
              historyVars
<1>3. Data'  BY <1>1 DEF IInv, Data, dmaVars
<1>4. Control'
  BY <1>1 DEF IInv, Control, Waits, Types, Resets, Sends, Counts, Quiet, Stream, loopVars,
              dmaVars, framerVars, historyVars
<1> QED  BY <1>2, <1>3, <1>4 DEF IInv

LEMMA ArmFirstKeeps == ASSUME IInv, ArmFirst PROVE IInv'
<1>1. /\ pc = "first_rcv" /\ pc' = "poll" /\ dma_rcv("rcv_buf_1")
      /\ UNCHANGED <<consoleVars, loopVars, flagVars, timeVars, framerVars, mem, txVars, run>>
  BY DEF ArmFirst, Goto
<1>2. UNCHANGED <<start_obs_flag, buffer_number, packet_count, run, pos, frame, skid, irq, mem,
                  g_s2mm_done, g_dma_err>>
  BY <1>1 DEF loopVars, flagVars, framerVars, dma_rcv
<1>3. /\ start_obs_flag /\ packet_count = 0 /\ buffer_number = 0 /\ dma # "running"
      /\ Quiet /\ Stream(Word(run, 0, 0))
  BY <1>1 DEF IInv, Control, Resets
<1>4. \/ dma' = "running" /\ dst' = "rcv_buf_1" /\ fill' = 0
      \/ UNCHANGED <<dma, dst, fill>>
  BY <1>1 DEF dma_rcv
<1>5. Due' = 0 /\ Target' = "rcv_buf_1"
  BY <1>1, <1>2, <1>3 DEF Due, Target, CurrentBuffer
<1>6. TypeOK'
  <2>1. irq_en' \in BOOLEAN /\ lostStart' \in BOOLEAN
    BY <1>1 DEF dma_rcv, IInv, TypeOK
  <2>2. /\ dma' \in {"idle", "running", "resetting"} /\ dst' \in Buffers
        /\ fill' \in 0 .. FrameWords
    BY <1>4, Sizes DEF IInv, TypeOK, Buffers
  <2> QED
    BY <1>1, <1>2, <2>1, <2>2
    DEF IInv, TypeOK, consoleVars, loopVars, flagVars, timeVars, framerVars, txVars
<1>7. Data'  BY <1>2, <1>3, <1>4, Sizes DEF IInv, Data
<1>8. UnderWay'
  <2>1. Quiet'  BY <1>2, <1>3 DEF Quiet
  <2>2. CASE dma' = "running" /\ dst' = "rcv_buf_1" /\ fill' = 0
    <3>1. Chained(skid', Word(run', frame', pos'), Word(run', Due', fill'))
      BY <1>2, <1>3, <1>5, <2>2 DEF Stream
    <3>2. \A i \in 0 .. fill' - 1 : mem'[Target'][i] = Word(run', Due', i)
      BY <2>2
    <3> QED  BY <1>5, <2>1, <2>2, <3>1, <3>2 DEF UnderWay, Receiving, Stream
  <2>3. CASE UNCHANGED <<dma, dst, fill>>
    BY <1>3, <2>1, <2>3 DEF UnderWay, NeverStarted
  <2> QED  BY <1>4, <2>2, <2>3
<1>9. Control'
  BY <1>1, <1>2, <1>3, <1>8 DEF Control, Waits, Types, Resets, Sends, Counts
<1> QED  BY <1>6, <1>7, <1>9 DEF IInv

(* No line typed at the console touches the hardware.                      *)
LEMMA ConsoleKeeps == ASSUME IInv, Console PROVE IInv'
<1>1. /\ pc = "console" /\ pc' \in {"poll", "dma_reset"}
      /\ UNCHANGED <<flagVars, timeVars, framerVars, dmaVars, mem, txVars>>
  BY DEF Console, TypeOther, TypeSetPeriod, TypeSeconds, StartObservation, Goto, hardware
<1>2. ~start_obs_flag /\ rst  BY <1>1 DEF IInv, Control, Types
<1>3. Data'  BY <1>1 DEF IInv, Data, dmaVars
<1>4. Control'
  <2>1. pc' = "poll" => start_obs_flag' = start_obs_flag
    BY DEF Console, TypeOther, TypeSetPeriod, TypeSeconds, StartObservation, Goto, loopVars
  <2>2. pc' = "dma_reset" => start_obs_flag' /\ packet_count' = 0 /\ buffer_number' = 0
    BY DEF Console, TypeOther, TypeSetPeriod, TypeSeconds, StartObservation, Goto
  <2> QED
    BY <1>1, <1>2, <2>1, <2>2 DEF Control, Waits, Types, Resets, Sends, Counts, framerVars
<1>5. TypeOK'
  <2> DEFINE Typed ==
        /\ set_period_flag' \in BOOLEAN /\ start_obs_flag' \in BOOLEAN
        /\ packet_count' \in Nat /\ buffer_number' \in {0, -1}
        /\ count_threshold' \in {s * FramesPerSecond : s \in Seconds \cup {1}}
        /\ run' \in 0 .. MaxRuns /\ lostStart' \in BOOLEAN
  <2>1. Typed
    <3>1. CASE TypeOther
      BY <3>1 DEF TypeOther, IInv, TypeOK, consoleVars, loopVars, historyVars
    <3>2. CASE TypeSetPeriod
      BY <3>2 DEF TypeSetPeriod, IInv, TypeOK, loopVars, historyVars
    <3>3. ASSUME NEW s \in Seconds, TypeSeconds(s) PROVE Typed
      BY <3>3 DEF TypeSeconds, IInv, TypeOK, loopVars, historyVars
    <3>4. CASE StartObservation
      BY <3>4, Sizes DEF StartObservation, IInv, TypeOK, consoleVars
    <3> QED  BY <3>1, <3>2, <3>3, <3>4 DEF Console
  <2> QED
    BY <1>1, <2>1
    DEF IInv, TypeOK, flagVars, timeVars, framerVars, dmaVars, txVars
<1> QED  BY <1>3, <1>4, <1>5 DEF IInv

----------------------------------------------------------------------------
(* The invariant, and what follows from it                                 *)

(* After the set-up nothing is received and the formatter is in reset.     *)
LEMMA InitIInv == Init => IInv
<1> SUFFICES ASSUME Init PROVE IInv
  OBVIOUS
<1>1. TypeOK
  <2>1. 0 \in 0 .. FrameWords - 1 /\ 0 \in 0 .. FrameWords /\ 0 \in 0 .. MaxRuns
    BY Sizes
  <2>2. count_threshold \in {s * FramesPerSecond : s \in Seconds \cup {1}}
    BY Sizes DEF Init
  <2>3. Len(skid) <= SkidWords  BY Sizes DEF Init
  <2>4. txq \in Seq(Buffers)  BY DEF Init
  <2> QED  BY <2>1, <2>2, <2>3, <2>4 DEF Init, TypeOK, Buffers
<1>2. Data
  <2>1. NoWord \in Words  BY Sizes DEF NoWord, Word, Words
  <2> QED  BY <2>1 DEF Init, Data
<1>3. Control
  BY DEF Init, Control, Waits, Types, Resets, Sends, Counts
<1> QED  BY <1>1, <1>2, <1>3 DEF IInv

(* Every action keeps it.                                                  *)
LEMMA NextIInv == IInv /\ [Next]_vars => IInv'
<1> SUFFICES ASSUME IInv, [Next]_vars PROVE IInv'
  OBVIOUS
<1>1. CASE MainLoop
  BY <1>1, PollKeeps, SendKeeps, ArmOtherKeeps, CountKeeps, ResetDmaKeeps, ReleaseKeeps,
     ClearFirstKeeps, ArmFirstKeeps DEF MainLoop
<1>2. CASE Console  BY <1>2, ConsoleKeeps
<1>3. CASE s2mm_isr  BY <1>3, InterruptKeeps
<1>4. CASE Deliver  BY <1>4, DeliverKeeps
<1>5. CASE Move  BY <1>5, MoveKeeps
<1>6. CASE Fault  BY <1>6, FaultKeeps
<1>7. CASE ResetDone  BY <1>7, ResetDoneKeeps
<1>8. CASE Transmit  BY <1>8, TransmitKeeps
<1>9. CASE UNCHANGED vars
  <2>1. UNCHANGED <<pc, buffer_number, packet_count, start_obs_flag, flagVars, framerVars,
                    dmaVars, mem, run, rst, g_s2mm_done, g_dma_err, skid, irq, dma, fill, pos,
                    frame>>
    BY <1>9 DEF vars, loopVars, framerVars, dmaVars, historyVars, flagVars
  <2>2. (UnderWay' <=> UnderWay) /\ (Received' <=> Received)
    BY <2>1, SameFrame, Still
  <2>3. Control'
    BY <2>1, <2>2 DEF IInv, Control, Waits, Types, Resets, Sends, Counts, Quiet, Stream
  <2>4. Data'  BY <2>1 DEF IInv, Data
  <2>5. TypeOK'
    BY <1>9 DEF IInv, TypeOK, vars, consoleVars, loopVars, flagVars, timeVars, framerVars,
                dmaVars, txVars, historyVars
  <2> QED  BY <2>3, <2>4, <2>5 DEF IInv
<1> QED  BY <1>1, <1>2, <1>3, <1>4, <1>5, <1>6, <1>7, <1>8, <1>9 DEF Next

(* The types, the data and the control of the loop, in every reachable     *)
(* state.                                                                  *)
THEOREM Invariance == Spec => []IInv
BY InitIInv, NextIInv, PTL DEF Spec

(* Every variable of main.c, the DMA and the formatter keeps to its range. *)
THEOREM TypeCorrect == Spec => []TypeOK
<1>1. IInv => TypeOK  BY DEF IInv
<1> QED  BY <1>1, Invariance, PTL

(* The buffer handed to udp_client_send holds the next whole frame of this *)
(* observation, whatever the last one left in DMA, flags and buffers.      *)
THEOREM AlwaysSendsNextFrame == Spec => []SendsNextFrame
<1>1. IInv => SendsNextFrame
  BY DEF IInv, Control, Sends, Received, SendsNextFrame, Due, Target
<1> QED  BY <1>1, Invariance, PTL

(* Clearing both flags at main.c:496 throws no interrupt away.             *)
THEOREM ClearingLosesNothing == Spec => []ClearLosesNothing
<1>1. IInv => ClearLosesNothing
  BY DEF IInv, Control, Sends, Received, ClearLosesNothing
<1> QED  BY <1>1, Invariance, PTL

(* The DMA runs no transfer when dma_rcv asks it for one.                  *)
THEOREM TransfersNeverRefused == Spec => []NeverRefused
<1>1. IInv => NeverRefused
  BY DEF IInv, Control, Sends, Resets, Received, NeverRefused
<1> QED  BY <1>1, Invariance, PTL

----------------------------------------------------------------------------
(* Observation implements Recording: what the MAC sends is what the        *)
(* recording host was promised, with faults and failed sends.              *)

(* The datagram in the MAC's queue: the buffer that udp_client_send was    *)
(* given last, and the number of its frame.                                *)
LastSent == IF pc \in {"arm", "count"} THEN packet_count ELSE packet_count - 1
LastBuffer == IF pc \in {"arm", "count"} THEN CurrentBuffer ELSE OtherBuffer

Targets == {s * FramesPerSecond : s \in Seconds \cup {1}}

(* The MAC reads what was sent: the DMA leaves that buffer alone.          *)
Queue == \/ txq = <<>>
         \/ /\ txq = <<LastBuffer>> /\ mem[LastBuffer] = WholeFrame(run, LastSent)
            /\ dma = "running" => dst # LastBuffer
            /\ run >= 1 /\ LastSent >= 0

(* It has been sent when the next frame is complete, and when the next     *)
(* observation starts.                                                     *)
Drained ==
  /\ pc \in {"clear", "send", "dma_reset", "release", "clear_0", "first_rcv"} => txq = <<>>
  /\ pc \in {"poll", "branch", "count"} /\ start_obs_flag
       /\ (irq = {"IOC"} \/ g_s2mm_done) => txq = <<>>

(* The threshold is reached by counting, never passed.                     *)
Counted == /\ count_threshold \in Targets /\ count_threshold > 0
           /\ start_obs_flag => packet_count < count_threshold
           /\ \E n \in Targets : packet_count <= n
           /\ pc = "halted" => start_obs_flag
           /\ start_obs_flag => run >= 1

(* The frame after the last one in the log.                                *)
NextFrame == IF txq = <<>> THEN LastSent + 1 ELSE LastSent

Datagrams == [0 .. FrameWords - 1 -> Words]

Logged ==
  /\ sent \in Seq(Datagrams)
  /\ sent # <<>> => /\ FrameId(sent[Len(sent)]) \in Int \X Int
                    /\ Host!Before(FrameId(sent[Len(sent)]), <<run, NextFrame>>)

HInv == Queue /\ Drained /\ Counted /\ Logged

----------------------------------------------------------------------------
(* What the host sees                                                      *)

HostStep == [Host!Next]_(Host!vars)

Log == [i \in 1 .. Len(sent) |-> FrameId(sent[i])]

(* A step that the host cannot see.                                        *)
LEMMA Unseen ==
  ASSUME UNCHANGED <<start_obs_flag, run, count_threshold, packet_count, sent>>,
         (pc = "halted") <=> (pc' = "halted")
  PROVE  HostStep
BY DEF HostStep, Host!vars

(* The types used below, and the buffers: there are two.                   *)
LEMMA HostTypes ==
  ASSUME IInv
  PROVE  /\ packet_count \in Nat /\ run \in Nat /\ fill \in Nat
         /\ LastSent \in Int /\ NextFrame \in Int
         /\ LastBuffer \in Buffers
         /\ CurrentBuffer # OtherBuffer /\ irq \subseteq {"IOC", "ERROR"}
<1>1. packet_count \in Nat /\ run \in Nat /\ fill \in Nat /\ irq \subseteq {"IOC", "ERROR"}
  BY Sizes DEF IInv, TypeOK
<1>2. LastSent \in Int /\ NextFrame \in Int  BY <1>1 DEF LastSent, NextFrame
<1> QED
  BY <1>1, <1>2 DEF LastBuffer, CurrentBuffer, OtherBuffer, Buffers

(* Frames asked for are numbers.                                           *)
LEMMA TargetTypes == ASSUME NEW n \in Targets PROVE n \in Nat
<1>1. PICK s \in Seconds \cup {1} : n = s * FramesPerSecond  BY DEF Targets
<1>2. s \in Nat  BY Sizes
<1>3. \A a, b \in Nat : a * b \in Nat  OBVIOUS
<1> QED  BY <1>1, <1>2, <1>3, Sizes

(* The order of frames is transitive from one frame to the next.           *)
LEMMA BeforeNext ==
  ASSUME NEW a \in Int \X Int, NEW r \in Int, NEW f \in Int, Host!Before(a, <<r, f>>)
  PROVE  Host!Before(a, <<r, f + 1>>) /\ Host!Before(a, <<r + 1, 0>>)
<1>1. a[1] \in Int /\ a[2] \in Int  OBVIOUS
<1> QED  BY <1>1 DEF Host!Before

(* A whole frame is identified.                                            *)
LEMMA WholeFrameId ==
  ASSUME NEW r \in Int, NEW f \in Int
  PROVE  FrameId(WholeFrame(r, f)) = <<r, f>>
<1>1. WholeFrame(r, f)[0] = Word(r, f, 0)  BY Sizes DEF WholeFrame
<1>2. Word(r, f, 0).run = r /\ Word(r, f, 0).frame = f  BY DEF Word
<1> QED  BY <1>1, <1>2 DEF FrameId

----------------------------------------------------------------------------
(* The hardware                                                            *)

(* Where nothing of the loop, the queue or what was sent changes.          *)
LEMMA HardwareKeeps ==
  ASSUME IInv, HInv, Deliver \/ Move \/ Fault \/ ResetDone \/ s2mm_isr
  PROVE  HInv' /\ HostStep
<1>1. UNCHANGED <<pc, start_obs_flag, buffer_number, packet_count, count_threshold, run, txq, sent>>
  BY DEF Deliver, Move, Fault, ResetDone, s2mm_isr, software, txVars, consoleVars, loopVars,
         historyVars
<1>2. LastSent' = LastSent /\ LastBuffer' = LastBuffer /\ NextFrame' = NextFrame
  BY <1>1 DEF LastSent, LastBuffer, NextFrame, CurrentBuffer, OtherBuffer
<1>3. Counted'  BY <1>1 DEF HInv, Counted
<1>4. Logged'  BY <1>1, <1>2 DEF HInv, Logged
<1>5. Queue'
  <2>1. dma' = "running" => dma = "running" /\ dst' = dst
    BY DEF Deliver, Move, Fault, ResetDone, s2mm_isr, XAxiDma_Reset
  <2>2. txq # <<>> => mem'[LastBuffer] = mem[LastBuffer]
    <3>1. CASE Move
      <4>1. txq # <<>> => dst # LastBuffer
        BY <3>1 DEF Move, HInv, Queue
      <4>2. mem' = [mem EXCEPT ![dst][fill] = Head(skid)] /\ DOMAIN mem = Buffers
        BY <3>1 DEF Move, IInv, TypeOK
      <4> QED  BY <4>1, <4>2, HostTypes
    <3>2. CASE ~Move  BY <3>2 DEF Deliver, Fault, ResetDone, s2mm_isr
    <3> QED  BY <3>1, <3>2
  <2> QED  BY <1>1, <1>2, <2>1, <2>2 DEF HInv, Queue
<1>6. Drained'
  <2> SUFFICES ASSUME pc \in {"poll", "branch", "count"}, start_obs_flag,
                      irq' = {"IOC"} \/ g_s2mm_done', txq # <<>>
               PROVE  FALSE
    BY <1>1 DEF HInv, Drained
  <2>1. irq # {"IOC"} /\ ~g_s2mm_done  BY DEF HInv, Drained
  <2>2. CASE Deliver \/ ResetDone
    BY <2>1, <2>2 DEF Deliver, ResetDone, software, flagVars
  <2>3. CASE Fault  BY <2>1, <2>3 DEF Fault, software, flagVars
  <2>4. CASE Move
    <3>1. UnderWay  BY DEF IInv, Control, Waits, Counts
    <3>2. irq = {}
      BY <2>4, <3>1 DEF Move, UnderWay, NeverStarted, Receiving, Received, Failed, Quiet
    <3> QED  BY <2>1, <2>4, <3>2 DEF Move, software, flagVars
  <2>5. CASE s2mm_isr
    <3>1. "ERROR" \in irq  BY <2>1, <2>5, HostTypes DEF s2mm_isr
    <3>2. irq' = {} /\ UNCHANGED g_s2mm_done  BY <2>5, <3>1 DEF s2mm_isr, XAxiDma_Reset
    <3>3. {} # {"IOC"}  OBVIOUS
    <3> QED  BY <2>1, <3>2, <3>3
  <2> QED  BY <2>2, <2>3, <2>4, <2>5
<1>7. HostStep  BY <1>1, Unseen
<1> QED  BY <1>3, <1>4, <1>5, <1>6, <1>7 DEF HInv

(* The MAC emits the frame that was sent last.                             *)
LEMMA TransmitEmits == ASSUME IInv, HInv, Transmit PROVE HInv' /\ HostStep
<1> DEFINE d == WholeFrame(run, LastSent)
<1>1. /\ txq = <<LastBuffer>> /\ mem[LastBuffer] = d /\ run >= 1 /\ LastSent >= 0
  BY DEF Transmit, HInv, Queue
<1>2. /\ sent' = Append(sent, d) /\ txq' = <<>>
      /\ UNCHANGED <<software, timeVars, framerVars, dmaVars, mem>>
  BY <1>1 DEF Transmit
<1>3. UNCHANGED <<pc, start_obs_flag, buffer_number, packet_count, count_threshold, run>>
  BY <1>2 DEF software, consoleVars, loopVars, historyVars
<1>4. LastSent' = LastSent /\ LastBuffer' = LastBuffer
  BY <1>3 DEF LastSent, LastBuffer, CurrentBuffer, OtherBuffer
<1>5. NextFrame = LastSent /\ NextFrame' = LastSent + 1
  BY <1>1, <1>2, <1>4 DEF NextFrame
<1>6. FrameId(d) = <<run, LastSent>> /\ LastSent \in Int /\ run \in Int
  BY WholeFrameId, HostTypes
<1>7. d \in Datagrams
  <2>1. mem[LastBuffer] \in [0 .. FrameWords - 1 -> Words]
    BY HostTypes DEF IInv, Data
  <2> QED  BY <1>1, <2>1 DEF Datagrams
<1>8. sent \in Seq(Datagrams)  BY DEF HInv, Logged
<1>9. /\ sent' \in Seq(Datagrams) /\ Len(sent') = Len(sent) + 1 /\ sent' # <<>>
      /\ sent'[Len(sent')] = d
  BY <1>2, <1>7, <1>8
<1>10. Logged'
  <2>1. Host!Before(<<run, LastSent>>, <<run, LastSent + 1>>)
    BY <1>6 DEF Host!Before
  <2>2. <<run, LastSent>> \in Int \X Int  BY <1>6
  <2> QED  BY <1>3, <1>5, <1>6, <1>9, <2>1, <2>2 DEF Logged
<1>11. Queue' /\ Drained' /\ Counted'
  BY <1>2, <1>3 DEF HInv, Queue, Drained, Counted
<1>12. Log' = Append(Log, <<run, LastSent>>)
  <2> DEFINE n == Len(sent)
  <2>1. n \in Nat /\ Len(sent') = n + 1  BY <1>8, <1>9
  <2>2. \A i \in 1 .. n : sent'[i] = sent[i]  BY <1>2, <1>7, <1>8
  <2>3. sent'[n + 1] = d  BY <1>9, <2>1
  <2>4. Log \in Seq(UNION {{FrameId(sent[i])} : i \in 1 .. n}) /\ Len(Log) = n
    BY <2>1 DEF Log
  <2>5. Log' = [i \in 1 .. n + 1 |-> FrameId(sent'[i])]  BY <2>1 DEF Log
  <2>6. Append(Log, <<run, LastSent>>)
          = [i \in 1 .. n + 1 |-> IF i = n + 1 THEN <<run, LastSent>> ELSE Log[i]]
    BY <2>1, <2>4
  <2>7. \A i \in 1 .. n + 1 : FrameId(sent'[i]) = IF i = n + 1 THEN <<run, LastSent>> ELSE Log[i]
    <3> TAKE i \in 1 .. n + 1
    <3>1. CASE i = n + 1  BY <1>6, <2>3, <3>1
    <3>2. CASE i # n + 1
      <4>1. i \in 1 .. n  BY <2>1, <3>2
      <4> QED  BY <2>2, <3>2, <4>1 DEF Log
    <3> QED  BY <3>1, <3>2
  <2> QED  BY <2>5, <2>6, <2>7
<1>13. Len(Log) = Len(sent) /\ (Log # <<>> => sent # <<>> /\ Log[Len(Log)] = FrameId(sent[Len(sent)]))
  <2> DEFINE n == Len(sent)
  <2>1. n \in Nat  BY <1>8
  <2>2. Len(Log) = n  BY <2>1 DEF Log
  <2>3. Log # <<>> => n # 0  BY <2>1 DEF Log
  <2>4. n # 0 => n \in 1 .. n /\ sent # <<>>  BY <2>1, <1>8
  <2> QED  BY <2>2, <2>3, <2>4 DEF Log
<1>14. Log # <<>> => Host!Before(Log[Len(Log)], <<run, LastSent>>)
  BY <1>5, <1>13 DEF HInv, Logged
<1>15. run \in 1 .. run /\ LastSent \in UNION {0 .. n : n \in Targets}
  <2>1. PICK n \in Targets : packet_count <= n  BY DEF HInv, Counted
  <2>2. n \in Nat  BY TargetTypes
  <2>3. LastSent \in 0 .. n  BY <1>1, <2>1, <2>2, HostTypes DEF LastSent
  <2> QED  BY <1>1, <2>3, HostTypes
<1>16. LastSent <= packet_count  BY HostTypes DEF LastSent
<1>17. Host!Emit
  BY <1>3, <1>12, <1>14, <1>15, <1>16 DEF Host!Emit, Log, Targets
<1> QED  BY <1>10, <1>11, <1>17 DEF HInv, HostStep, Host!Next

----------------------------------------------------------------------------
(* The main loop and the console                                           *)

(* Polling cannot be seen, unless it stops at an error.                    *)
LEMMA PollShows == ASSUME IInv, HInv, Poll \/ Branch PROVE HInv' /\ HostStep
<1>1. /\ pc \in {"poll", "branch"} /\ pc' \in {"poll", "branch", "halted", "clear", "console"}
      /\ UNCHANGED <<start_obs_flag, buffer_number, packet_count, count_threshold, run, txq,
                      sent, mem, dma, dst, irq, g_s2mm_done>>
  BY DEF Poll, Branch, Goto, consoleVars, loopVars, flagVars, hardware, dmaVars, txVars,
         historyVars
<1>2. LastSent' = LastSent /\ LastBuffer' = LastBuffer /\ NextFrame' = NextFrame
  BY <1>1 DEF LastSent, LastBuffer, NextFrame, CurrentBuffer, OtherBuffer
<1>3. pc' \in {"halted", "clear"} => start_obs_flag  BY DEF Poll, Branch, Goto
<1>4. pc' = "clear" => g_s2mm_done  BY DEF Poll, Branch, Goto
<1>5. Queue' /\ Logged'  BY <1>1, <1>2 DEF HInv, Queue, Logged
<1>6. Drained'  BY <1>1, <1>3, <1>4 DEF HInv, Drained
<1>7. Counted'  BY <1>1, <1>3 DEF HInv, Counted
<1>8. HostStep
  <2>1. CASE pc' = "halted"
    <3>1. Host!Fail  BY <1>1, <1>3, <2>1 DEF Host!Fail
    <3> QED  BY <3>1 DEF HostStep, Host!Next
  <2>2. CASE pc' # "halted"  BY <1>1, <2>2, Unseen
  <2> QED  BY <2>1, <2>2
<1> QED  BY <1>5, <1>6, <1>7, <1>8 DEF HInv

(* A frame is queued for the MAC, or its send fails.                       *)
LEMMA SendShows == ASSUME IInv, HInv, ClearFlags \/ SendBuffer PROVE HInv' /\ HostStep
<1>1. /\ pc \in {"clear", "send"} /\ pc' \in {"send", "arm"}
      /\ UNCHANGED <<start_obs_flag, buffer_number, packet_count, count_threshold, run, sent,
                      mem, dma, dst>>
  BY DEF ClearFlags, SendBuffer, Goto, consoleVars, loopVars, hardware, dmaVars, txVars,
         historyVars, udp_client_send
<1>2. txq = <<>>  BY <1>1 DEF HInv, Drained
<1>3. /\ pc' = "send" => txq' = <<>>
      /\ pc' = "arm" => txq' \in {<<CurrentBuffer>>, <<>>}
  BY <1>2 DEF ClearFlags, SendBuffer, Goto, hardware, txVars, udp_client_send
<1>4. start_obs_flag /\ dma = "idle" /\ mem[CurrentBuffer] = WholeFrame(run, packet_count)
  BY <1>1 DEF IInv, Control, Sends, Received, Target, Due
<1>5. LastSent = packet_count - 1 /\ NextFrame = packet_count
  BY <1>1, <1>2, HostTypes DEF LastSent, NextFrame
<1>6. /\ LastSent' = IF pc' = "arm" THEN packet_count ELSE packet_count - 1
      /\ pc' = "arm" => LastBuffer' = CurrentBuffer
  BY <1>1 DEF LastSent, LastBuffer, CurrentBuffer
<1>7. NextFrame' \in {packet_count, packet_count + 1}
  BY <1>1, <1>3, <1>6, HostTypes DEF NextFrame
<1>8. Queue'
  <2>1. CASE txq' = <<>>  BY <2>1 DEF Queue
  <2>2. CASE txq' # <<>>
    <3>1. pc' = "arm" /\ txq' = <<CurrentBuffer>>  BY <1>1, <1>3, <2>2
    <3>2. run >= 1  BY <1>4 DEF HInv, Counted
    <3> QED  BY <1>1, <1>4, <1>6, <3>1, <3>2, HostTypes DEF Queue, WholeFrame
  <2> QED  BY <2>1, <2>2
<1>9. Drained'  BY <1>1, <1>3 DEF Drained
<1>10. Counted'  BY <1>1 DEF HInv, Counted
<1>11. Logged'
  <2> DEFINE last == FrameId(sent[Len(sent)])
  <2>1. ASSUME sent # <<>> PROVE Host!Before(last, <<run, NextFrame'>>)
    <3>1. last \in Int \X Int /\ Host!Before(last, <<run, packet_count>>)
      BY <1>5, <2>1 DEF HInv, Logged
    <3>2. run \in Int /\ packet_count \in Int  BY HostTypes
    <3> HIDE DEF last
    <3>3. Host!Before(last, <<run, packet_count + 1>>)  BY <3>1, <3>2, BeforeNext, Zenon
    <3> QED  BY <1>7, <3>1, <3>3, Zenon
  <2> QED  BY <1>1, <2>1 DEF HInv, Logged
<1>12. HostStep  BY <1>1, Unseen
<1> QED  BY <1>8, <1>9, <1>10, <1>11, <1>12 DEF HInv

(* The next transfer goes to the buffer that is not being sent.            *)
LEMMA ArmOtherShows == ASSUME IInv, HInv, ArmOther PROVE HInv' /\ HostStep
<1>1. /\ pc = "arm" /\ pc' = "count"
      /\ UNCHANGED <<start_obs_flag, buffer_number, packet_count, count_threshold, run, txq,
                      sent, mem, irq, g_s2mm_done>>
  BY DEF ArmOther, Goto, consoleVars, loopVars, flagVars, dma_rcv, txVars
<1>2. irq = {} /\ ~g_s2mm_done /\ dma = "idle"
  BY <1>1 DEF IInv, Control, Sends, Received
<1>3. dst' = OtherBuffer  BY <1>2 DEF ArmOther, dma_rcv
<1>4. /\ LastSent' = LastSent /\ LastBuffer' = LastBuffer /\ NextFrame' = NextFrame
      /\ LastBuffer = CurrentBuffer
  BY <1>1 DEF LastSent, LastBuffer, NextFrame, CurrentBuffer
<1>5. Queue'  BY <1>1, <1>3, <1>4, HostTypes DEF HInv, Queue
<1>6. Drained'
  <2>1. {} # {"IOC"}  OBVIOUS
  <2> QED  BY <1>1, <1>2, <2>1 DEF Drained
<1>7. Counted' /\ Logged'  BY <1>1, <1>4 DEF HInv, Counted, Logged
<1>8. HostStep  BY <1>1, Unseen
<1> QED  BY <1>5, <1>6, <1>7, <1>8 DEF HInv

(* Counting takes a frame, and the last one ends the observation.          *)
LEMMA CountTakes == ASSUME IInv, HInv, CountPacket PROVE HInv' /\ HostStep
<1>1. /\ pc = "count" /\ pc' = "poll"
      /\ buffer_number' = -1 - buffer_number /\ packet_count' = packet_count + 1
      /\ UNCHANGED <<count_threshold, run, txq, sent, mem, dma, dst, irq, g_s2mm_done>>
  BY DEF CountPacket, Goto, consoleVars, flagVars, dmaVars, txVars, historyVars
<1>2. start_obs_flag  BY <1>1 DEF IInv, Control, Counts
<1>3. start_obs_flag' <=> packet_count' # count_threshold
  BY <1>2 DEF CountPacket
<1>4. /\ packet_count < count_threshold /\ count_threshold \in Targets
      /\ count_threshold \in Nat /\ packet_count \in Nat
  BY <1>2, HostTypes, TargetTypes DEF HInv, Counted
<1>5. buffer_number \in {0, -1}  BY DEF IInv, TypeOK
<1>6. LastSent' = LastSent  BY <1>1, <1>4 DEF LastSent
<1>7. LastBuffer' = LastBuffer
  <2>1. CASE buffer_number = 0
    BY <1>1, <2>1 DEF LastBuffer, CurrentBuffer, OtherBuffer
  <2>2. CASE buffer_number = -1
    BY <1>1, <2>2 DEF LastBuffer, CurrentBuffer, OtherBuffer
  <2> QED  BY <1>5, <2>1, <2>2
<1>8. NextFrame' = NextFrame  BY <1>1, <1>6 DEF NextFrame
<1>9. Queue' /\ Logged'  BY <1>1, <1>6, <1>7, <1>8 DEF HInv, Queue, Logged
<1>10. Drained'  BY <1>1, <1>2 DEF HInv, Drained
<1>11. Counted'
  <2>1. packet_count' <= count_threshold  BY <1>1, <1>4
  <2>2. packet_count' # count_threshold => packet_count' < count_threshold
    BY <1>1, <1>4
  <2>3. \E n \in Targets : packet_count' <= n  BY <1>4, <2>1
  <2>4. run >= 1 /\ count_threshold > 0  BY <1>2 DEF HInv, Counted
  <2> QED  BY <1>1, <1>3, <1>4, <2>2, <2>3, <2>4 DEF Counted, Targets
<1>12. Host!Take
  BY <1>1, <1>2, <1>3, <1>4 DEF Host!Take
<1> QED  BY <1>9, <1>10, <1>11, <1>12 DEF HInv, HostStep, Host!Next

(* The start of an observation finds the queue empty.                      *)
LEMMA StartShows ==
  ASSUME IInv, HInv, ResetDma \/ ReleaseFormatter \/ ClearFirst \/ ArmFirst
  PROVE  HInv' /\ HostStep
<1>1. /\ pc \in {"dma_reset", "release", "clear_0", "first_rcv"}
      /\ pc' \in {"release", "clear_0", "first_rcv", "poll"}
      /\ UNCHANGED <<start_obs_flag, buffer_number, packet_count, count_threshold, run, txq,
                      sent>>
  BY DEF ResetDma, ReleaseFormatter, ClearFirst, ArmFirst, Goto, consoleVars, loopVars, hardware,
         txVars, historyVars
<1>2. txq = <<>>  BY <1>1 DEF HInv, Drained
<1>3. NextFrame' = NextFrame  BY <1>1 DEF NextFrame, LastSent
<1>4. HInv'  BY <1>1, <1>2, <1>3 DEF HInv, Queue, Drained, Counted, Logged
<1> QED  BY <1>1, <1>4, Unseen

(* The console sets the frames to ask for, or starts.                      *)
LEMMA ConsoleShows == ASSUME IInv, HInv, Console PROVE HInv' /\ HostStep
<1>1. pc = "console" /\ ~start_obs_flag
  BY DEF Console, TypeOther, TypeSetPeriod, TypeSeconds, StartObservation, Goto, IInv,
         Control, Types
<1>2. UNCHANGED <<txq, sent, mem, dma, dst>>
  BY DEF Console, TypeOther, TypeSetPeriod, TypeSeconds, StartObservation, hardware, dmaVars,
         txVars
<1>3. CASE TypeOther \/ TypeSetPeriod
  <2>1. /\ pc' = "poll"
        /\ UNCHANGED <<start_obs_flag, buffer_number, packet_count, count_threshold, run>>
    BY <1>3 DEF TypeOther, TypeSetPeriod, Goto, consoleVars, loopVars, historyVars
  <2>2. LastSent' = LastSent /\ LastBuffer' = LastBuffer /\ NextFrame' = NextFrame
    BY <1>1, <2>1, <1>2 DEF LastSent, LastBuffer, NextFrame, OtherBuffer
  <2>3. HInv'
    BY <1>1, <1>2, <2>1, <2>2 DEF HInv, Queue, Drained, Counted, Logged
  <2>4. HostStep  BY <1>1, <1>2, <2>1, Unseen
  <2> QED  BY <2>3, <2>4
<1>4. ASSUME NEW s \in Seconds, TypeSeconds(s) PROVE HInv' /\ HostStep
  <2> DEFINE n == (IF s = 0 THEN 1 ELSE s) * FramesPerSecond
  <2>1. /\ pc' = "poll" /\ count_threshold' = n
        /\ UNCHANGED <<start_obs_flag, buffer_number, packet_count, run>>
    BY <1>4 DEF TypeSeconds, Goto, loopVars, historyVars
  <2>2. LastSent' = LastSent /\ LastBuffer' = LastBuffer /\ NextFrame' = NextFrame
    BY <1>1, <2>1, <1>2 DEF LastSent, LastBuffer, NextFrame, OtherBuffer
  <2>3. n \in Targets  BY DEF Targets
  <2>4. n > 0
    <3>1. \A a, b \in Nat : a > 0 /\ b > 0 => a * b > 0  OBVIOUS
    <3>2. s \in Nat  BY Sizes
    <3>3. (IF s = 0 THEN 1 ELSE s) \in Nat /\ (IF s = 0 THEN 1 ELSE s) > 0  BY <3>2
    <3> QED  BY <3>1, <3>3, Sizes
  <2> HIDE DEF n
  <2>5. Counted'  BY <1>1, <2>1, <2>3, <2>4 DEF HInv, Counted, Targets
  <2>6. Queue' /\ Drained' /\ Logged'
    BY <1>1, <1>2, <2>1, <2>2 DEF HInv, Queue, Drained, Logged
  <2>7. Host!SetTarget(n)
    BY <1>1, <1>2, <2>1 DEF Host!SetTarget
  <2>8. Host!Next  BY <2>3, <2>7 DEF Host!Next, Targets
  <2> QED  BY <2>5, <2>6, <2>8 DEF HInv, HostStep
<1>5. CASE StartObservation
  <2>1. /\ pc' = "dma_reset" /\ txq = <<>> /\ run' = run + 1 /\ start_obs_flag'
        /\ packet_count' = 0 /\ start_obs_flag' = TRUE /\ UNCHANGED count_threshold
    BY <1>5 DEF StartObservation, Goto, consoleVars
  <2>2. NextFrame' = 0  BY <1>2, <2>1 DEF NextFrame, LastSent
  <2>3. Queue' /\ Drained'  BY <1>2, <2>1 DEF Queue, Drained
  <2>4. Counted'
    <3>1. count_threshold \in Targets /\ count_threshold > 0  BY DEF HInv, Counted
    <3>2. count_threshold \in Nat  BY <3>1, TargetTypes
    <3>3. run' >= 1  BY <2>1, HostTypes
    <3>4. packet_count' < count_threshold'  BY <2>1, <3>1, <3>2
    <3>5. count_threshold' \in Targets /\ count_threshold' > 0  BY <2>1, <3>1
    <3>6. \E n \in Targets : packet_count' <= n  BY <2>1, <3>1, <3>2
    <3> QED  BY <2>1, <3>3, <3>4, <3>5, <3>6 DEF Counted, Targets
  <2>5. Logged'
    <3> DEFINE last == FrameId(sent[Len(sent)])
    <3>1. ASSUME sent # <<>> PROVE Host!Before(last, <<run + 1, 0>>)
      <4>1. last \in Int \X Int /\ Host!Before(last, <<run, NextFrame>>)
        BY <3>1 DEF HInv, Logged
      <4>2. run \in Int /\ NextFrame \in Int  BY HostTypes
      <4> HIDE DEF last
      <4> QED  BY <4>1, <4>2, BeforeNext, Zenon
    <3> QED  BY <1>2, <2>1, <2>2, <3>1 DEF HInv, Logged
  <2>6. Host!Start
    BY <1>1, <1>2, <2>1 DEF Host!Start
  <2> QED  BY <2>3, <2>4, <2>5, <2>6 DEF HInv, HostStep, Host!Next
<1> QED  BY <1>3, <1>4, <1>5 DEF Console

----------------------------------------------------------------------------
(* The set-up has sent nothing.                                            *)
LEMMA InitHost == Init => HInv /\ Host!Init
<1> SUFFICES ASSUME Init PROVE HInv /\ Host!Init
  OBVIOUS
<1>1. count_threshold \in Targets /\ count_threshold > 0
  <2>1. FramesPerSecond = 1 * FramesPerSecond  BY Sizes
  <2> QED  BY <2>1, Sizes DEF Init, Targets
<1>2. Counted
  <2>1. count_threshold \in Nat  BY <1>1, TargetTypes
  <2> QED  BY <1>1, <2>1 DEF Init, Counted
<1>3. Queue /\ Drained /\ Logged  BY DEF Init, Queue, Drained, Logged
<1>4. Host!Init  BY <1>1 DEF Init, Host!Init, Targets
<1> QED  BY <1>2, <1>3, <1>4 DEF HInv

(* Every step keeps the invariant and is one of the host's or none.        *)
LEMMA NextHost == IInv /\ HInv /\ [Next]_vars => HInv' /\ HostStep
<1> SUFFICES ASSUME IInv, HInv, [Next]_vars PROVE HInv' /\ HostStep
  OBVIOUS
<1>1. CASE MainLoop
  BY <1>1, PollShows, SendShows, ArmOtherShows, CountTakes, StartShows DEF MainLoop
<1>2. CASE Console  BY <1>2, ConsoleShows
<1>3. CASE Deliver \/ Move \/ Fault \/ ResetDone \/ s2mm_isr  BY <1>3, HardwareKeeps
<1>4. CASE Transmit  BY <1>4, TransmitEmits
<1>5. CASE UNCHANGED vars
  <2>1. UNCHANGED <<pc, start_obs_flag, buffer_number, packet_count, count_threshold, run, txq,
                    sent, mem, dma, dst, irq, g_s2mm_done>>
    BY <1>5 DEF vars, consoleVars, loopVars, flagVars, dmaVars, txVars, historyVars
  <2>2. LastSent' = LastSent /\ LastBuffer' = LastBuffer /\ NextFrame' = NextFrame
    BY <2>1 DEF LastSent, LastBuffer, NextFrame, CurrentBuffer, OtherBuffer
  <2>3. HInv'  BY <2>1, <2>2 DEF HInv, Queue, Drained, Counted, Logged
  <2>4. HostStep  BY <2>1, Unseen
  <2> QED  BY <2>3, <2>4
<1> QED  BY <1>1, <1>2, <1>3, <1>4, <1>5 DEF Next

(* The back end implements what the host was promised: whole frames in     *)
(* order, each at most once and none before it was acquired, exactly as    *)
(* many as asked for unless the DMA fails.                                 *)
THEOREM Implements == Spec => HostSpec
<1>1. Init => HInv /\ Host!Init  BY InitHost
<1>2. IInv /\ HInv /\ [Next]_vars => HInv' /\ [Host!Next]_(Host!vars)
  BY NextHost DEF HostStep
<1> QED  BY <1>1, <1>2, Invariance, PTL DEF Spec, HostSpec, Host!Spec
=============================================================================
