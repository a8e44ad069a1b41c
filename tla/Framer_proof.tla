---------------------------- MODULE Framer_proof ----------------------------
(***************************************************************************)
(* Proofs about the framer and the header fields wired to its ports:       *)
(* VdifLogic for every frame length above the header, every width of the   *)
(* two live fields and every set of samples, and VdifHeader for any number *)
(* of calls of the sixteen setters.                                        *)
(*                                                                         *)
(* TypeOK alone is not inductive: that word_cnt stays below the frame      *)
(* length needs nothing else, but that the FSM leaves the header in time   *)
(* needs Aligned, which is inductive together with TypeOK. CopyIsStamped   *)
(* needs Stored: what a setter's second write finds on the port, and that  *)
(* it touches no neighbour of its field.                                   *)
(***************************************************************************)
EXTENDS VdifLogic, VdifHeader, TLAPS

IInv == TypeOK /\ Aligned

(* The numbers the assumptions leave to the provers.                       *)
LEMMA Lengths ==
  /\ frame_length_words \in Nat
  /\ HeaderWords = 8
  /\ HeaderWords < frame_length_words
BY FrameLengthAssumption DEF frame_length_words, HeaderWords

(* The initial states satisfy the invariant.                               *)
LEMMA InitIInv == Init => IInv
<1> SUFFICES ASSUME Init PROVE TypeOK /\ Aligned
  BY DEF IInv
<1>1. InputsOK
  BY DEF Init
<1>2. frame_number_clr \in BOOLEAN
  BY DEF Init
<1>3. word_cnt \in 0 .. frame_length_words - 1 /\ Aligned
  BY Lengths DEF Init, Aligned
<1>4. data_frame_number_u \in 0 .. NumberMod - 1
  BY ModAssumption DEF Init
<1>5. state \in {"idle_state", "transmit_header", "transmit_payload"}
  BY DEF Init
<1>6. QED BY <1>1, <1>2, <1>3, <1>4, <1>5 DEF TypeOK

(* One clock edge keeps the FSM and the word counter aligned.              *)
LEMMA EdgeAligned ==
  ASSUME IInv, Edge
  PROVE  /\ state' \in {"idle_state", "transmit_header", "transmit_payload"}
         /\ word_cnt' \in 0 .. frame_length_words - 1
         /\ Aligned'
<1> USE Lengths DEF IInv, TypeOK, Aligned, InputsOK
<1>1. CASE rst
  BY <1>1 DEF Edge, StateProcess, PayloadCounter
<1>2. CASE ~rst /\ state = "idle_state"
  BY <1>2 DEF Edge, StateProcess, PayloadCounter, frame_end, transfer
<1>3. CASE ~rst /\ state = "transmit_header"
  <2>1. ~frame_end \/ word_cnt # HeaderWords - 1
    BY <1>3 DEF frame_end
  <2>2. CASE header_end
    BY <1>3, <2>2 DEF Edge, StateProcess, PayloadCounter, header_end, frame_end
  <2>3. CASE ~header_end
    BY <1>3, <2>3
    DEF Edge, StateProcess, PayloadCounter, header_end, frame_end
  <2>4. QED BY <2>2, <2>3
<1>4. CASE ~rst /\ state = "transmit_payload"
  BY <1>4 DEF Edge, StateProcess, PayloadCounter, frame_end
<1>5. QED BY <1>1, <1>2, <1>3, <1>4

(* One clock edge keeps the two registers of the frame number in range.    *)
LEMMA EdgeNumber ==
  ASSUME IInv, Edge
  PROVE  /\ frame_number_clr' \in BOOLEAN
         /\ data_frame_number_u' \in 0 .. NumberMod - 1
<1>1. frame_number_clr' \in BOOLEAN
  BY DEF Edge, FrameNumberClr
<1>2. data_frame_number_u' \in 0 .. NumberMod - 1
  BY ModAssumption DEF IInv, TypeOK, Edge, FrameCounter
<1>3. QED BY <1>1, <1>2

LEMMA NextIInv == IInv /\ [Next]_vars => IInv'
<1> SUFFICES ASSUME IInv, [Next]_vars PROVE IInv'
  OBVIOUS
<1>1. CASE Next
  <2>1. InputsOK'
    BY <1>1 DEF Next, NewInputs, InputsOK
  <2>2. QED BY <1>1, <2>1, EdgeAligned, EdgeNumber DEF Next, IInv, TypeOK
<1>2. CASE UNCHANGED vars
  BY <1>2 DEF IInv, TypeOK, Aligned, InputsOK, vars, inputs, registers
<1>3. QED BY <1>1, <1>2 DEF Next

(* Every reachable state is well typed and has the FSM and the counter     *)
(* aligned.                                                                *)
THEOREM Invariance == Spec => []IInv
BY InitIInv, NextIInv, PTL DEF Spec

(* Every register keeps to its width: word_cnt never passes the last word  *)
(* of a frame (vdif_logic.vhd lines 194-208).                              *)
THEOREM TypeCorrect == Spec => []TypeOK
<1>1. IInv => TypeOK
  BY DEF IInv
<1>2. QED BY <1>1, Invariance, PTL

(* The FSM is in the header exactly while the counter is below eight.      *)
THEOREM AlwaysAligned == Spec => []Aligned
<1>1. IInv => Aligned
  BY DEF IInv
<1>2. QED BY <1>1, Invariance, PTL

----------------------------------------------------------------------------
(* The implementation of FrameStream                                       *)

(* What an accepted word is, by its position in the frame.                 *)
LEMMA WordAtPosition ==
  ASSUME IInv, transfer
  PROVE  /\ M_AXIS_TDATA.kind
              = IF state = "idle_state" /\ rst THEN "zero"
                ELSE IF word_cnt < HeaderWords THEN "header" ELSE "payload"
         /\ ~(state = "idle_state" /\ rst) => M_AXIS_TDATA.index = word_cnt
         /\ ~(state = "idle_state" /\ rst)
<1> USE Lengths DEF IInv, TypeOK, Aligned, InputsOK
<1>1. CASE state = "idle_state"
  BY <1>1 DEF transfer, M_AXIS_TVALID, M_AXIS_TDATA, HeaderWord
<1>2. CASE state = "transmit_header"
  BY <1>2 DEF M_AXIS_TDATA, HeaderWord
<1>3. CASE state = "transmit_payload"
  BY <1>3 DEF M_AXIS_TDATA
<1>4. QED BY <1>1, <1>2, <1>3

LEMMA InitStream == Init => Stream!Init
BY DEF Init, Stream!Init, Nothing

(* A clock edge is one step of the abstract stream.                        *)
LEMMA EdgeStream ==
  ASSUME IInv, Edge
  PROVE  Stream!Next
<1> USE Lengths
<1>1. CASE transfer
  <2>1. /\ beat'.kind = IF word_cnt < HeaderWords THEN "header" ELSE "payload"
        /\ beat'.index = word_cnt
        /\ beat'.last = (word_cnt = frame_length_words - 1)
    BY <1>1, WordAtPosition DEF Edge, Observe, frame_end
  <2>2. CASE rst
    <3>1. word_cnt' = 0
      BY <2>2 DEF Edge, PayloadCounter
    <3>2. Stream!Accept(0)
      BY <2>1, <3>1 DEF Stream!Accept
    <3>3. QED BY <3>2 DEF Stream!Next, Stream!Abandon
  <2>3. CASE ~rst
    <3>1. word_cnt' = IF word_cnt = frame_length_words - 1
                      THEN 0 ELSE word_cnt + 1
      BY <1>1, <2>3 DEF Edge, PayloadCounter, frame_end
    <3>2. Stream!Deliver
      BY <2>1, <3>1 DEF Stream!Deliver, Stream!Accept
    <3>3. QED BY <3>2 DEF Stream!Next
  <2>4. QED BY <2>2, <2>3
<1>2. CASE ~transfer
  <2>1. beat'.kind = "none" /\ beat'.index = 0 /\ beat'.last = FALSE
    BY <1>2 DEF Edge, Observe, Nothing
  <2>2. word_cnt' = 0 \/ word_cnt' = word_cnt
    BY <1>2 DEF Edge, PayloadCounter, frame_end
  <2>3. QED BY <2>1, <2>2 DEF Stream!Next, Stream!Quiet, Stream!Abandon
<1>3. QED BY <1>1, <1>2

(* The formatter implements the frame stream: whole frames, header first,  *)
(* TLAST on the last word only, under any stalls and resets.               *)
THEOREM Implements == Spec => StreamSpec
<1>1. IInv /\ [Next]_vars => [Stream!Next]_(Stream!vars)
  <2> SUFFICES ASSUME IInv, [Next]_vars
               PROVE  [Stream!Next]_(Stream!vars)
    OBVIOUS
  <2>1. CASE Next
    BY <2>1, EdgeStream DEF Next
  <2>2. CASE UNCHANGED vars
    BY <2>2 DEF vars, registers, Stream!vars
  <2>3. QED BY <2>1, <2>2
<1>2. QED
  BY <1>1, InitStream, Invariance, PTL DEF Spec, StreamSpec, Stream!Spec

----------------------------------------------------------------------------
(* No word of the FIFO is lost behind a header or sent twice: the FIFO is  *)
(* popped at exactly the edges where the sink accepts a payload word.      *)
THEOREM PopsExact == Spec => PopsArePayload
<1>1. IInv /\ [Next]_vars =>
        [(S_AXIS_TVALID /\ S_AXIS_TREADY) <=> (beat'.kind = "payload")]_vars
  <2> SUFFICES ASSUME IInv, Next
               PROVE  (S_AXIS_TVALID /\ S_AXIS_TREADY)
                        <=> (beat'.kind = "payload")
    OBVIOUS
  <2> USE Lengths
  <2>1. CASE transfer
    <3>1. beat'.kind = IF word_cnt < HeaderWords THEN "header" ELSE "payload"
      BY <2>1, WordAtPosition DEF Next, Edge, Observe
    <3>2. state = "transmit_payload" <=> word_cnt >= HeaderWords
      BY DEF IInv, TypeOK, Aligned
    <3>3. S_AXIS_TVALID /\ S_AXIS_TREADY <=> state = "transmit_payload"
      BY <2>1 DEF transfer, M_AXIS_TVALID, S_AXIS_TREADY
    <3>4. word_cnt \in Nat
      BY DEF IInv, TypeOK
    <3>5. QED BY <3>1, <3>2, <3>3, <3>4
  <2>2. CASE ~transfer
    <3>1. beat'.kind = "none"
      BY <2>2 DEF Next, Edge, Observe, Nothing
    <3>2. ~(S_AXIS_TVALID /\ S_AXIS_TREADY)
      BY <2>2 DEF transfer, M_AXIS_TVALID, S_AXIS_TREADY
    <3>3. QED BY <3>1, <3>2
  <2>3. QED BY <2>1, <2>2
<1>2. QED BY <1>1, Invariance, PTL DEF Spec, PopsArePayload

----------------------------------------------------------------------------
(* The tables of the header fields                                         *)

Low(n) == Slices[n].low
High(n) == Slices[n].high
Register(n) == Slices[n].reg
Slice(n) == Low(n) .. High(n)

(* A setter works on the bits its field's port is wired to.                *)
Agrees(n, s) ==
  /\ s.reg = Register(n) /\ s.mask = Slice(n) /\ s.shift = Low(n)
  /\ Register(n) \in 1 .. 8
  /\ Low(n) \in Nat /\ High(n) \in Nat /\ Low(n) <= High(n) /\ High(n) <= 31

LEMMA FieldsOfWords ==
  /\ DOMAIN Word0 = {"invalid_data", "legacy_mode"}
  /\ DOMAIN Word1 = {"unassigned", "ref_epoch"}
  /\ DOMAIN Word2 = {"vdif_version_number", "log2chns", "data_frame_length"}
  /\ DOMAIN Word3 = {"data_type", "bitspersample_minus_1", "thread_id", "station_id"}
  /\ DOMAIN Word4 = {"edv", "word4_ed"}
  /\ DOMAIN Word5 = {"word5_ed"}
  /\ DOMAIN Word6 = {"word6_ed"}
  /\ DOMAIN Word7 = {"word7_ed"}
BY DEF Word0, Word1, Word2, Word3, Word4, Word5, Word6, Word7

LEMMA Wiring ==
  /\ Slices["invalid_data"] = [reg |-> 1, low |-> 31, high |-> 31]
  /\ Slices["legacy_mode"] = [reg |-> 1, low |-> 30, high |-> 30]
  /\ Slices["unassigned"] = [reg |-> 2, low |-> 30, high |-> 31]
  /\ Slices["ref_epoch"] = [reg |-> 2, low |-> 24, high |-> 29]
  /\ Slices["vdif_version_number"] = [reg |-> 3, low |-> 29, high |-> 31]
  /\ Slices["log2chns"] = [reg |-> 3, low |-> 24, high |-> 28]
  /\ Slices["data_frame_length"] = [reg |-> 3, low |-> 0, high |-> 23]
  /\ Slices["data_type"] = [reg |-> 4, low |-> 31, high |-> 31]
  /\ Slices["bitspersample_minus_1"] = [reg |-> 4, low |-> 26, high |-> 30]
  /\ Slices["thread_id"] = [reg |-> 4, low |-> 16, high |-> 25]
  /\ Slices["station_id"] = [reg |-> 4, low |-> 0, high |-> 15]
  /\ Slices["edv"] = [reg |-> 5, low |-> 24, high |-> 31]
  /\ Slices["word4_ed"] = [reg |-> 5, low |-> 0, high |-> 23]
  /\ Slices["word5_ed"] = [reg |-> 6, low |-> 0, high |-> 31]
  /\ Slices["word6_ed"] = [reg |-> 7, low |-> 0, high |-> 31]
  /\ Slices["word7_ed"] = [reg |-> 8, low |-> 0, high |-> 31]
BY DEF Slices

LEMMA Word0Agrees == \A n \in DOMAIN Word0 : Agrees(n, Word0[n])
<1>1. /\ Word0["invalid_data"] = [reg |-> 1, mask |-> 31 .. 31, shift |-> 31]
      /\ Word0["legacy_mode"] = [reg |-> 1, mask |-> 30 .. 30, shift |-> 30]
  BY DEF Word0
<1>2. Agrees("invalid_data", Word0["invalid_data"])
  BY <1>1, Wiring DEF Agrees, Register, Slice, Low, High
<1>3. Agrees("legacy_mode", Word0["legacy_mode"])
  BY <1>1, Wiring DEF Agrees, Register, Slice, Low, High
<1> QED BY <1>2, <1>3, FieldsOfWords

LEMMA Word1Agrees == \A n \in DOMAIN Word1 : Agrees(n, Word1[n])
<1>1. /\ Word1["unassigned"] = [reg |-> 2, mask |-> 30 .. 31, shift |-> 30]
      /\ Word1["ref_epoch"] = [reg |-> 2, mask |-> 24 .. 29, shift |-> 24]
  BY DEF Word1
<1>2. Agrees("unassigned", Word1["unassigned"])
  BY <1>1, Wiring DEF Agrees, Register, Slice, Low, High
<1>3. Agrees("ref_epoch", Word1["ref_epoch"])
  BY <1>1, Wiring DEF Agrees, Register, Slice, Low, High
<1> QED BY <1>2, <1>3, FieldsOfWords

LEMMA Word2Agrees == \A n \in DOMAIN Word2 : Agrees(n, Word2[n])
<1>1. /\ Word2["vdif_version_number"] = [reg |-> 3, mask |-> 29 .. 31, shift |-> 29]
      /\ Word2["log2chns"] = [reg |-> 3, mask |-> 24 .. 28, shift |-> 24]
      /\ Word2["data_frame_length"] = [reg |-> 3, mask |-> 0 .. 23, shift |-> 0]
  BY DEF Word2
<1>2. Agrees("vdif_version_number", Word2["vdif_version_number"])
  BY <1>1, Wiring DEF Agrees, Register, Slice, Low, High
<1>3. Agrees("log2chns", Word2["log2chns"])
  BY <1>1, Wiring DEF Agrees, Register, Slice, Low, High
<1>4. Agrees("data_frame_length", Word2["data_frame_length"])
  BY <1>1, Wiring DEF Agrees, Register, Slice, Low, High
<1> QED BY <1>2, <1>3, <1>4, FieldsOfWords

LEMMA Word3Agrees == \A n \in DOMAIN Word3 : Agrees(n, Word3[n])
<1>1. /\ Word3["data_type"] = [reg |-> 4, mask |-> 31 .. 31, shift |-> 31]
      /\ Word3["bitspersample_minus_1"] = [reg |-> 4, mask |-> 26 .. 30, shift |-> 26]
      /\ Word3["thread_id"] = [reg |-> 4, mask |-> 16 .. 25, shift |-> 16]
      /\ Word3["station_id"] = [reg |-> 4, mask |-> 0 .. 15, shift |-> 0]
  BY DEF Word3
<1>2. Agrees("data_type", Word3["data_type"])
  BY <1>1, Wiring DEF Agrees, Register, Slice, Low, High
<1>3. Agrees("bitspersample_minus_1", Word3["bitspersample_minus_1"])
  BY <1>1, Wiring DEF Agrees, Register, Slice, Low, High
<1>4. Agrees("thread_id", Word3["thread_id"])
  BY <1>1, Wiring DEF Agrees, Register, Slice, Low, High
<1>5. Agrees("station_id", Word3["station_id"])
  BY <1>1, Wiring DEF Agrees, Register, Slice, Low, High
<1> QED BY <1>2, <1>3, <1>4, <1>5, FieldsOfWords

LEMMA Word4Agrees == \A n \in DOMAIN Word4 : Agrees(n, Word4[n])
<1>1. /\ Word4["edv"] = [reg |-> 5, mask |-> 24 .. 31, shift |-> 24]
      /\ Word4["word4_ed"] = [reg |-> 5, mask |-> 0 .. 23, shift |-> 0]
  BY DEF Word4
<1>2. Agrees("edv", Word4["edv"])
  BY <1>1, Wiring DEF Agrees, Register, Slice, Low, High
<1>3. Agrees("word4_ed", Word4["word4_ed"])
  BY <1>1, Wiring DEF Agrees, Register, Slice, Low, High
<1> QED BY <1>2, <1>3, FieldsOfWords

LEMMA Word5Agrees == \A n \in DOMAIN Word5 : Agrees(n, Word5[n])
<1>1. Word5["word5_ed"] = [reg |-> 6, mask |-> 0 .. 31, shift |-> 0]
  BY DEF Word5, Word
<1>2. Agrees("word5_ed", Word5["word5_ed"])
  BY <1>1, Wiring DEF Agrees, Register, Slice, Low, High
<1> QED BY <1>2, FieldsOfWords

LEMMA Word6Agrees == \A n \in DOMAIN Word6 : Agrees(n, Word6[n])
<1>1. Word6["word6_ed"] = [reg |-> 7, mask |-> 0 .. 31, shift |-> 0]
  BY DEF Word6, Word
<1>2. Agrees("word6_ed", Word6["word6_ed"])
  BY <1>1, Wiring DEF Agrees, Register, Slice, Low, High
<1> QED BY <1>2, FieldsOfWords

LEMMA Word7Agrees == \A n \in DOMAIN Word7 : Agrees(n, Word7[n])
<1>1. Word7["word7_ed"] = [reg |-> 8, mask |-> 0 .. 31, shift |-> 0]
  BY DEF Word7, Word
<1>2. Agrees("word7_ed", Word7["word7_ed"])
  BY <1>1, Wiring DEF Agrees, Register, Slice, Low, High
<1> QED BY <1>2, FieldsOfWords

(* A field belongs to one word, whose table gives its setter.              *)
LEMMA SettersAgree == \A n \in Names : Agrees(n, Setter(n))
<1> SUFFICES ASSUME NEW n \in Names PROVE Agrees(n, Setter(n))
  OBVIOUS
<1>1. PICK w \in Setters : n \in DOMAIN w
  BY DEF Names
<1>2. \A v \in Setters : n \in DOMAIN v => v = w
  BY <1>1, FieldsOfWords DEF Setters
<1>3. Setter(n) = w[n]
  BY <1>1, <1>2 DEF Setter
<1> QED BY <1>1, <1>3, Word0Agrees, Word1Agrees, Word2Agrees, Word3Agrees,
           Word4Agrees, Word5Agrees, Word6Agrees, Word7Agrees DEF Setters

LEMMA AllNames == Names =
  {"invalid_data", "legacy_mode",
   "unassigned", "ref_epoch",
   "vdif_version_number", "log2chns", "data_frame_length",
   "data_type", "bitspersample_minus_1", "thread_id", "station_id",
   "edv", "word4_ed",
   "word5_ed",
   "word6_ed",
   "word7_ed"}
BY FieldsOfWords DEF Names, Setters

(* No two fields share a bit.                                              *)
LEMMA Disjoint ==
  \A n, m \in Names : n # m /\ Register(n) = Register(m) => Slice(n) \cap Slice(m) = {}
<1> SUFFICES ASSUME NEW n \in Names, NEW m \in Names, n # m, Register(n) = Register(m)
             PROVE  High(n) < Low(m) \/ High(m) < Low(n)
  BY SettersAgree DEF Agrees, Slice
<1> QED BY AllNames, Wiring DEF Register, Low, High

LEMMA Whole == \A n \in WholeWord : n \in Names /\ Low(n) = 0 /\ High(n) = 31
BY AllNames, FieldsOfWords, Wiring DEF WholeWord, Low, High
----------------------------------------------------------------------------
(* What a write leaves on the ports                                        *)

Top(n) == High(n) - Low(n)

(* The register of field n is written: on its slice stands v, and the bits *)
(* beside it are those that were there.                                    *)
LEMMA Written ==
  ASSUME NEW n \in Names, NEW v \in SUBSET (0 .. Top(n)), NEW X \in SUBSET Word,
         slv_reg \in [1 .. 8 -> SUBSET Word],
         slv_reg' = [slv_reg EXCEPT ![Register(n)] = X],
         X \cap Slice(n) = Shifted(v, Low(n)),
         X \ Slice(n) = slv_reg[Register(n)] \ Slice(n)
  PROVE  /\ slv_reg' \in [1 .. 8 -> SUBSET Word]
         /\ \A m \in Names : Port(m)' = IF m = n THEN v ELSE Port(m)
<1>1. /\ Register(n) \in 1 .. 8 /\ Low(n) \in Nat /\ High(n) \in Nat
      /\ Low(n) <= High(n) /\ High(n) <= 31
  BY SettersAgree DEF Agrees
<1>2. slv_reg' \in [1 .. 8 -> SUBSET Word] /\ slv_reg'[Register(n)] = X
  BY <1>1
<1>3. ASSUME NEW m \in Names
      PROVE  Port(m)' = {b - Low(m) : b \in slv_reg'[Register(m)] \cap Slice(m)}
  BY DEF Port, Low, High, Register, Slice
<1>4. ASSUME NEW m \in Names
      PROVE  Port(m) = {b - Low(m) : b \in slv_reg[Register(m)] \cap Slice(m)}
  BY DEF Port, Low, High, Register, Slice
<1>5. Port(n)' = v
  <2>1. Port(n)' = {b - Low(n) : b \in Shifted(v, Low(n))}
    BY <1>2, <1>3
  <2>2. ASSUME NEW x \in v
        PROVE  x + Low(n) \in Shifted(v, Low(n)) /\ (x + Low(n)) - Low(n) = x
    BY <1>1 DEF Shifted, Top, Word
  <2>3. ASSUME NEW b \in Shifted(v, Low(n)) PROVE b - Low(n) \in v
    <3>1. PICK x \in v : b = x + Low(n)
      BY <2>3 DEF Shifted
    <3>2. x \in 0 .. Top(n) /\ Top(n) \in Int
      BY <1>1 DEF Top
    <3>3. b - Low(n) = x
      BY <1>1, <3>1, <3>2
    <3> QED BY <3>3
  <2>4. ASSUME NEW x \in v PROVE x \in Port(n)'
    BY <2>1, <2>2
  <2>5. ASSUME NEW x \in Port(n)' PROVE x \in v
    BY <2>1, <2>3
  <2> QED BY <2>4, <2>5
<1>6. ASSUME NEW m \in Names, m # n PROVE Port(m)' = Port(m)
  <2>1. /\ Register(m) \in 1 .. 8
        /\ Register(m) = Register(n) => Slice(m) \cap Slice(n) = {}
    BY <1>6, SettersAgree, Disjoint DEF Agrees
  <2>2. slv_reg'[Register(m)] \cap Slice(m) = slv_reg[Register(m)] \cap Slice(m)
    <3>1. CASE Register(m) = Register(n)
      <4>1. \A b \in Slice(m) : b \in X <=> b \in slv_reg[Register(n)]
        BY <2>1, <3>1
      <4> QED BY <1>2, <3>1, <4>1
    <3>2. CASE Register(m) # Register(n)
      <4>1. slv_reg'[Register(m)] = slv_reg[Register(m)]
        BY <1>1, <2>1, <3>2
      <4> QED BY <4>1
    <3> QED BY <3>1, <3>2
  <2> QED BY <1>3, <1>4, <2>2
<1> QED BY <1>2, <1>5, <1>6

----------------------------------------------------------------------------
(* The inductive invariant                                                 *)

(* The field between its two writes is empty at its port, and the driver's *)
(* copy is ahead of it; the others agree with their copies.                *)
Stored ==
  /\ slv_reg \in [1 .. 8 -> SUBSET Word]
  /\ drv \in [Names -> SUBSET Word]
  /\ \A n \in Names : drv[n] \in SUBSET (0 .. Top(n))
  /\ \A n \in Names : call = None \/ n # call.name => drv[n] = Port(n)
  /\ call # None => /\ call.name \in Names /\ call.value = drv[call.name]
                    /\ Port(call.name) = {}

LEMMA ValuesFit == \A n \in Names : Values(n) \subseteq SUBSET (0 .. Top(n))
<1> SUFFICES ASSUME NEW n \in Names, NEW v \in Values(n) PROVE v \in SUBSET (0 .. Top(n))
  OBVIOUS
<1>1. Top(n) \in Nat
  BY SettersAgree DEF Agrees, Top
<1> QED BY <1>1 DEF Values, Top, Low, High

(* The first access of a setter empties the field.                         *)
LEMMA Cleared ==
  ASSUME Stored, NEW n \in Names, NEW v \in Values(n), ClearField(n, v)
  PROVE  /\ slv_reg' \in [1 .. 8 -> SUBSET Word]
         /\ \A m \in Names : Port(m)' = IF m = n THEN {} ELSE Port(m)
<1> DEFINE X == slv_reg[Register(n)] \ Slice(n)
<1>1. slv_reg' = [slv_reg EXCEPT ![Register(n)] = X]
  BY SettersAgree DEF ClearField, Agrees
<1>2. X \in SUBSET Word
  BY SettersAgree DEF Stored, Agrees
<1>3. Shifted({}, Low(n)) = {}
  BY DEF Shifted
<1>4. X \cap Slice(n) = Shifted({}, Low(n)) /\ X \ Slice(n) = slv_reg[Register(n)] \ Slice(n)
  BY <1>3
<1> QED BY <1>1, <1>2, <1>4, Written DEF Stored

(* The second one puts the value.                                          *)
LEMMA Put ==
  ASSUME Stored, PutField
  PROVE  /\ slv_reg' \in [1 .. 8 -> SUBSET Word]
         /\ \A m \in Names : Port(m)' = IF m = call.name THEN call.value ELSE Port(m)
<1> DEFINE n == call.name
           v == call.value
           X == slv_reg[Register(n)] \cup Shifted(v, Low(n))
<1>1. n \in Names /\ v \in SUBSET (0 .. Top(n)) /\ Port(n) = {}
  BY DEF Stored, PutField
<1>2. /\ Register(n) \in 1 .. 8 /\ Low(n) \in Nat /\ High(n) \in Nat
      /\ Low(n) <= High(n) /\ High(n) <= 31
  BY <1>1, SettersAgree DEF Agrees
<1>3. slv_reg' = [slv_reg EXCEPT ![Register(n)] = X]
  BY <1>1, SettersAgree DEF PutField, Agrees
<1>4. X \in SUBSET Word
  BY <1>2 DEF Stored, Shifted
<1>5. Shifted(v, Low(n)) \subseteq Slice(n)
  BY <1>1, <1>2 DEF Shifted, Slice, Top
<1>6. slv_reg[Register(n)] \cap Slice(n) = {}
  <2>1. Port(n) = {b - Low(n) : b \in slv_reg[Register(n)] \cap Slice(n)}
    BY DEF Port, Low, High, Register, Slice
  <2> QED BY <1>1, <2>1
<1>7. X \cap Slice(n) = Shifted(v, Low(n)) /\ X \ Slice(n) = slv_reg[Register(n)] \ Slice(n)
  BY <1>5, <1>6
<1> QED BY <1>1, <1>3, <1>4, <1>7, Written DEF Stored

(* A field that fills its register takes one write.                        *)
LEMMA PutWhole ==
  ASSUME Stored, NEW n \in Names, NEW v \in Values(n), PutWord(n, v)
  PROVE  /\ slv_reg' \in [1 .. 8 -> SUBSET Word]
         /\ \A m \in Names : Port(m)' = IF m = n THEN v ELSE Port(m)
<1> DEFINE X == Shifted(v, Low(n))
<1>1. Slice(n) = Word
  BY Whole DEF PutWord, Slice, Word
<1>2. slv_reg' = [slv_reg EXCEPT ![Register(n)] = X]
  BY SettersAgree DEF PutWord, Agrees
<1>3. X \in SUBSET Word /\ slv_reg[Register(n)] \in SUBSET Word
  BY SettersAgree DEF Shifted, Stored, Agrees
<1>4. X \cap Slice(n) = X /\ X \ Slice(n) = slv_reg[Register(n)] \ Slice(n)
  BY <1>1, <1>3
<1> QED BY <1>2, <1>3, <1>4, ValuesFit, Written DEF Stored

LEMMA InitStored == HeaderInit => Stored
<1> SUFFICES ASSUME HeaderInit PROVE Stored
  OBVIOUS
<1>1. \A n \in Names : Register(n) \in 1 .. 8
  BY SettersAgree DEF Agrees
<1>2. \A n \in Names : Port(n) = {}
  BY <1>1 DEF HeaderInit, Port, Register
<1> QED BY <1>2 DEF HeaderInit, Stored

LEMMA StepStored == Stored /\ [HeaderNext]_headerVars => Stored'
<1> SUFFICES ASSUME Stored, [HeaderNext]_headerVars PROVE Stored'
  OBVIOUS
<1>t. \A n \in Names : Top(n) \in 0 .. 31
  BY SettersAgree DEF Agrees, Top
<1>1. ASSUME PutField PROVE Stored'
  <2>1. call' = None /\ drv' = drv /\ call # None
    BY <1>1 DEF PutField
  <2> QED BY <1>1, <2>1, Put DEF Stored
<1>2. ASSUME NEW n \in Names, NEW v \in Values(n), ClearField(n, v) PROVE Stored'
  <2>1. /\ call = None /\ call' = [name |-> n, value |-> v]
        /\ drv' = [drv EXCEPT ![n] = v]
    BY <1>2 DEF ClearField, Called
  <2>2. v \in SUBSET (0 .. Top(n)) /\ v \in SUBSET Word
    BY <1>2, <1>t, ValuesFit DEF Word
  <2>3. call'.name = n /\ call'.value = v /\ call' # None
    <3>1. n # "none" /\ None.name = "none"
      BY AllNames DEF None
    <3> QED BY <2>1, <3>1
  <2>4. /\ slv_reg' \in [1 .. 8 -> SUBSET Word]
        /\ \A m \in Names : Port(m)' = IF m = n THEN {} ELSE Port(m)
    BY <1>2, Cleared
  <2>5. drv' \in [Names -> SUBSET Word] /\ drv'[n] = v
    BY <2>1, <2>2 DEF Stored
  <2>6. \A m \in Names : drv'[m] \in SUBSET (0 .. Top(m))
    BY <2>1, <2>2 DEF Stored
  <2>7. \A m \in Names : m # n => drv'[m] = Port(m)'
    BY <2>1, <2>4 DEF Stored
  <2>8. Port(call.name)' = {}
    BY <2>3, <2>4 DEF Port
  <2>9. call'.name \in Names /\ call'.value = drv'[call'.name]
    BY <2>3, <2>5
  <2>10. \A m \in Names : call' = None \/ m # call'.name => drv'[m] = Port(m)'
    BY <2>3, <2>7
  <2> QED BY <2>4, <2>5, <2>6, <2>8, <2>9, <2>10 DEF Stored
<1>3. ASSUME NEW n \in Names, NEW v \in Values(n), PutWord(n, v) PROVE Stored'
  <2>1. /\ call = None /\ call' = None
        /\ drv' = [drv EXCEPT ![n] = v]
    BY <1>3 DEF PutWord, Called
  <2>2. v \in SUBSET (0 .. Top(n)) /\ v \in SUBSET Word
    BY <1>3, <1>t, ValuesFit DEF Word
  <2> QED BY <1>3, <2>1, <2>2, PutWhole DEF Stored
<1>4. CASE UNCHANGED headerVars
  BY <1>4 DEF headerVars, Stored, Port
<1> QED BY <1>1, <1>2, <1>3, <1>4 DEF HeaderNext

(* The copies of vdif_formatter_drv.c that its getters answer from are     *)
(* what vdif_formatter_v1_0_S_AXI.vhd wires to the framer, for any number  *)
(* of calls in any order, of any of the sixteen setters.                   *)
THEOREM CopiesAreStamped == HeaderSpec => []CopyIsStamped
<1>1. Stored => CopyIsStamped
  BY DEF Stored, CopyIsStamped
<1> QED BY <1>1, InitStored, StepStored, PTL DEF HeaderSpec

----------------------------------------------------------------------------
(* The refinement                                                          *)

field == [n \in Names |-> Port(n)]

(* A setter of vdif_formatter_drv.c moves the port of its own field and no *)
(* other, through the empty value, although the register it rewrites holds *)
(* the neighbours too.                                                     *)
THEOREM HeaderImplements == HeaderSpec => FieldsSpec
<1>1. HeaderInit => Fields!Init
  <2>1. \A n \in Names : Register(n) \in 1 .. 8
    BY SettersAgree DEF Agrees
  <2>2. HeaderInit => \A n \in Names : Port(n) = {}
    BY <2>1 DEF HeaderInit, Port, Register
  <2> QED BY <2>2 DEF HeaderInit, Fields!Init, None, Fields!None
<1>2. ASSUME Stored, HeaderNext PROVE Fields!Next
  <2>1. ASSUME PutField PROVE Fields!Put
    <3>1. field' = [field EXCEPT ![call.name] = call.value]
      BY <1>2, <2>1, Put DEF field
    <3> QED BY <2>1, <3>1 DEF Fields!Put, PutField, field, None, Fields!None
  <2>2. ASSUME NEW n \in Names, NEW v \in Values(n), ClearField(n, v)
        PROVE  Fields!Clear(n)
    <3>1. field' = [field EXCEPT ![n] = {}]
      BY <1>2, <2>2, Cleared DEF field
    <3> QED BY <2>2, <3>1 DEF Fields!Clear, ClearField, Called, field, None, Fields!None
  <2>3. ASSUME NEW n \in Names, NEW v \in Values(n), PutWord(n, v)
        PROVE  Fields!Set(n)
    <3>1. field' = [field EXCEPT ![n] = v]
      BY <1>2, <2>3, PutWhole DEF field
    <3> QED BY <2>3, <3>1 DEF Fields!Set, PutWord, Called, field, None, Fields!None
  <2> QED BY <1>2, <2>1, <2>2, <2>3 DEF HeaderNext, Fields!Next
<1>3. UNCHANGED headerVars => UNCHANGED <<field, call>>
  BY DEF headerVars, field, Port
<1>4. Stored /\ [HeaderNext]_headerVars => [Fields!Next]_<<field, call>>
  BY <1>2, <1>3
<1> QED BY <1>1, <1>4, InitStored, StepStored, PTL
        DEF HeaderSpec, FieldsSpec, Fields!Spec, field
=============================================================================
