------------------------ MODULE AxiLiteSlave_proof ------------------------
(***************************************************************************)
(* Proofs about AxiLiteSlave for every number of registers, every width of *)
(* the address and of a word.                                              *)
(*                                                                         *)
(* What is inductive is the phase of each channel: an answer is pending    *)
(* exactly when the request has been accepted, and while a ready signal is *)
(* high the request is still on the bus with its address latched.          *)
(***************************************************************************)
EXTENDS AxiLiteSlave, TLAPS

WriteInv ==
  /\ axi_awready = axi_wready
  /\ axi_awready => aw = "valid" /\ w = "valid" /\ axi_awaddr = wreq.addr
  /\ axi_bvalid <=> aw = "sent"
  /\ axi_bvalid <=> w = "sent"
  /\ aw = "none" <=> w = "none"

ReadInv ==
  /\ axi_arready => ar = "valid" /\ axi_araddr = S_AXI_ARADDR
  /\ axi_rvalid <=> ar = "sent"

IInv == TypeOK /\ WriteInv /\ ReadInv

LEMMA Addresses0 == 0 \in Addresses /\ AddrMod - 1 \in Addresses
BY AddressAssumption DEF Addresses

LEMMA ZeroWordType == ZeroWord \in Words
BY BytesAssumption DEF ZeroWord, Words

LEMMA InitIInv == Init => IInv
<1> SUFFICES ASSUME Init PROVE IInv
  OBVIOUS
<1> USE Addresses0, ZeroWordType
<1>1. wreq \in WriteRequests
  BY DEF Init, NoRequest, WriteRequests
<1>2. slv_reg \in [Registers -> Words]
  BY DEF Init
<1>3. TypeOK
  BY <1>1, <1>2 DEF Init, TypeOK
<1>4. WriteInv /\ ReadInv
  BY DEF Init, WriteInv, ReadInv
<1>5. QED BY <1>3, <1>4 DEF IInv

(* The write channel: a register is written, and the answer raised, at the *)
(* edge that accepts address and data.                                     *)
LEMMA WriteStep ==
  ASSUME IInv, NEW bready \in BOOLEAN, NEW rready \in BOOLEAN,
         Edge(bready, rready), MasterWrite(bready)
  PROVE  /\ {aw', w'} \subseteq {"none", "todo", "valid", "sent"}
         /\ axi_awready' \in BOOLEAN /\ axi_wready' \in BOOLEAN
         /\ axi_bvalid' \in BOOLEAN
         /\ WriteInv'
<1> DEFINE acked == axi_bvalid /\ bready
<1>1. /\ axi_awready' = (S_AXI_ARESETN /\ ~axi_awready /\ offered)
      /\ axi_wready' = (S_AXI_ARESETN /\ ~axi_wready /\ offered)
      /\ axi_bvalid' = (S_AXI_ARESETN /\ ((slv_reg_wren /\ ~axi_bvalid)
                                            \/ (axi_bvalid /\ ~bready)))
  BY DEF Edge, AwReady, WReady, BValid
<1>2. /\ axi_awready' \in BOOLEAN /\ axi_wready' \in BOOLEAN
      /\ axi_bvalid' \in BOOLEAN
  BY <1>1
<1>3. axi_awready' = axi_wready'
  BY <1>1 DEF IInv, WriteInv
<1>4. slv_reg_wren <=> axi_awready
  BY DEF slv_reg_wren, IInv, WriteInv, S_AXI_AWVALID, S_AXI_WVALID
<1>5. CASE ~S_AXI_ARESETN \/ acked
  <2>1. aw' = "none" /\ w' = "none"
    <3>1. aw # "none" \/ ~acked
      BY DEF IInv, WriteInv
    <3>2. QED BY <1>5, <3>1 DEF MasterWrite
  <2>2. ~axi_bvalid' /\ ~axi_awready'
    BY <1>1, <1>4, <1>5
       DEF IInv, WriteInv, offered, S_AXI_AWVALID
  <2>3. QED BY <1>2, <1>3, <2>1, <2>2 DEF WriteInv
<1>6. CASE S_AXI_ARESETN /\ ~acked /\ aw = "none"
  <2>1. w = "none" /\ ~axi_bvalid /\ ~axi_awready /\ ~offered
    BY <1>6 DEF IInv, WriteInv, offered, S_AXI_AWVALID
  <2>2. ~axi_bvalid' /\ ~axi_awready'
    BY <1>1, <1>4, <2>1
  <2>3. \/ aw' = "none" /\ w' = "none"
        \/ aw' \in {"todo", "valid"} /\ w' \in {"todo", "valid"}
    BY <1>6, <2>1 DEF MasterWrite, Offer
  <2>4. QED BY <1>2, <1>3, <2>2, <2>3 DEF WriteInv
<1>7. CASE S_AXI_ARESETN /\ ~acked /\ aw # "none"
  <2>1. /\ aw' \in Offer(aw, axi_awready) /\ w' \in Offer(w, axi_wready)
        /\ wreq' = wreq
    BY <1>7 DEF MasterWrite
  <2>2. CASE axi_awready
    <3>1. aw = "valid" /\ w = "valid" /\ axi_wready /\ ~axi_bvalid
      BY <2>2 DEF IInv, WriteInv
    <3>2. aw' = "sent" /\ w' = "sent"
      BY <2>1, <2>2, <3>1 DEF Offer
    <3>3. axi_bvalid' /\ ~axi_awready'
      BY <1>1, <1>4, <1>7, <2>2, <3>1
    <3>4. QED BY <1>2, <1>3, <3>2, <3>3 DEF WriteInv
  <2>3. CASE ~axi_awready /\ axi_bvalid
    <3>1. aw = "sent" /\ w = "sent"
      BY <2>3 DEF IInv, WriteInv
    <3>2. aw' = "sent" /\ w' = "sent"
      BY <2>1, <3>1 DEF Offer
    <3>3. axi_bvalid' /\ ~axi_awready'
      BY <1>1, <1>7, <2>3, <3>1 DEF offered, S_AXI_AWVALID
    <3>4. QED BY <1>2, <1>3, <3>2, <3>3 DEF WriteInv
  <2>4. CASE ~axi_awready /\ ~axi_bvalid
    <3>1. aw \in {"todo", "valid"} /\ w \in {"todo", "valid"} /\ ~axi_wready
      BY <1>7, <2>4 DEF IInv, WriteInv, TypeOK
    <3>2. aw' \in {"todo", "valid"} /\ w' \in {"todo", "valid"}
      BY <2>1, <2>4, <3>1 DEF Offer
    <3>3. ~axi_bvalid'
      BY <1>1, <1>4, <2>4
    <3>4. ASSUME axi_awready'
          PROVE  aw' = "valid" /\ w' = "valid" /\ axi_awaddr' = wreq'.addr
      <4>1. offered
        BY <1>1, <3>4
      <4>2. aw = "valid" /\ w = "valid"
        BY <4>1 DEF offered, S_AXI_AWVALID, S_AXI_WVALID
      <4>3. axi_awaddr' = wreq.addr
        BY <1>7, <2>4, <4>1 DEF Edge, AwAddr
      <4>4. QED BY <2>1, <2>4, <3>1, <4>2, <4>3 DEF Offer
    <3>5. QED BY <1>2, <1>3, <3>2, <3>3, <3>4 DEF WriteInv
  <2>5. QED BY <2>2, <2>3, <2>4 DEF IInv, TypeOK
<1>8. QED BY <1>5, <1>6, <1>7

(* The read channel: an answer is raised at the edge that accepts the      *)
(* address.                                                                *)
LEMMA ReadStep ==
  ASSUME IInv, NEW bready \in BOOLEAN, NEW rready \in BOOLEAN,
         Edge(bready, rready), MasterRead(rready)
  PROVE  /\ ar' \in {"none", "valid", "sent"} /\ S_AXI_ARADDR' \in Addresses
         /\ axi_arready' \in BOOLEAN /\ axi_rvalid' \in BOOLEAN
         /\ axi_araddr' \in Addresses
         /\ ReadInv'
<1> DEFINE taken == axi_rvalid /\ rready
<1>1. /\ axi_arready' = (S_AXI_ARESETN /\ ~axi_arready /\ S_AXI_ARVALID)
      /\ axi_araddr' = IF ~S_AXI_ARESETN THEN AddrMod - 1
                       ELSE IF ~axi_arready /\ S_AXI_ARVALID THEN S_AXI_ARADDR
                       ELSE axi_araddr
      /\ axi_rvalid' = (S_AXI_ARESETN /\ (slv_reg_rden
                                             \/ (axi_rvalid /\ ~rready)))
  BY DEF Edge, ArReady, RValid
<1>2. axi_arready' \in BOOLEAN /\ axi_rvalid' \in BOOLEAN
  BY <1>1
<1>3. axi_araddr' \in Addresses /\ S_AXI_ARADDR' \in Addresses
  BY <1>1, Addresses0 DEF IInv, TypeOK, MasterRead
<1>4. slv_reg_rden <=> axi_arready
  BY DEF slv_reg_rden, IInv, ReadInv, S_AXI_ARVALID
<1>5. CASE ~S_AXI_ARESETN \/ taken
  <2>1. ar' = "none"
    BY <1>5 DEF MasterRead, IInv, ReadInv
  <2>2. ~axi_rvalid' /\ ~axi_arready'
    BY <1>1, <1>4, <1>5 DEF IInv, ReadInv, S_AXI_ARVALID
  <2>3. QED BY <1>2, <1>3, <2>1, <2>2 DEF ReadInv
<1>6. CASE S_AXI_ARESETN /\ ~taken /\ ar = "none"
  <2>1. ~axi_rvalid' /\ ~axi_arready'
    BY <1>1, <1>4, <1>6 DEF IInv, ReadInv, S_AXI_ARVALID
  <2>2. ar' \in {"none", "valid"}
    BY <1>6 DEF MasterRead, Offer
  <2>3. QED BY <1>2, <1>3, <2>1, <2>2 DEF ReadInv
<1>7. CASE S_AXI_ARESETN /\ ~taken /\ ar # "none"
  <2>1. ar' \in Offer(ar, axi_arready) /\ S_AXI_ARADDR' = S_AXI_ARADDR
    BY <1>7 DEF MasterRead
  <2>2. CASE ar = "sent"
    <3>1. axi_rvalid' /\ ~axi_arready' /\ ar' = "sent"
      BY <1>1, <1>7, <2>1, <2>2 DEF IInv, ReadInv, S_AXI_ARVALID, Offer
    <3>2. QED BY <1>2, <1>3, <3>1 DEF ReadInv
  <2>3. CASE ar = "valid" /\ axi_arready
    <3>1. axi_rvalid' /\ ~axi_arready' /\ ar' = "sent"
      BY <1>1, <1>4, <1>7, <2>1, <2>3 DEF Offer
    <3>2. QED BY <1>2, <1>3, <3>1 DEF ReadInv
  <2>4. CASE ar = "valid" /\ ~axi_arready
    <3>1. ~axi_rvalid /\ ~axi_rvalid'
      BY <1>1, <1>4, <2>4 DEF IInv, ReadInv
    <3>2. ar' = "valid" /\ axi_araddr' = S_AXI_ARADDR'
      BY <1>1, <1>7, <2>1, <2>4 DEF Offer, S_AXI_ARVALID
    <3>3. QED BY <1>2, <1>3, <3>1, <3>2 DEF ReadInv
  <2>5. QED BY <1>7, <2>2, <2>3, <2>4 DEF IInv, TypeOK
<1>8. QED BY <1>5, <1>6, <1>7

(* The registers and latches keep their types.                             *)
LEMMA DataStep ==
  ASSUME IInv, NEW bready \in BOOLEAN, NEW rready \in BOOLEAN,
         Edge(bready, rready), MasterWrite(bready)
  PROVE  /\ wreq' \in WriteRequests /\ axi_awaddr' \in Addresses
         /\ slv_reg' \in [Registers -> Words] /\ axi_rdata' \in Words
<1> USE Addresses0, ZeroWordType DEF IInv, TypeOK
<1>1. wreq' \in WriteRequests
  BY DEF MasterWrite, NoRequest, WriteRequests
<1>2. axi_awaddr' \in Addresses
  BY DEF Edge, AwAddr, WriteRequests
<1>3. ASSUME NEW old \in Words
      PROVE  Strobed(old) \in Words
  BY <1>3 DEF Strobed, Words, WriteRequests
<1>4. slv_reg' \in [Registers -> Words]
  BY <1>3 DEF Edge, SlvReg
<1>5. axi_rdata' \in Words
  BY DEF Edge, RData, reg_data_out
<1>6. QED BY <1>1, <1>2, <1>4, <1>5

LEMMA NextIInv == IInv /\ [Next]_vars => IInv'
<1> SUFFICES ASSUME IInv, [Next]_vars PROVE IInv'
  OBVIOUS
<1>1. CASE Next
  <2>1. PICK bready \in BOOLEAN, rready \in BOOLEAN :
          Edge(bready, rready) /\ MasterWrite(bready) /\ MasterRead(rready)
    BY <1>1 DEF Next
  <2>2. S_AXI_ARESETN' \in BOOLEAN
    BY <1>1 DEF Next
  <2>3. QED BY <2>1, <2>2, WriteStep, ReadStep, DataStep DEF IInv, TypeOK
<1>2. CASE UNCHANGED vars
  BY <1>2 DEF IInv, TypeOK, WriteInv, ReadInv, vars, master, slave
<1>3. QED BY <1>1, <1>2

(* Every reachable state is well typed with both channels in step.         *)
THEOREM Invariance == Spec => []IInv
BY InitIInv, NextIInv, PTL DEF Spec

(* The processes that decode the acceptance of a write agree at every      *)
(* edge, and the register is written under the address on the bus.         *)
THEOREM AlwaysAgree == Spec => []WritesAgree
<1>1. IInv => WritesAgree
  BY DEF IInv, WriteInv, WritesAgree, slv_reg_wren, S_AXI_AWVALID, S_AXI_WVALID
<1>2. QED BY <1>1, Invariance, PTL

----------------------------------------------------------------------------
(* The implementation of RegisterFile                                      *)

LEMMA InitFile == Init => File!Init
BY DEF Init, File!Init, Phase, ZeroWord, File!ZeroWord

(* The write channel makes a step of the abstract write, or none.          *)
LEMMA WriteFile ==
  ASSUME IInv, S_AXI_ARESETN, NEW bready \in BOOLEAN, NEW rready \in BOOLEAN,
         Edge(bready, rready), MasterWrite(bready)
  PROVE  File!AskWrite \/ File!Commit \/ File!AckWrite
           \/ UNCHANGED <<slv_reg, File!write>>
<1>1. slv_reg_wren <=> axi_awready
  BY DEF slv_reg_wren, IInv, WriteInv, S_AXI_AWVALID, S_AXI_WVALID
<1>2. axi_bvalid' = ((slv_reg_wren /\ ~axi_bvalid) \/ (axi_bvalid /\ ~bready))
  BY DEF Edge, BValid
<1>3. WriteInv'
  BY WriteStep
<1>4. CASE axi_awready
  <2>1. aw = "valid" /\ ~axi_bvalid /\ axi_awaddr = wreq.addr
    BY <1>4 DEF IInv, WriteInv
  <2>2. wreq' = wreq
    BY <2>1 DEF MasterWrite
  <2>3. axi_bvalid'
    BY <1>1, <1>2, <1>4, <2>1
  <2>4. slv_reg' = [r \in Registers |->
                      IF r = wreq.addr
                      THEN File!Merge(slv_reg[r], wreq.data, wreq.strb)
                      ELSE slv_reg[r]]
    BY <1>1, <1>4, <2>1 DEF Edge, SlvReg, Strobed, File!Merge
  <2>5. Phase(axi_bvalid, aw) = "asked" /\ Phase(axi_bvalid, aw)' = "done"
    BY <2>1, <2>3 DEF Phase
  <2>6. File!Commit
    BY <2>2, <2>4, <2>5 DEF File!Commit
  <2>7. QED BY <2>6
<1>5. CASE ~axi_awready
  <2>1. slv_reg' = slv_reg
    BY <1>1, <1>5 DEF Edge, SlvReg, IInv, TypeOK
  <2>2. axi_bvalid' = (axi_bvalid /\ ~bready)
    BY <1>1, <1>2, <1>5
  <2>3. CASE axi_bvalid /\ bready
    <3>1. aw' = "none"
      BY <2>3 DEF MasterWrite, IInv, WriteInv
    <3>2. File!AckWrite
      BY <2>1, <2>2, <2>3, <3>1 DEF File!AckWrite, Phase
    <3>3. QED BY <3>2
  <2>4. CASE axi_bvalid /\ ~bready
    <3>1. wreq' = wreq
      BY <2>4 DEF MasterWrite, IInv, WriteInv
    <3>2. UNCHANGED File!write
      BY <2>2, <2>4, <3>1 DEF File!write, Phase
    <3>3. QED BY <2>1, <3>2
  <2>5. CASE ~axi_bvalid /\ aw # "none"
    <3>1. wreq' = wreq /\ aw' \in Offer(aw, axi_awready)
      BY <2>5 DEF MasterWrite
    <3>2. aw' # "none"
      BY <2>5, <3>1 DEF Offer
    <3>3. UNCHANGED File!write
      BY <2>2, <2>5, <3>1, <3>2 DEF File!write, Phase
    <3>4. QED BY <2>1, <3>3
  <2>6. CASE ~axi_bvalid /\ aw = "none"
    <3>1. CASE aw' = "none"
      <4>1. wreq' = wreq
        BY <2>6, <3>1 DEF MasterWrite
      <4>2. QED BY <2>1, <2>2, <2>6, <3>1, <4>1 DEF File!write, Phase
    <3>2. CASE aw' # "none"
      <4>1. wreq' \in WriteRequests
        BY <2>6, <3>2 DEF MasterWrite, Offer
      <4>2. File!AskWrite
        BY <2>1, <2>2, <2>6, <3>2, <4>1
           DEF File!AskWrite, Phase, WriteRequests, File!Requests, Words
      <4>3. QED BY <4>2
    <3>3. QED BY <3>1, <3>2
  <2>7. QED BY <2>3, <2>4, <2>5, <2>6
<1>6. QED BY <1>4, <1>5

(* The read channel makes a step of the abstract read, or none.            *)
LEMMA ReadFile ==
  ASSUME IInv, S_AXI_ARESETN, NEW bready \in BOOLEAN, NEW rready \in BOOLEAN,
         Edge(bready, rready), MasterRead(rready)
  PROVE  File!AskRead \/ File!Sample \/ File!TakeRead \/ UNCHANGED File!read
<1>1. slv_reg_rden <=> axi_arready
  BY DEF slv_reg_rden, IInv, ReadInv, S_AXI_ARVALID
<1>2. axi_rvalid' = (slv_reg_rden \/ (axi_rvalid /\ ~rready))
  BY DEF Edge, RValid
<1>3. CASE axi_arready
  <2>1. ar = "valid" /\ ~axi_rvalid /\ axi_araddr = S_AXI_ARADDR
    BY <1>3 DEF IInv, ReadInv
  <2>2. S_AXI_ARADDR' = S_AXI_ARADDR /\ axi_rvalid'
    BY <1>1, <1>2, <1>3, <2>1 DEF MasterRead
  <2>3. axi_rdata' = File!Value(S_AXI_ARADDR)
    BY <1>1, <1>3, <2>1
       DEF Edge, RData, reg_data_out, File!Value, ZeroWord, File!ZeroWord
  <2>4. File!Sample
    BY <2>1, <2>2, <2>3 DEF File!Sample, Phase
  <2>5. QED BY <2>4
<1>4. CASE ~axi_arready
  <2>1. axi_rdata' = axi_rdata
    BY <1>1, <1>4 DEF Edge, RData
  <2>2. axi_rvalid' = (axi_rvalid /\ ~rready)
    BY <1>1, <1>2, <1>4
  <2>3. CASE axi_rvalid /\ rready
    <3>1. ar' = "none"
      BY <2>3 DEF MasterRead, IInv, ReadInv
    <3>2. File!TakeRead
      BY <2>2, <2>3, <3>1 DEF File!TakeRead, Phase
    <3>3. QED BY <3>2
  <2>4. CASE axi_rvalid /\ ~rready
    <3>1. S_AXI_ARADDR' = S_AXI_ARADDR
      BY <2>4 DEF MasterRead, IInv, ReadInv
    <3>2. UNCHANGED File!read
      BY <2>1, <2>2, <2>4, <3>1 DEF File!read, Phase
    <3>3. QED BY <3>2
  <2>5. CASE ~axi_rvalid /\ ar # "none"
    <3>1. S_AXI_ARADDR' = S_AXI_ARADDR /\ ar' \in Offer(ar, axi_arready)
      BY <2>5 DEF MasterRead
    <3>2. ar' # "none"
      BY <2>5, <3>1 DEF Offer
    <3>3. UNCHANGED File!read
      BY <2>1, <2>2, <2>5, <3>1, <3>2 DEF File!read, Phase
    <3>4. QED BY <3>3
  <2>6. CASE ~axi_rvalid /\ ar = "none"
    <3>1. CASE ar' = "none"
      <4>1. S_AXI_ARADDR' = S_AXI_ARADDR
        BY <2>6, <3>1 DEF MasterRead
      <4>2. UNCHANGED File!read
        BY <2>1, <2>2, <2>6, <3>1, <4>1 DEF File!read, Phase
      <4>3. QED BY <4>2
    <3>2. CASE ar' # "none"
      <4>1. S_AXI_ARADDR' \in Addresses
        BY <2>6, <3>2 DEF MasterRead, Offer
      <4>2. File!AskRead
        BY <2>2, <2>6, <3>2, <4>1 DEF File!AskRead, Phase
      <4>3. QED BY <4>2
    <3>3. QED BY <3>1, <3>2
  <2>7. QED BY <2>3, <2>4, <2>5, <2>6
<1>5. QED BY <1>3, <1>4

(* The edge of a reset clears the registers and drops both requests.       *)
LEMMA ResetFile ==
  ASSUME ~S_AXI_ARESETN, NEW bready \in BOOLEAN, NEW rready \in BOOLEAN,
         Edge(bready, rready), MasterWrite(bready), MasterRead(rready)
  PROVE  File!Reset
<1>1. aw' = "none" /\ ar' = "none"
  BY DEF MasterWrite, MasterRead
<1>2. ~axi_bvalid' /\ ~axi_rvalid'
  BY DEF Edge, BValid, RValid
<1>3. slv_reg' = [r \in Registers |-> File!ZeroWord]
  BY DEF Edge, SlvReg, ZeroWord, File!ZeroWord
<1>4. QED BY <1>1, <1>2, <1>3 DEF File!Reset, Phase

(* The slave behind a master that waits for its answers implements the     *)
(* register file: every access takes effect once, answers once, and a      *)
(* write touches only the strobed lanes of its register.                   *)
THEOREM Implements == Spec => FileSpec
<1>1. IInv /\ [Next]_vars => [File!Next]_(File!vars)
  <2> SUFFICES ASSUME IInv, [Next]_vars
               PROVE  [File!Next]_(File!vars)
    OBVIOUS
  <2>1. CASE Next
    <3>1. PICK bready \in BOOLEAN, rready \in BOOLEAN :
            Edge(bready, rready) /\ MasterWrite(bready) /\ MasterRead(rready)
      BY <2>1 DEF Next
    <3>2. CASE S_AXI_ARESETN
      <4>1. File!Step
        BY <3>1, <3>2, WriteFile, ReadFile DEF File!Step
      <4>2. QED BY <4>1 DEF File!Next
    <3>3. CASE ~S_AXI_ARESETN
      BY <3>1, <3>3, ResetFile DEF File!Next
    <3>4. QED BY <3>2, <3>3
  <2>2. CASE UNCHANGED vars
    BY <2>2 DEF vars, master, slave, File!vars, File!write, File!read, Phase
  <2>3. QED BY <2>1, <2>2
<1>2. QED
  BY <1>1, InitFile, Invariance, PTL DEF Spec, FileSpec, File!Spec
=============================================================================
