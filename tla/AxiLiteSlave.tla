---------------------------- MODULE AxiLiteSlave ----------------------------
(***************************************************************************)
(* The AXI4-Lite slave automaton shared by the cores' *_S_AXI.vhd, which   *)
(* are copies of one generated template; the lines are those of the VDIF   *)
(* formatter.  One step is one rising edge of S_AXI_ACLK: each clocked     *)
(* process samples the signals of the current state; the ready signals of  *)
(* the master are free at every edge.                                      *)
(*                                                                         *)
(* The master at the other end is the interconnect.  It offers address and *)
(* data of a write in any order, holds each until it is accepted and, as   *)
(* the template's comment asks ("this design expects no outstanding        *)
(* transactions"), waits for the answer before the next request of a kind. *)
(***************************************************************************)
EXTENDS Naturals

CONSTANTS RegCount,   \* implemented registers: 10, 4 and 6 in the code
          AddrMod,    \* values of loc_addr: 16, 4 and 8 in the code
          Lanes,      \* byte lanes of a word: four in the code
          Bytes, Zero

ASSUME AddressAssumption == /\ AddrMod \in Nat /\ RegCount \in 1 .. AddrMod
ASSUME BytesAssumption == Zero \in Bytes

VARIABLES
  S_AXI_ARESETN,
  aw, w, wreq,                             \* the master's write channel
  ar, S_AXI_ARADDR,                        \* the master's read channel
  axi_awready, aw_en, axi_awaddr, axi_wready, axi_bvalid, slv_reg,
  axi_arready, axi_araddr, axi_rvalid, axi_rdata

master == <<aw, w, wreq, ar, S_AXI_ARADDR>>
slave == <<axi_awready, aw_en, axi_awaddr, axi_wready, axi_bvalid, slv_reg,
           axi_arready, axi_araddr, axi_rvalid, axi_rdata>>
vars == <<S_AXI_ARESETN, master, slave>>

Registers == 0 .. RegCount - 1
Addresses == 0 .. AddrMod - 1
Words == [Lanes -> Bytes]
ZeroWord == [l \in Lanes |-> Zero]
WriteRequests == [addr : Addresses, data : Words, strb : SUBSET Lanes]
NoRequest == [addr |-> 0, data |-> ZeroWord, strb |-> {}]

S_AXI_AWVALID == aw = "valid"
S_AXI_WVALID == w = "valid"
S_AXI_ARVALID == ar = "valid"

----------------------------------------------------------------------------
(* The slave's write channel                                               *)

offered == S_AXI_AWVALID /\ S_AXI_WVALID /\ aw_en

(* Seeded bug: the enable is off after a reset.                            *)
AwEn_OffAtReset(S_AXI_BREADY) ==
  aw_en' = (S_AXI_ARESETN /\ (aw_en \/ (S_AXI_BREADY /\ axi_bvalid)))

(* The code never clears the enable.                                       *)
AwEn(S_AXI_BREADY) ==
  aw_en' = (~S_AXI_ARESETN \/ aw_en \/ (S_AXI_BREADY /\ axi_bvalid))

AwReady == axi_awready' = (S_AXI_ARESETN /\ ~axi_awready /\ offered)

AwAddr == axi_awaddr' = IF ~S_AXI_ARESETN THEN 0
                        ELSE IF ~axi_awready /\ offered THEN wreq.addr
                        ELSE axi_awaddr

(* Seeded bug: the data is accepted without its address.                   *)
WReady_Alone == axi_wready' = (S_AXI_ARESETN /\ ~axi_wready /\ S_AXI_WVALID)

WReady == axi_wready' = (S_AXI_ARESETN /\ ~axi_wready /\ offered)

slv_reg_wren == axi_wready /\ S_AXI_WVALID /\ axi_awready /\ S_AXI_AWVALID

(* Seeded bug: the strobes are ignored.                                    *)
Strobed_All(old) == wreq.data

Strobed(old) == [l \in Lanes |-> IF l \in wreq.strb THEN wreq.data[l] ELSE old[l]]

SlvReg ==
  slv_reg' = [r \in Registers |->
                IF ~S_AXI_ARESETN THEN ZeroWord
                ELSE IF slv_reg_wren /\ axi_awaddr = r THEN Strobed(slv_reg[r])
                ELSE slv_reg[r]]

BValid(S_AXI_BREADY) ==
  axi_bvalid' = /\ S_AXI_ARESETN
                /\ \/ slv_reg_wren /\ ~axi_bvalid
                   \/ axi_bvalid /\ ~S_AXI_BREADY

----------------------------------------------------------------------------
(* The slave's read channel                                                *)

ArReady ==
  /\ axi_arready' = (S_AXI_ARESETN /\ ~axi_arready /\ S_AXI_ARVALID)
  /\ axi_araddr' = IF ~S_AXI_ARESETN THEN AddrMod - 1
                   ELSE IF ~axi_arready /\ S_AXI_ARVALID THEN S_AXI_ARADDR
                   ELSE axi_araddr

slv_reg_rden == axi_arready /\ S_AXI_ARVALID /\ ~axi_rvalid

RValid(S_AXI_RREADY) ==
  axi_rvalid' = /\ S_AXI_ARESETN
                /\ slv_reg_rden \/ (axi_rvalid /\ ~S_AXI_RREADY)

reg_data_out == IF axi_araddr \in Registers THEN slv_reg[axi_araddr] ELSE ZeroWord

RData == axi_rdata' = IF ~S_AXI_ARESETN THEN ZeroWord
                      ELSE IF slv_reg_rden THEN reg_data_out
                      ELSE axi_rdata

Edge(S_AXI_BREADY, S_AXI_RREADY) ==
  /\ AwEn(S_AXI_BREADY) /\ AwReady /\ AwAddr /\ WReady
  /\ SlvReg /\ BValid(S_AXI_BREADY)
  /\ ArReady /\ RValid(S_AXI_RREADY) /\ RData

----------------------------------------------------------------------------
(* The master: "none" no request, "todo" still to be offered, "valid"      *)
(* offered, "sent" accepted.                                               *)

Offer(channel, ready) ==
  IF channel = "todo" THEN {"todo", "valid"}
  ELSE IF channel = "valid" /\ ready THEN {"sent"}
  ELSE {channel}

MasterWrite(S_AXI_BREADY) ==
  \/ /\ ~S_AXI_ARESETN \/ (axi_bvalid /\ S_AXI_BREADY)
     /\ aw' = "none" /\ w' = "none" /\ wreq' = NoRequest
  \/ /\ S_AXI_ARESETN /\ ~(axi_bvalid /\ S_AXI_BREADY)
     /\ aw' \in Offer(aw, axi_awready) /\ w' \in Offer(w, axi_wready)
     /\ UNCHANGED wreq
  \/ /\ S_AXI_ARESETN /\ aw = "none" /\ w = "none"
     /\ aw' \in {"todo", "valid"} /\ w' \in {"todo", "valid"}
     /\ wreq' \in WriteRequests

MasterRead(S_AXI_RREADY) ==
  \/ /\ ~S_AXI_ARESETN \/ (axi_rvalid /\ S_AXI_RREADY)
     /\ ar' = "none" /\ S_AXI_ARADDR' = 0
  \/ /\ S_AXI_ARESETN /\ ~(axi_rvalid /\ S_AXI_RREADY)
     /\ ar' \in Offer(ar, axi_arready)
     /\ UNCHANGED S_AXI_ARADDR
  \/ /\ S_AXI_ARESETN /\ ar = "none"
     /\ ar' = "valid"
     /\ S_AXI_ARADDR' \in Addresses

Init == /\ S_AXI_ARESETN = FALSE
        /\ aw = "none" /\ w = "none" /\ wreq = NoRequest
        /\ ar = "none" /\ S_AXI_ARADDR = 0
        /\ axi_awready = FALSE /\ axi_wready = FALSE /\ axi_bvalid = FALSE
        /\ aw_en = FALSE /\ axi_awaddr = 0
        /\ axi_arready = FALSE /\ axi_araddr = 0 /\ axi_rvalid = FALSE
        /\ axi_rdata = ZeroWord
        /\ slv_reg = [r \in Registers |-> ZeroWord]

Next == /\ S_AXI_ARESETN' \in BOOLEAN
        /\ \E S_AXI_BREADY, S_AXI_RREADY \in BOOLEAN :
             /\ Edge(S_AXI_BREADY, S_AXI_RREADY)
             /\ MasterWrite(S_AXI_BREADY)
             /\ MasterRead(S_AXI_RREADY)

Spec == Init /\ [][Next]_vars

(* The clock ticks when an edge would change a register of the slave; the  *)
(* master need never ask, and need not take an answer.                     *)
FairSpec == Spec /\ WF_slave(Next)

----------------------------------------------------------------------------
(* Properties                                                              *)

(* Every register and every request keeps to its declaration.              *)
TypeOK ==
  /\ S_AXI_ARESETN \in BOOLEAN
  /\ {aw, w} \subseteq {"none", "todo", "valid", "sent"}
  /\ ar \in {"none", "valid", "sent"}
  /\ wreq \in WriteRequests /\ S_AXI_ARADDR \in Addresses
  /\ axi_awready \in BOOLEAN /\ axi_wready \in BOOLEAN /\ axi_bvalid \in BOOLEAN
  /\ axi_arready \in BOOLEAN /\ axi_rvalid \in BOOLEAN
  /\ axi_awaddr \in Addresses /\ axi_araddr \in Addresses
  /\ slv_reg \in [Registers -> Words] /\ axi_rdata \in Words

(* Three processes decode the acceptance of a write separately; they agree *)
(* on every edge, so an address is never accepted without its data, and    *)
(* the latched address is the one on the bus when the register is written. *)
WritesAgree ==
  /\ axi_awready = axi_wready
  /\ axi_awready /\ S_AXI_ARESETN =>
       slv_reg_wren /\ axi_awaddr = wreq.addr /\ ~axi_bvalid

Phase(answer, channel) ==
  IF answer THEN "done" ELSE IF channel = "none" THEN "idle" ELSE "asked"

File == INSTANCE RegisterFile WITH
          regs <- slv_reg,
          wphase <- Phase(axi_bvalid, aw),
          rphase <- Phase(axi_rvalid, ar),
          raddr <- S_AXI_ARADDR,
          rvalue <- axi_rdata

(* Software's view: each access takes effect once, answers once, and       *)
(* touches only the strobed lanes of its register, also when a read and a  *)
(* write meet and in any order of address and data.                        *)
FileSpec == File!Spec

(* Every access is answered unless a reset cuts it: aw_en never shuts the  *)
(* slave, and a stalled channel never stalls the other.                    *)
EveryAccessAnswered ==
  /\ (S_AXI_AWVALID /\ S_AXI_WVALID) ~> (axi_bvalid \/ ~S_AXI_ARESETN)
  /\ S_AXI_ARVALID ~> (axi_rvalid \/ ~S_AXI_ARESETN)
=============================================================================
