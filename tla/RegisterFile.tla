---------------------------- MODULE RegisterFile ----------------------------
(***************************************************************************)
(* What a register file on the bus promises software: one write and one    *)
(* read may be under way; each takes effect at one moment between its      *)
(* request and its single answer; a write touches the strobed byte lanes   *)
(* of the addressed register and nothing else.                             *)
(***************************************************************************)
CONSTANTS Registers, Addresses, Lanes, Bytes, Zero

VARIABLES regs,                  \* contents of the registers
          wphase, wreq,          \* "idle", "asked" or "done", and the request
          rphase, raddr, rvalue  \* the same for a read, and its answer

write == <<wphase, wreq>>
read == <<rphase, raddr, rvalue>>
vars == <<regs, write, read>>

ZeroWord == [l \in Lanes |-> Zero]
Requests == [addr : Addresses, data : [Lanes -> Bytes], strb : SUBSET Lanes]

Merge(old, data, strb) == [l \in Lanes |-> IF l \in strb THEN data[l] ELSE old[l]]
Value(addr) == IF addr \in Registers THEN regs[addr] ELSE ZeroWord

Init == /\ regs = [r \in Registers |-> ZeroWord]
        /\ wphase = "idle" /\ rphase = "idle"

AskWrite == /\ wphase = "idle" /\ wphase' = "asked"
            /\ wreq' \in Requests
            /\ UNCHANGED regs

Commit == /\ wphase = "asked" /\ wphase' = "done"
          /\ regs' = [r \in Registers |->
                        IF r = wreq.addr THEN Merge(regs[r], wreq.data, wreq.strb)
                        ELSE regs[r]]
          /\ UNCHANGED wreq

AckWrite == wphase = "done" /\ wphase' = "idle" /\ UNCHANGED regs

AskRead == rphase = "idle" /\ rphase' = "asked" /\ raddr' \in Addresses

Sample == /\ rphase = "asked" /\ rphase' = "done"
          /\ rvalue' = Value(raddr)
          /\ UNCHANGED raddr

TakeRead == rphase = "done" /\ rphase' = "idle"

(* The two channels share the clock: both may step at once, and a sample   *)
(* at the edge of a commit returns the old contents.                       *)
Step == /\ AskWrite \/ Commit \/ AckWrite \/ UNCHANGED <<regs, write>>
        /\ AskRead \/ Sample \/ TakeRead \/ UNCHANGED read

Reset == /\ regs' = [r \in Registers |-> ZeroWord]
         /\ wphase' = "idle" /\ rphase' = "idle"

Next == Step \/ Reset

Spec == Init /\ [][Next]_vars
=============================================================================
