----------------------------- MODULE SyncDriver -----------------------------
(***************************************************************************)
(* sw/sync.c and the receive callback of sw/client.c over the registers of *)
(* axi_sync_v1_0_S_AXI.vhd: how a timestamp becomes the counter of seconds *)
(* while PPS pulses keep coming.  One step is one rising edge of the bus   *)
(* clock.  A register access takes effect at an edge of the bus's          *)
(* choosing, as RegisterFile says and AxiLiteSlave_proof proves of the     *)
(* slave, and the processor waits for it.  Startup says who calls.         *)
(***************************************************************************)
EXTENDS Integers

CONSTANT SecondMod  \* 2^30 in the code: width of the timestamp

ASSUME SecondModAssumption == SecondMod \in Nat /\ SecondMod > 1

VARIABLES
  onepps_in, onepps_r_1, onepps_r_2, onepps_r_3, cnt,  \* sync.vhd
  slv_reg0, slv_reg1,    \* control bits and timestamp register
  pc, temp,              \* the access under way, a value read
  mail,                  \* the host's answer on the network, or None
  due,                   \* history: the host's answer to the board's request
                         \* and the seconds begun since it was given
  answer                 \* the last accepted timestamp, or None

counter == <<onepps_r_1, onepps_r_2, onepps_r_3, cnt>>
driver == <<slv_reg0, slv_reg1, pc, temp, answer>>
vars == <<onepps_in, counter, driver, mail, due>>

None == -1  \* no word

Seconds == 0 .. SecondMod - 1

(* Stands for the words with one of the two highest of 32 bits set.        *)
TooWide == {SecondMod}

Words == Seconds \cup TooWide

Counter == INSTANCE Sync WITH sclr <- slv_reg0.rst, load <- slv_reg0.load,
                              time_load <- slv_reg1, base <- 0, pulses <- 0

(* Seeded bug: the timestamp register is written after the load pulse.     *)
After_LoadFirst == [callback |-> "load_read",
                    load_read |-> "load_write",
                    load_write |-> "unload_read",
                    unload_read |-> "unload_write",
                    unload_write |-> "write_timestamp",
                    write_timestamp |-> "loop"]

(* The accesses of sync_load_timestamp in order.                           *)
After == [callback |-> "write_timestamp",
          write_timestamp |-> "load_read",
          load_read |-> "load_write",
          load_write |-> "unload_read",
          unload_read |-> "unload_write",
          unload_write |-> "loop"]

(* Seeded bug: the range of the timestamp is not checked.                  *)
Refused_Never(t) == FALSE

Refused(t) == t \in TooWide

(* udp_server_rx_callback, called by the main loop; a refused timestamp is *)
(* dropped and nobody looks at the result.                                 *)
Receive ==
  /\ pc = "loop" /\ mail # None
  /\ mail' = None
  /\ IF Refused(mail) THEN UNCHANGED <<pc, answer>>
     ELSE pc' = After.callback /\ answer' = mail
  /\ UNCHANGED <<slv_reg0, slv_reg1, temp>>

(* The register keeps 32 bits, the counter gets the low 30.                *)
WriteTimestamp ==
  /\ pc = "write_timestamp" /\ pc' = After[pc]
  /\ slv_reg1' = answer % SecondMod
  /\ UNCHANGED <<slv_reg0, temp, answer, mail>>

(* Seeded bug: a bit is or-ed in also where it has to be cleared.          *)
WithBit_Or(bit, value) == [temp EXCEPT ![bit] = @ \/ value]

WithBit(bit, value) == [temp EXCEPT ![bit] = value]

(* A control bit is changed by a read and a write of its register.         *)
ReadCtrl ==
  /\ pc \in {"rst_read", "load_read", "unload_read"}
  /\ temp' = slv_reg0
  /\ pc' = IF pc = "rst_read" THEN "rst_write" ELSE After[pc]
  /\ UNCHANGED <<slv_reg0, slv_reg1, answer, mail>>

WriteCtrl ==
  /\ \/ /\ pc = "rst_write" /\ pc' = "loop"
        /\ slv_reg0' = WithBit("rst", FALSE)
     \/ /\ pc = "load_write" /\ pc' = After[pc]
        /\ slv_reg0' = WithBit("load", TRUE)
     \/ /\ pc = "unload_write" /\ pc' = After[pc]
        /\ slv_reg0' = WithBit("load", FALSE)
  /\ UNCHANGED <<slv_reg1, temp, answer, mail>>

Driver == WriteTimestamp \/ ReadCtrl \/ WriteCtrl

(* A second begins when a pulse enters the synchroniser.                   *)
Begins == onepps_in /\ ~onepps_r_1

CountSecond(second) == due' = IF Begins THEN (second + 1) % SecondMod ELSE second

InitDriver == /\ slv_reg0 = [rst |-> FALSE, load |-> FALSE] /\ slv_reg1 = 0
              /\ pc = "rst_read" /\ temp = slv_reg0 /\ answer = None

----------------------------------------------------------------------------
(* Properties                                                              *)

(* The seconds due less the counter's, pulses in the synchroniser counted. *)
Lag == (due + 2 * SecondMod - cnt - Counter!InFlight) % SecondMod

Loaded == answer # None /\ pc \in {"rst_read", "rst_write", "loop"}

(* What the counter loads is the whole answer, never the register's old    *)
(* contents and never a timestamp that was refused, unless the board is    *)
(* reset in that cycle and forgets both.                                   *)
LoadsTheAnswer == [][slv_reg0.load /\ answer' # None => cnt' = answer]_vars

(* The load bit falls again: a counter held in load would show one second  *)
(* for ever.                                                               *)
LoadIsReleased == slv_reg0.load ~> ~slv_reg0.load
=============================================================================
